-------------------------- MODULE BootImageProofs --------------------------
(***************************************************************************)
(* Proofs about BootImage, for disks and sectors of any size and any list  *)
(* of programs: the loader reads the image in order, and what it loads is  *)
(* what BuildImage was asked to load.                                      *)
(***************************************************************************)
EXTENDS BootImage, QueueOpsProofs

LEMMA Sizes ==
  /\ SECT_SIZE \in Nat /\ SECT_SIZE >= 1 /\ PARA \in Nat /\ PARA >= 1
  /\ SEGMENT \in Nat /\ SEGMENT >= 1 /\ SPT \in Nat /\ SPT >= 1
  /\ HEADS \in Nat /\ HEADS >= 1 /\ TRACKS \in Nat /\ TRACKS >= 1
  /\ SEGMENT % SECT_SIZE = 0
  BY BootAssumption

LEMMA Quotient ==
  ASSUME NEW a \in Nat, NEW b \in Nat, b >= 1
  PROVE  /\ a \div b \in Nat /\ a % b \in Nat /\ a % b < b
         /\ (a \div b) * b + (a % b) = a
  OBVIOUS

LEMMA Regrouped ==
  ASSUME NEW a \in Nat, NEW b \in Nat, NEW i \in Nat
  PROVE  a + b + i - 1 = a + (b + i) - 1
  OBVIOUS

\* Files are padded to whole sectors.
LEMMA SectorsHold ==
  ASSUME NEW len \in Nat
  PROVE  /\ Sectors(len) \in Nat
         /\ Sectors(len) * SECT_SIZE >= len
         /\ len > 0 => Sectors(len) >= 1
  <1> DEFINE q == Sectors(len)
             r == (len + SECT_SIZE - 1) % SECT_SIZE
  <1>1. len + SECT_SIZE - 1 \in Nat
    BY Sizes
  <1>2. q \in Nat /\ r \in Nat /\ r < SECT_SIZE /\ q * SECT_SIZE + r = len + SECT_SIZE - 1
    BY <1>1, Sizes, Quotient DEF Sectors
  <1> HIDE DEF q, r
  <1>3. q * SECT_SIZE \in Nat
    BY <1>2, Sizes
  <1>4. q * SECT_SIZE >= len
    BY <1>2, <1>3, Sizes
  <1>5. q = 0 => q * SECT_SIZE = 0
    BY Sizes
  <1>6. len > 0 => q >= 1
    BY <1>2, <1>4, <1>5, Sizes
  <1>7. QED BY <1>2, <1>4, <1>6 DEF q

\* The bootstrap has two sectors.
LEMMA TwoSectors == Sectors(2 * SECT_SIZE) = 2
  <1> DEFINE q == Sectors(2 * SECT_SIZE)
             r == (2 * SECT_SIZE + SECT_SIZE - 1) % SECT_SIZE
  <1>1. 2 * SECT_SIZE + SECT_SIZE - 1 \in Nat
    BY Sizes
  <1>2. /\ q \in Nat /\ r \in Nat /\ r < SECT_SIZE
        /\ q * SECT_SIZE + r = 2 * SECT_SIZE + SECT_SIZE - 1
    BY <1>1, Sizes, Quotient DEF Sectors
  <1> HIDE DEF q, r
  <1>3. q * SECT_SIZE \in Nat /\ q * SECT_SIZE > SECT_SIZE
    BY <1>2, Sizes
  <1>4. q <= 1 => q * SECT_SIZE <= SECT_SIZE
    BY <1>2, Sizes
  <1>5. q >= 3 => q * SECT_SIZE >= 3 * SECT_SIZE
    BY <1>2, Sizes
  <1>6. q = 2
    BY <1>2, <1>3, <1>4, <1>5, Sizes
  <1>7. QED BY <1>6 DEF q

-----------------------------------------------------------------------------
(* The order of the sectors *)

Readers == [di : Nat, es : Nat, bx : Nat, count : Nat, tries : Nat,
            sec : Nat, head : Nat, track : Nat]

\* The next sector has the next address, over the ends of tracks and cylinders.
LEMMA NextAddress ==
  ASSUME NEW r \in Readers
  PROVE  /\ NextSector(r) \in Readers
         /\ Address(NextSector(r)) = Address(r) + 1
         /\ NextSector(r).es = r.es /\ NextSector(r).bx = r.bx
         /\ NextSector(r).count = r.count /\ NextSector(r).di = r.di
  <1>1. /\ r.sec \in Nat /\ r.head \in Nat /\ r.track \in Nat
        /\ r.track * HEADS \in Nat /\ (r.track * HEADS + r.head) * SPT \in Nat
    BY Sizes DEF Readers
  <1>2. /\ NextSector(r) \in Readers
        /\ NextSector(r).es = r.es /\ NextSector(r).bx = r.bx
        /\ NextSector(r).count = r.count /\ NextSector(r).di = r.di
    <2>1. r.sec + 1 \in Nat /\ r.head + 1 \in Nat /\ r.track + 1 \in Nat /\ 1 \in Nat /\ 0 \in Nat
      BY <1>1
    <2>2. CASE r.sec + 1 # SPT + 1
      BY <2>1, <2>2 DEF NextSector, Readers
    <2>3. CASE r.sec + 1 = SPT + 1 /\ r.head + 1 # HEADS
      BY <2>1, <2>3 DEF NextSector, Readers
    <2>4. CASE r.sec + 1 = SPT + 1 /\ r.head + 1 = HEADS
      BY <2>1, <2>4 DEF NextSector, Readers
    <2>5. QED BY <2>2, <2>3, <2>4
  <1>3. CASE r.sec + 1 # SPT + 1
    <2>1. /\ NextSector(r).sec = r.sec + 1 /\ NextSector(r).head = r.head
          /\ NextSector(r).track = r.track
      BY <1>3 DEF NextSector, Readers
    <2>2. QED BY <1>1, <1>2, <2>1 DEF Address
  <1>4. CASE r.sec + 1 = SPT + 1 /\ r.head + 1 # HEADS
    <2>1. /\ NextSector(r).sec = 1 /\ NextSector(r).head = r.head + 1
          /\ NextSector(r).track = r.track
      BY <1>4 DEF NextSector, Readers
    <2>2. (r.track * HEADS + (r.head + 1)) * SPT = (r.track * HEADS + r.head) * SPT + SPT
      BY <1>1, Sizes
    <2>3. r.sec = SPT
      <3>1. r.sec \in Nat /\ SPT \in Nat
        BY <1>1, Sizes
      <3> QED  BY <3>1, <1>4
    <2>4. QED BY <1>1, <1>2, <2>1, <2>2, <2>3 DEF Address
  <1>5. CASE r.sec + 1 = SPT + 1 /\ r.head + 1 = HEADS
    <2>1. /\ NextSector(r).sec = 1 /\ NextSector(r).head = 0
          /\ NextSector(r).track = r.track + 1
      BY <1>5 DEF NextSector, Readers
    <2>2. (r.track + 1) * HEADS + 0 = r.track * HEADS + r.head + 1
      BY <1>1, <1>5, Sizes
    <2>3. (r.track * HEADS + r.head + 1) * SPT = (r.track * HEADS + r.head) * SPT + SPT
      BY <1>1, Sizes
    <2>4. r.sec = SPT
      <3>1. r.sec \in Nat /\ SPT \in Nat
        BY <1>1, Sizes
      <3> QED  BY <3>1, <1>5
    <2>5. QED BY <1>1, <1>2, <2>1, <2>2, <2>3, <2>4 DEF Address
  <1>6. QED BY <1>3, <1>4, <1>5

LEMMA NextPlaceKeeps ==
  ASSUME NEW r \in Readers
  PROVE  /\ NextPlace(r) \in Readers
         /\ Address(NextPlace(r)) = Address(r)
         /\ NextPlace(r).count = r.count /\ NextPlace(r).di = r.di
  <1>1. (r.bx + SECT_SIZE) % SEGMENT \in Nat
    <2>1. r.bx + SECT_SIZE \in Nat
      BY Sizes DEF Readers
    <2>2. QED BY <2>1, Sizes, Quotient
  <1>2. SEGMENT \div PARA \in Nat
    BY Sizes, Quotient
  <1>3. r.es + SEGMENT \div PARA \in Nat
    BY <1>2 DEF Readers
  <1>4. QED BY <1>1, <1>3 DEF NextPlace, Readers, Address

\* The words of the table are numbers.
LEMMA WordType ==
  ASSUME info \in Seq(Nat), free \in Nat, NEW i \in Nat, i >= 1
  PROVE  Word(i) \in Nat
  <1>1. i <= Len(info) => Len(info) - i + 1 \in 1..Len(info)
    OBVIOUS
  <1>2. QED BY <1>1 DEF Word, CODE

\* The loader is at the sector that follows those it has read.
OrderInv ==
  /\ free \in Nat /\ info \in Seq(Nat) /\ reader \in Readers /\ nread \in Seq(Nat)
  /\ stage # "frozen" => Address(reader) = Len(nread) + 2
  /\ SectorsInOrder

LEMMA InfoType ==
  ASSUME info \in Seq(Nat), NEW f \in Files
  PROVE  <<f.addr % PARA, f.addr \div PARA, Sectors(f.len)>> \o info \in Seq(Nat)
  <1> DEFINE a == f.addr % PARA
             b == f.addr \div PARA
             c == Sectors(f.len)
  <1>1. f.len \in Nat /\ f.addr \in Nat
    BY BootAssumption
  <1>2. a \in Nat /\ b \in Nat /\ c \in Nat
    BY <1>1, Sizes, Quotient, SectorsHold
  <1> HIDE DEF a, b, c
  <1>3. <<a, b, c>> \o info \in Seq(Nat)
    BY <1>2
  <1>4. QED BY <1>3 DEF a, b, c

LEMMA InitOrder ==
  ASSUME Init
  PROVE  OrderInv
  <1>1. free \in Nat
    BY BootAssumption DEF Init
  <1>2. reader \in Readers /\ Address(reader) = 2
    <2>1. reader = [di |-> 0, es |-> 0, bx |-> 0, count |-> 1, tries |-> 3,
                    sec |-> 2, head |-> 0, track |-> 0]
      BY DEF Init
    <2>2. (0 * HEADS + 0) * SPT + 2 = 2
      BY Sizes
    <2>3. QED BY <2>1, <2>2 DEF Readers, Address
  <1>3. QED BY <1>1, <1>2 DEF Init, OrderInv, SectorsInOrder

LEMMA NextOrder ==
  ASSUME OrderInv, [Next]_vars
  PROVE  OrderInv'
  <1> USE DEF OrderInv
  <1>1. CASE process_args \/ main \/ OffTheDisk \/ UNCHANGED vars
    <2>1. UNCHANGED <<free, info, reader, nread>> /\ (stage' # "frozen" => stage # "frozen")
      BY <1>1 DEF process_args, main, OffTheDisk, vars, build, load, quit
    <2>2. QED BY <2>1 DEF SectorsInOrder, Address
  <1>2. CASE process_file
    <2>1. /\ UNCHANGED <<free, reader, nread>> /\ stage # "frozen" /\ info' \in Seq(Nat)
      BY <1>2, InfoType DEF process_file, load, quit
    <2>2. QED BY <2>1 DEF SectorsInOrder, Address
  <1>3. CASE ReadFails
    <2>1. /\ UNCHANGED <<free, info, nread>> /\ stage # "frozen"
          /\ \/ reader' = reader
             \/ reader' = [reader EXCEPT !.tries = @ - 1] /\ reader.tries > 1
      BY <1>3 DEF ReadFails, Reading, build
    <2>2. reader' \in Readers /\ Address(reader') = Address(reader)
      <3>1. reader.tries > 1 => reader.tries - 1 \in Nat
        BY DEF Readers
      <3>2. QED BY <2>1, <3>1 DEF Readers, Address
    <2>3. QED BY <2>1, <2>2 DEF SectorsInOrder
  <1>4. CASE nextblock
    <2>1. /\ UNCHANGED <<free, info, nread>> /\ stage # "frozen"
      BY <1>4 DEF nextblock, build
    <2>2. reader' \in Readers /\ Address(reader') = Address(reader)
      <3>1. CASE reader' = reader
        BY <3>1
      <3>2. CASE reader' # reader
        <4> DEFINE di == reader.di + 3
                   c == Word(di - 2)
                   e == Word(di - 1)
                   b == Word(di)
        <4>1. di \in Nat /\ di - 2 \in Nat /\ di - 1 \in Nat /\ di - 2 >= 1 /\ di - 1 >= 1 /\ di >= 1
          BY SMTT(30) DEF Readers
        <4>2. c \in Nat /\ e \in Nat /\ b \in Nat
          BY <4>1, WordType
        <4>3. reader' = [reader EXCEPT !.count = c, !.es = e, !.bx = b, !.di = di]
          BY <1>4, <3>2 DEF nextblock
        <4> HIDE DEF c, e, b, di
        <4>4. QED BY <4>1, <4>2, <4>3 DEF Readers, Address
      <3>3. QED BY <3>1, <3>2
    <2>3. QED BY <2>1, <2>2 DEF SectorsInOrder
  <1>5. CASE ReadSector
    <2> DEFINE n == Address(reader)
               next == NextPlace(NextSector(reader))
    <2>1. /\ UNCHANGED <<free, info>> /\ stage = "load" /\ reader.count > 0
          /\ nread' = Append(nread, n)
          /\ \/ stage' = "frozen" /\ reader' = reader
             \/ reader' = [next EXCEPT !.count = @ - 1, !.tries = 3]
      BY <1>5 DEF ReadSector, Reading, build
    <2>2. n = Len(nread) + 2
      BY <2>1
    <2>3. next \in Readers /\ Address(next) = n + 1 /\ next.count = reader.count
      BY NextAddress, NextPlaceKeeps
    <2> HIDE DEF n, next
    <2>4. nread' \in Seq(Nat) /\ Len(nread') = Len(nread) + 1
      BY <2>1, <2>2
    <2>5. SectorsInOrder'
      <3>1. \A i \in 1..Len(nread) : nread[i] = i + 1
        BY DEF SectorsInOrder
      <3>2. ASSUME NEW i \in 1..(Len(nread) + 1)
            PROVE  nread'[i] = i + 1
        <4>1. CASE i = Len(nread) + 1
          <5>1. nread'[i] = n
            BY <2>1, <4>1
          <5>2. n = i + 1
            BY <2>2, <4>1
          <5>3. QED BY <5>1, <5>2
        <4>2. CASE i \in 1..Len(nread)
          BY <2>1, <3>1, <4>2
        <4>3. QED BY <4>1, <4>2
      <3>3. QED BY <2>4, <3>2 DEF SectorsInOrder
    <2>6. CASE stage' = "frozen" /\ reader' = reader
      BY <2>1, <2>4, <2>5, <2>6
    <2>7. CASE reader' = [next EXCEPT !.count = @ - 1, !.tries = 3]
      <3>1. next.count - 1 \in Nat /\ 3 \in Nat
        <4>1. next.count \in Nat /\ next.count > 0
          BY <2>1, <2>3 DEF Readers
        <4>2. QED BY <4>1
      <3>2. reader' \in Readers /\ Address(reader') = Address(next)
        BY <2>3, <2>7, <3>1 DEF Readers, Address
      <3>3. Address(reader') = Len(nread') + 2
        BY <2>2, <2>3, <2>4, <3>2
      <3>4. QED BY <2>1, <2>4, <2>5, <3>2, <3>3
    <2>8. QED BY <2>1, <2>6, <2>7
  <1>6. QED BY <1>1, <1>2, <1>3, <1>4, <1>5 DEF Next

\* The loader reads the image from its second sector on, each sector once and
\* in order, whatever the geometry of the disk and whichever reads fail.
THEOREM ReadsInOrder == Spec => []SectorsInOrder
  <1>1. OrderInv => SectorsInOrder
    BY DEF OrderInv
  <1>2. QED BY <1>1, InitOrder, NextOrder, PTL DEF Spec

-----------------------------------------------------------------------------
(* The image and its table *)

Bytes == Nat \X Nat
Sector == [1..SECT_SIZE -> Bytes]

LEMMA CopiedFile ==
  ASSUME NEW i \in Nat, NEW len \in Nat
  PROVE  /\ copy_file(i, len) \in Seq(Sector)
         /\ Len(copy_file(i, len)) = Sectors(len)
         /\ \A k \in 1..Sectors(len), j \in 1..SECT_SIZE :
              (k - 1) * SECT_SIZE + j <= len =>
                copy_file(i, len)[k][j] = <<i, (k - 1) * SECT_SIZE + j>>
  <1>1. Sectors(len) \in Nat /\ SECT_SIZE \in Nat
    BY Sizes, SectorsHold
  <1> DEFINE at(k, j) == (k - 1) * SECT_SIZE + j
             sector(k) == [j \in 1..SECT_SIZE |-> IF at(k, j) <= len THEN <<i, at(k, j)>> ELSE PAD]
  <1>2. copy_file(i, len) = [k \in 1..Sectors(len) |-> sector(k)]
    BY DEF copy_file
  <1>3. ASSUME NEW k \in 1..Sectors(len)
        PROVE  sector(k) \in Sector
    <2>1. ASSUME NEW j \in 1..SECT_SIZE
          PROVE  at(k, j) \in Nat
      <3>1. k - 1 \in Nat
        BY <1>1
      <3>2. (k - 1) * SECT_SIZE \in Nat
        BY <1>1, <3>1
      <3>3. QED BY <1>1, <3>2
    <2> HIDE DEF at
    <2>2. \A j \in 1..SECT_SIZE : (IF at(k, j) <= len THEN <<i, at(k, j)>> ELSE PAD) \in Bytes
      BY <2>1 DEF Bytes, PAD
    <2>3. QED BY <2>2 DEF Sector
  <1>4. \A k \in 1..Sectors(len), j \in 1..SECT_SIZE :
          at(k, j) <= len => copy_file(i, len)[k][j] = <<i, at(k, j)>>
    BY <1>2
  <1> HIDE DEF sector, at
  <1>5. copy_file(i, len) \in Seq(Sector) /\ Len(copy_file(i, len)) = Sectors(len)
    BY <1>1, <1>2, <1>3
  <1>6. QED BY <1>4, <1>5 DEF at

\* Program k starts at sector st[k] of the image.
Layout(st) ==
  /\ image \in Seq(Sector)
  /\ st \in [1..(Len(files) + 1) -> Nat]
  /\ st[1] = 3
  /\ Len(image) = st[Len(files) + 1] - 1
  /\ \A k \in 1..Len(files) :
       /\ st[k + 1] = st[k] + Sectors(files[k].len)
       /\ \A s \in 1..Sectors(files[k].len) :
            /\ st[k] + s - 1 \in 1..Len(image)
            /\ image[st[k] + s - 1] = copy_file(k, files[k].len)[s]

\* The table has the entry of program k at the 3k last words.
Table ==
  /\ info \in Seq(Nat)
  /\ Len(info) = 3 * Len(files)
  /\ \A k \in 1..Len(files) :
       /\ info[3 * (Len(files) - k) + 1] = files[k].addr % PARA
       /\ info[3 * (Len(files) - k) + 2] = files[k].addr \div PARA
       /\ info[3 * (Len(files) - k) + 3] = Sectors(files[k].len)

\* process_file() adds a program.
Adds(f) ==
  /\ files' = Append(files, f)
  /\ image' = image \o copy_file(Len(files) + 1, f.len)
  /\ info' = <<f.addr % PARA, f.addr \div PARA, Sectors(f.len)>> \o info

LEMMA LayoutGrows ==
  ASSUME NEW st, Layout(st), files \in Seq(Files), NEW f \in Files, Adds(f)
  PROVE  \E st2 : Layout(st2)'
  <1> DEFINE n == Len(files)
             c == copy_file(n + 1, f.len)
  <1>1. /\ n \in Nat /\ f.len \in Nat /\ Sectors(f.len) \in Nat
        /\ files' \in Seq(Files) /\ Len(files') = n + 1 /\ files'[n + 1] = f
        /\ \A k \in 1..n : files'[k] = files[k]
    <2>1. f.len \in Nat /\ Sectors(f.len) \in Nat
      BY BootAssumption, SectorsHold
    <2>2. QED BY <2>1 DEF Adds
  <1>2. c \in Seq(Sector) /\ Len(c) = Sectors(f.len)
    <2>1. n + 1 \in Nat
      BY <1>1
    <2>2. QED BY <1>1, <2>1, CopiedFile
  <1> HIDE DEF c
  <1>3. image' = image \o c
    BY DEF Adds, c
  <1>4. image \in Seq(Sector) /\ Len(image) = st[n + 1] - 1
    BY DEF Layout
  <1>5. /\ image' \in Seq(Sector) /\ Len(image') = Len(image) + Len(c)
        /\ \A i \in 1..Len(image) : image'[i] = image[i]
        /\ \A i \in 1..Len(c) : image'[Len(image) + i] = c[i]
    <2>1. image \in Seq(Sector)
      BY <1>4
    <2>2. /\ image \o c \in Seq(Sector) /\ Len(image \o c) = Len(image) + Len(c)
          /\ \A i \in 1..Len(image) : (image \o c)[i] = image[i]
          /\ \A i \in 1..Len(c) : (image \o c)[Len(image) + i] = c[i]
      BY SMTT(30), <1>2, <2>1
    <2>3. QED BY <1>3, <2>2
  <1>6. /\ \A k \in 1..(n + 1) : st[k] \in Nat
        /\ st[1] = 3
        /\ \A k \in 1..n : st[k + 1] = st[k] + Sectors(files[k].len)
    BY <1>1 DEF Layout
  <1>7. PICK st2 \in [1..(n + 2) -> Nat] :
          /\ st2[1] = 3 /\ st2[n + 2] = st[n + 1] + Sectors(f.len)
          /\ \A k \in 1..(n + 1) : st2[k] = st[k]
    <2> DEFINE g == [k \in 1..(n + 2) |-> IF k <= n + 1 THEN st[k] ELSE st[n + 1] + Sectors(f.len)]
    <2> HIDE DEF n
    <2>1. n + 1 \in 1..(n + 1) /\ 1 \in 1..(n + 1) /\ n + 2 \in 1..(n + 2) /\ ~(n + 2 <= n + 1)
      BY <1>1
    <2>2. st[n + 1] + Sectors(f.len) \in Nat
      BY <1>1, <1>6, <2>1
    <2>3. \A k \in 1..(n + 2) : k <= n + 1 => k \in 1..(n + 1)
      BY <1>1
    <2>4. \A k \in 1..(n + 1) : k \in 1..(n + 2) /\ k <= n + 1
      BY <1>1
    <2>5. g \in [1..(n + 2) -> Nat] /\ \A k \in 1..(n + 1) : g[k] = st[k]
      BY <1>6, <2>2, <2>3, <2>4
    <2>6. g[n + 2] = st[n + 1] + Sectors(f.len) /\ g[1] = 3
      BY <1>6, <2>1, <2>5
    <2> HIDE DEF g
    <2>7. QED BY <2>5, <2>6
  <1> HIDE DEF n
  <1>8. Len(image') = st2[n + 2] - 1
    <2>1. st[n + 1] \in Nat
      BY <1>1, <1>6
    <2>2. QED BY <1>1, <1>2, <1>4, <1>5, <1>7, <2>1
  <1>9. ASSUME NEW k \in 1..(n + 1)
        PROVE  /\ st2[k + 1] = st2[k] + Sectors(files'[k].len)
               /\ \A s \in 1..Sectors(files'[k].len) :
                    /\ st2[k] + s - 1 \in 1..Len(image')
                    /\ image'[st2[k] + s - 1] = copy_file(k, files'[k].len)[s]
    <2>1. CASE k \in 1..n
      <3>1. k \in 1..(n + 1) /\ k + 1 \in 1..(n + 1) /\ files'[k] = files[k]
        BY <1>1, <2>1
      <3>2. st2[k + 1] = st2[k] + Sectors(files'[k].len)
        BY <1>6, <1>7, <2>1, <3>1
      <3>3. ASSUME NEW s \in 1..Sectors(files'[k].len)
            PROVE  /\ st2[k] + s - 1 \in 1..Len(image')
                   /\ image'[st2[k] + s - 1] = copy_file(k, files'[k].len)[s]
        <4>1. /\ st[k] + s - 1 \in 1..Len(image)
              /\ image[st[k] + s - 1] = copy_file(k, files[k].len)[s]
          BY <2>1, <3>1 DEF Layout, n
        <4>2. st[k] + s - 1 \in 1..Len(image')
          BY <1>2, <1>4, <1>5, <4>1
        <4>3. QED BY <1>5, <1>7, <3>1, <4>1, <4>2
      <3>4. QED BY <3>2, <3>3
    <2>2. CASE k = n + 1
      <3>1. /\ n + 1 \in 1..(n + 1) /\ (n + 1) + 1 = n + 2 /\ files'[n + 1] = f
            /\ st2[n + 1] = st[n + 1] /\ st[n + 1] \in Nat
        BY <1>1, <1>6, <1>7, <2>2
      <3>2. st2[k + 1] = st2[k] + Sectors(files'[k].len)
        BY <1>7, <2>2, <3>1
      <3>3. ASSUME NEW s \in 1..Sectors(f.len)
            PROVE  /\ st2[k] + s - 1 \in 1..Len(image')
                   /\ image'[st2[k] + s - 1] = copy_file(k, f.len)[s]
        <4>1. st2[k] + s - 1 = Len(image) + s /\ s \in 1..Len(c) /\ Len(image) \in Nat
          BY <1>1, <1>2, <1>4, <2>2, <3>1
        <4>2. st2[k] + s - 1 \in 1..Len(image')
          BY <1>2, <1>5, <4>1
        <4>3. image'[st2[k] + s - 1] = c[s]
          BY <1>5, <4>1
        <4>4. QED BY <2>2, <4>2, <4>3 DEF c, n
      <3>4. files'[k] = f
        BY <2>2, <3>1
      <3>5. QED BY <3>2, <3>3, <3>4
    <2>3. k \in 1..n \/ k = n + 1
      BY <1>1
    <2>4. QED BY <2>1, <2>2, <2>3
  <1>10. (n + 1) + 1 = n + 2
    BY <1>1
  <1>11. Layout(st2)'
    BY <1>1, <1>5, <1>7, <1>8, <1>9, <1>10 DEF Layout
  <1>12. QED BY <1>11

LEMMA TableGrows ==
  ASSUME Table, files \in Seq(Files), NEW f \in Files, Adds(f)
  PROVE  Table'
  <1> DEFINE n == Len(files)
             a == f.addr % PARA
             b == f.addr \div PARA
             c == Sectors(f.len)
             e == <<a, b, c>>
  <1>1. /\ n \in Nat /\ Len(files') = n + 1 /\ files'[n + 1] = f
        /\ \A k \in 1..n : files'[k] = files[k]
    BY DEF Adds
  <1>2. a \in Nat /\ b \in Nat /\ c \in Nat
    <2>1. f.len \in Nat /\ f.addr \in Nat
      BY BootAssumption
    <2>2. QED BY <2>1, Sizes, Quotient, SectorsHold
  <1>3. /\ info \in Seq(Nat) /\ Len(info) = 3 * n
        /\ \A k \in 1..n :
             /\ info[3 * (n - k) + 1] = files[k].addr % PARA
             /\ info[3 * (n - k) + 2] = files[k].addr \div PARA
             /\ info[3 * (n - k) + 3] = Sectors(files[k].len)
    BY DEF Table
  <1>4. info' = e \o info
    BY DEF Adds
  <1> HIDE DEF a, b, c, n
  <1>5. e \in Seq(Nat) /\ Len(e) = 3 /\ e[1] = a /\ e[2] = b /\ e[3] = c
    BY <1>2
  <1> HIDE DEF e
  <1>6. /\ info' \in Seq(Nat) /\ Len(info') = 3 * n + 3
        /\ \A i \in 1..3 : info'[i] = e[i]
        /\ \A i \in 1..(3 * n) : info'[3 + i] = info[i]
    <2>1. info \in Seq(Nat) /\ Len(info) = 3 * n
      BY <1>3
    <2>2. /\ e \o info \in Seq(Nat) /\ Len(e \o info) = Len(e) + Len(info)
          /\ \A i \in 1..Len(e) : (e \o info)[i] = e[i]
          /\ \A i \in 1..Len(info) : (e \o info)[Len(e) + i] = info[i]
      <3>1. e \in Seq(Nat) /\ info \in Seq(Nat)
        BY <1>5, <2>1
      <3>2. QED BY <3>1
    <2>3. 3 + 3 * n = 3 * n + 3
      BY <1>1
    <2>4. QED BY <1>4, <1>5, <2>1, <2>2, <2>3
  <1>7. ASSUME NEW k \in 1..(n + 1)
        PROVE  /\ info'[3 * ((n + 1) - k) + 1] = files'[k].addr % PARA
               /\ info'[3 * ((n + 1) - k) + 2] = files'[k].addr \div PARA
               /\ info'[3 * ((n + 1) - k) + 3] = Sectors(files'[k].len)
    <2>1. CASE k = n + 1
      <3>1. /\ 3 * ((n + 1) - k) + 1 = 1 /\ 3 * ((n + 1) - k) + 2 = 2
            /\ 3 * ((n + 1) - k) + 3 = 3 /\ files'[k] = f
        BY <1>1, <2>1
      <3>2. info'[1] = a /\ info'[2] = b /\ info'[3] = c
        BY <1>5, <1>6
      <3>3. QED BY <3>1, <3>2 DEF a, b, c
    <2>2. CASE k \in 1..n
      <3> DEFINE i == 3 * (n - k)
      <3>1. 3 * ((n + 1) - k) = i + 3 /\ i \in Nat /\ i + 3 <= 3 * n
        BY <1>1, <2>2
      <3> HIDE DEF i
      <3>2. /\ 3 * ((n + 1) - k) + 1 = 3 + (i + 1) /\ i + 1 \in 1..(3 * n)
            /\ 3 * ((n + 1) - k) + 2 = 3 + (i + 2) /\ i + 2 \in 1..(3 * n)
            /\ 3 * ((n + 1) - k) + 3 = 3 + (i + 3) /\ i + 3 \in 1..(3 * n)
        BY <1>1, <3>1
      <3>3. files'[k] = files[k]
        BY <1>1, <2>2
      <3>4. /\ info[i + 1] = files[k].addr % PARA
            /\ info[i + 2] = files[k].addr \div PARA
            /\ info[i + 3] = Sectors(files[k].len)
        BY <1>3, <2>2 DEF i
      <3>5. QED BY <1>6, <3>2, <3>3, <3>4
    <2>3. k \in 1..n \/ k = n + 1
      BY <1>1
    <2>4. QED BY <2>1, <2>2, <2>3
  <1>8. 3 * n + 3 = 3 * (n + 1)
    BY <1>1
  <1>9. QED BY <1>1, <1>6, <1>7, <1>8 DEF Table

\* The loader reads the entries in the order of the programs.
LEMMA TableRead ==
  ASSUME Table, files \in Seq(Files), NEW e \in 1..Len(files)
  PROVE  /\ Word(3 * e - 2) = Sectors(files[e].len)
         /\ Word(3 * e - 1) = files[e].addr \div PARA
         /\ Word(3 * e) = files[e].addr % PARA
  <1> DEFINE n == Len(files)
  <1>1. n \in Nat /\ Len(info) = 3 * n /\ e \in 1..n
    BY DEF Table
  <1>2. /\ info[3 * (n - e) + 1] = files[e].addr % PARA
        /\ info[3 * (n - e) + 2] = files[e].addr \div PARA
        /\ info[3 * (n - e) + 3] = Sectors(files[e].len)
    BY DEF Table
  <1> HIDE DEF n
  <1>3. /\ 3 * e <= 3 * n
        /\ 3 * e - 1 <= 3 * n
        /\ 3 * e - 2 <= 3 * n
        /\ 3 * n - 3 * e + 1 = 3 * (n - e) + 1
        /\ 3 * n - (3 * e - 1) + 1 = 3 * (n - e) + 2
        /\ 3 * n - (3 * e - 2) + 1 = 3 * (n - e) + 3
    BY <1>1
  <1>4. QED BY <1>1, <1>2, <1>3 DEF Word

-----------------------------------------------------------------------------
(* Loading *)

Size(k) == Sectors(files[k].len)

\* Where the next sector goes: done sectors of program e are behind it.  Either
\* the offset is one that a segment ends after, or the whole program is in one
\* segment.
Position(e) ==
  /\ reader.es * PARA + reader.bx =
       files[e].addr + (Size(e) - reader.count) * SECT_SIZE
  /\ reader.bx + SECT_SIZE <= SEGMENT
  /\ \/ \E q \in Nat : reader.bx = q * SECT_SIZE
     \/ reader.bx + reader.count * SECT_SIZE <= SEGMENT

\* The first n bytes of program k are in memory, but for those overwritten.
Loaded(k, n) ==
  \A j \in 1..files[k].len :
    j <= n /\ files[k].addr + j - 1 \notin Over(k) =>
      /\ files[k].addr + j - 1 \in DOMAIN mem
      /\ mem[files[k].addr + j - 1] = <<k, j>>

\* The loader is busy with program e, or with the bootstrap if e is 0.
Progress(st, e) ==
  /\ reader.di = 3 * e
  /\ Address(reader) = st[e + 1] - reader.count
  /\ \A k \in 1..(e - 1) : Loaded(k, files[k].len)
  /\ e = 0 => reader.count <= 1
  /\ e > 0 => /\ reader.count <= Size(e)
              /\ Loaded(e, (Size(e) - reader.count) * SECT_SIZE)
              /\ reader.count > 0 => Position(e)

LoadInv ==
  /\ files \in Seq(Files)
  /\ stage = "args" =>
       files = <<>> /\ info = <<>> /\ reader.di = 0 /\ reader.count = 1 /\ Address(reader) = 2
  /\ stage = "build" =>
       /\ Table /\ \E st : Layout(st)
       /\ reader.di = 0 /\ reader.count = 1 /\ Address(reader) = 2
  /\ stage = "load" =>
       /\ Table
       /\ \E st : Layout(st) /\ (Regular => \E e \in 0..Len(files) : Progress(st, e))
  /\ LoadedAsAsked

LEMMA Distribute ==
  \A a, b, c \in Nat : (a + b) * c = a * c + b * c /\ a * c \in Nat /\ 0 * c = 0 /\ 1 * c = c
  OBVIOUS

LEMMA Sums ==
  ASSUME NEW a \in Nat, NEW b \in Nat, NEW c \in Nat
  PROVE  (a + b) * c = a * c + b * c
  OBVIOUS

LEMMA LenFiles ==
  ASSUME files \in Seq(Files), NEW k \in 1..Len(files)
  PROVE  /\ files[k] \in Files /\ files[k].len \in Nat /\ files[k].addr \in Nat
         /\ Size(k) \in Nat /\ Size(k) * SECT_SIZE >= files[k].len
         /\ files[k].len > 0 => Size(k) >= 1
  <1>1. files[k] \in Files
    OBVIOUS
  <1>2. files[k].len \in Nat /\ files[k].addr \in Nat
    BY <1>1, BootAssumption
  <1>3. QED BY <1>1, <1>2, SectorsHold DEF Size

\* A segment ends with a sector if its offsets count sectors from 0.
LEMMA SegmentEnd ==
  ASSUME NEW q \in Nat, q * SECT_SIZE + SECT_SIZE <= SEGMENT
  PROVE  \/ q * SECT_SIZE = OFFSET_LIMIT
         \/ /\ (q + 1) * SECT_SIZE = q * SECT_SIZE + SECT_SIZE
            /\ q * SECT_SIZE + SECT_SIZE + SECT_SIZE <= SEGMENT
  <1> DEFINE Q == SEGMENT \div SECT_SIZE
  <1>1. Q \in Nat /\ Q * SECT_SIZE = SEGMENT
    BY Sizes, Quotient
  <1> HIDE DEF Q
  <1>2. (q + 1) * SECT_SIZE = q * SECT_SIZE + SECT_SIZE
    BY Sizes
  <1>3. q * SECT_SIZE \in Nat
    BY Sizes
  <1>4. q + 1 <= Q
    <2>1. Q <= q => Q * SECT_SIZE <= q * SECT_SIZE
      BY <1>1, Sizes
    <2>2. QED BY <1>1, <1>3, <2>1, Sizes
  <1>5. CASE q + 1 = Q
    BY <1>1, <1>2, <1>3, <1>5, Sizes DEF OFFSET_LIMIT
  <1>6. CASE q + 2 <= Q
    <2>1. (q + 2) * SECT_SIZE <= Q * SECT_SIZE
      BY <1>1, <1>6, Sizes
    <2>2. (q + 2) * SECT_SIZE = q * SECT_SIZE + SECT_SIZE + SECT_SIZE
      BY Sizes
    <2>3. QED BY <1>1, <1>2, <2>1, <2>2
  <1>7. QED BY <1>1, <1>4, <1>5, <1>6

\* A sector is read to the addresses that follow what is loaded already.
LEMMA PlaceIs ==
  ASSUME reader \in Readers, NEW e, NEW base \in Nat,
         reader.es * PARA + reader.bx = base, reader.bx + SECT_SIZE <= SEGMENT,
         NEW j \in 1..SECT_SIZE
  PROVE  Place(reader, j) = base + j - 1
  <1>1. reader.bx \in Nat /\ reader.es \in Nat /\ j \in Nat /\ SECT_SIZE \in Nat
        /\ SEGMENT \in Nat /\ SEGMENT >= 1 /\ reader.es * PARA \in Nat
    BY Sizes DEF Readers
  <1> DEFINE o == reader.bx + j - 1
  <1>2. o \in Nat /\ o < SEGMENT
    BY <1>1
  <1> HIDE DEF o
  <1>3. o % SEGMENT = o
    BY <1>1, <1>2
  <1>4. Place(reader, j) = reader.es * PARA + o
    BY <1>3 DEF Place, o
  <1>5. QED BY <1>1, <1>4 DEF o

\* The next place is the one after the sector, while there is more to read.
LEMMA NextPosition ==
  ASSUME NEW r \in Readers, NEW c \in Nat, c >= 2, r.bx + SECT_SIZE <= SEGMENT,
         \/ \E q \in Nat : r.bx = q * SECT_SIZE
         \/ r.bx + c * SECT_SIZE <= SEGMENT
  PROVE  LET n == NextPlace(r)
         IN  /\ n.es * PARA + n.bx = r.es * PARA + r.bx + SECT_SIZE
             /\ n.bx + SECT_SIZE <= SEGMENT
             /\ \/ \E q \in Nat : n.bx = q * SECT_SIZE
                \/ n.bx + (c - 1) * SECT_SIZE <= SEGMENT
  <1> DEFINE n == NextPlace(r)
  <1>1. /\ r.bx \in Nat /\ r.es \in Nat /\ r.es * PARA \in Nat
        /\ SECT_SIZE \in Nat /\ SECT_SIZE >= 1 /\ SEGMENT \in Nat
    BY Sizes DEF Readers
  <1>2. (c - 1) * SECT_SIZE = c * SECT_SIZE - SECT_SIZE /\ c * SECT_SIZE \in Nat
        /\ c * SECT_SIZE >= 2 * SECT_SIZE
    BY <1>1
  <1>3. CASE r.bx = OFFSET_LIMIT
    <2>1. n.bx = 0 /\ n.es = r.es + SEGMENT \div PARA
      BY <1>3 DEF NextPlace, Readers
    <2>2. (SEGMENT \div PARA) * PARA = SEGMENT /\ SEGMENT \div PARA \in Nat
      <3>1. SEGMENT \in Nat /\ PARA \in Nat /\ PARA >= 1 /\ SEGMENT % PARA = 0
        BY Sizes, BootAssumption
      <3>2. SEGMENT \div PARA \in Nat /\ (SEGMENT \div PARA) * PARA + (SEGMENT % PARA) = SEGMENT
        BY <3>1, Quotient
      <3>3. (SEGMENT \div PARA) * PARA \in Nat
        BY <3>1, <3>2
      <3> QED  BY <3>1, <3>2, <3>3
    <2> DEFINE sp == SEGMENT \div PARA
    <2> HIDE DEF sp
    <2>3. sp \in Nat /\ sp * PARA = SEGMENT /\ n.es = r.es + sp
      BY <2>1, <2>2 DEF sp
    <2>4. (r.es + sp) * PARA = r.es * PARA + SEGMENT
      <3>1. r.es \in Nat /\ sp \in Nat /\ PARA \in Nat
        BY <1>1, <2>3, Sizes
      <3>2. (r.es + sp) * PARA = r.es * PARA + sp * PARA
        BY <3>1, Sums, Zenon
      <3>3. QED BY <2>3, <3>2, Zenon
    <2>5. r.bx + SECT_SIZE = SEGMENT
      BY <1>1, <1>3 DEF OFFSET_LIMIT
    <2>6. \E q \in Nat : n.bx = q * SECT_SIZE
      <3>1. n.bx = 0 * SECT_SIZE
        BY <1>1, <2>1, Distribute
      <3>2. QED BY <3>1
    <2>7. n.es * PARA + n.bx = r.es * PARA + SEGMENT /\ n.bx + SECT_SIZE <= SEGMENT
      BY <1>1, <2>1, <2>3, <2>4
    <2> DEFINE ep == r.es * PARA
    <2> HIDE DEF ep
    <2>8. ep + SEGMENT = ep + r.bx + SECT_SIZE
      <3>1. ep \in Nat
        BY <1>1 DEF ep
      <3>2. QED BY <1>1, <2>5, <3>1
    <2>9. QED BY <2>6, <2>7, <2>8 DEF ep
  <1>4. CASE r.bx # OFFSET_LIMIT
    <2>1. r.bx + SECT_SIZE < SEGMENT
      BY <1>1, <1>4 DEF OFFSET_LIMIT
    <2>2. n.bx = r.bx + SECT_SIZE /\ n.es = r.es
      <3> DEFINE b == r.bx + SECT_SIZE
      <3>1. b \in Nat /\ b < SEGMENT
        BY <1>1, <2>1
      <3>2. n.bx = b % SEGMENT /\ n.es = r.es
        BY <1>4 DEF NextPlace, Readers
      <3> HIDE DEF b
      <3>3. b % SEGMENT = b
        BY <1>1, <3>1
      <3>4. QED BY <3>2, <3>3 DEF b
    <2>3. ASSUME r.bx + c * SECT_SIZE <= SEGMENT
          PROVE  n.bx + SECT_SIZE <= SEGMENT /\ n.bx + (c - 1) * SECT_SIZE <= SEGMENT
      <3> DEFINE cs == c * SECT_SIZE
                 cs1 == (c - 1) * SECT_SIZE
      <3> HIDE DEF cs, cs1
      <3>1. cs \in Nat /\ cs1 = cs - SECT_SIZE /\ cs >= 2 * SECT_SIZE
        BY <1>2 DEF cs, cs1
      <3>0. r.bx + cs <= SEGMENT
        BY <2>3 DEF cs
      <3>2. n.bx + SECT_SIZE <= SEGMENT /\ n.bx + cs1 <= SEGMENT
        BY <1>1, <2>2, <3>0, <3>1
      <3>3. QED BY <3>2 DEF cs1
    <2>4. ASSUME NEW q \in Nat, r.bx = q * SECT_SIZE
          PROVE  n.bx + SECT_SIZE <= SEGMENT /\ n.bx = (q + 1) * SECT_SIZE /\ q + 1 \in Nat
      BY <1>1, <1>4, <2>2, <2>4, SegmentEnd
    <2>5. n.es * PARA + n.bx = r.es * PARA + r.bx + SECT_SIZE
      BY <1>1, <2>2
    <2> HIDE DEF n
    <2>6. /\ n.bx + SECT_SIZE <= SEGMENT
          /\ \/ \E q \in Nat : n.bx = q * SECT_SIZE
             \/ n.bx + (c - 1) * SECT_SIZE <= SEGMENT
      BY <2>3, <2>4
    <2>7. QED BY <2>5, <2>6 DEF n
  <1>5. QED BY <1>3, <1>4

\* The sectors of program e are where the table says that its bytes go.
LEMMA InOver ==
  ASSUME files \in Seq(Files), NEW e \in 1..Len(files), NEW k \in 1..(e - 1),
         NEW d \in Nat, d < Size(e), NEW j \in 1..SECT_SIZE
  PROVE  files[e].addr + d * SECT_SIZE + j - 1 \in Over(k)
  <1>1. files[e].addr \in Nat /\ Size(e) \in Nat /\ e \in (k + 1)..Len(files)
    BY LenFiles
  <1>2. d * SECT_SIZE \in Nat /\ d * SECT_SIZE + SECT_SIZE <= Size(e) * SECT_SIZE
    <2>1. (d + 1) * SECT_SIZE <= Size(e) * SECT_SIZE
      BY <1>1, Sizes
    <2>2. (d + 1) * SECT_SIZE = d * SECT_SIZE + SECT_SIZE
      BY Sizes
    <2>3. QED BY <2>1, <2>2, Sizes
  <1> DEFINE ds == d * SECT_SIZE
             ss == Size(e) * SECT_SIZE
             a == files[e].addr + ds + j - 1
  <1>3. ss \in Nat
    BY <1>1, Sizes
  <1> HIDE DEF ds, ss
  <1>4. ds \in Nat /\ ds + SECT_SIZE <= ss /\ SECT_SIZE \in Nat
    BY <1>2, Sizes DEF ds, ss
  <1>5. a \in files[e].addr..(files[e].addr + ss - 1)
    BY SMTT(30), <1>1, <1>3, <1>4
  <1> HIDE DEF a
  <1>6. a \in Over(k)
    BY <1>1, <1>5 DEF Over, Size, ss
  <1>7. QED BY <1>6 DEF a, ds

\* What a sector of program e adds to the memory.
LEMMA LoadsSector ==
  ASSUME OrderInv, files \in Seq(Files), NEW st, Layout(st), ReadSector,
         NEW e \in 1..Len(files), Progress(st, e),
         NEW d \in Nat, d = Size(e) - reader.count,
         NEW m \in Nat, m = (d + 1) * SECT_SIZE
  PROVE  /\ \A k \in 1..(e - 1) : Loaded(k, files[k].len)'
         /\ Loaded(e, m)'
  <1> DEFINE base == files[e].addr + d * SECT_SIZE
             n == Address(reader)
  <1>1. /\ reader \in Readers /\ reader.count \in Nat /\ reader.count > 0 /\ reader.di = 3 * e
        /\ UNCHANGED files
    BY DEF OrderInv, Readers, ReadSector, Reading, Progress, build
  <1>2. /\ files[e].len \in Nat /\ files[e].addr \in Nat /\ Size(e) \in Nat
        /\ reader.count <= Size(e) /\ Position(e) /\ n = st[e + 1] - reader.count
        /\ Loaded(e, d * SECT_SIZE) /\ \A k \in 1..(e - 1) : Loaded(k, files[k].len)
    BY <1>1, LenFiles DEF Progress
  <1>3. d \in Nat /\ d < Size(e)
    BY <1>1, <1>2
  <1>4. reader.di # 0
    BY <1>1
  <1>5. d * SECT_SIZE \in Nat /\ base \in Nat /\ (d + 1) * SECT_SIZE = d * SECT_SIZE + SECT_SIZE
    <2>1. d * SECT_SIZE \in Nat /\ (d + 1) * SECT_SIZE = d * SECT_SIZE + SECT_SIZE
      BY Sizes, Distribute
    <2>2. QED BY SMTT(30), <1>2, <2>1
  <1>6. \A j \in 1..SECT_SIZE : Place(reader, j) = base + j - 1
    BY <1>1, <1>2, <1>5, PlaceIs DEF Position
  <1>7. image[n] = copy_file(e, files[e].len)[d + 1] /\ d + 1 \in 1..Size(e)
    <2>1. st[e + 1] = st[e] + Size(e) /\ st[e] \in Nat
      BY DEF Layout, Size
    <2>2. d + 1 \in 1..Size(e)
      BY <1>2, <1>3
    <2>3. n = st[e] + (d + 1) - 1
      BY SMTT(30), <1>1, <1>2, <2>1
    <2>4. image[st[e] + (d + 1) - 1] = copy_file(e, files[e].len)[d + 1]
      BY <2>2 DEF Layout, Size
    <2>5. QED BY <2>2, <2>3, <2>4
  <1> DEFINE Here == {Place(reader, j) : j \in 1..SECT_SIZE}
  <1>8. mem' = [a \in DOMAIN mem \cup Here |->
                  IF \E j \in 1..SECT_SIZE : Place(reader, j) = a
                  THEN image[n][CHOOSE j \in 1..SECT_SIZE : Place(reader, j) = a]
                  ELSE mem[a]]
    BY <1>4 DEF ReadSector
  <1> HIDE DEF base
  <1>9. /\ DOMAIN mem \subseteq DOMAIN mem'
        /\ \A a \in DOMAIN mem : (\A j \in 1..SECT_SIZE : a # base + j - 1) => mem'[a] = mem[a]
    BY <1>6, <1>8
  <1>10. ASSUME NEW j \in 1..SECT_SIZE
         PROVE  base + j - 1 \in DOMAIN mem' /\ mem'[base + j - 1] = image[n][j]
    <2>1. (CHOOSE i \in 1..SECT_SIZE : Place(reader, i) = base + j - 1) = j
      <3>1. \A i \in 1..SECT_SIZE : base + i - 1 = base + j - 1 => i = j
        BY <1>5, Sizes
      <3>2. QED BY <1>6, <3>1
    <2>2. base + j - 1 \in Here /\ Place(reader, j) = base + j - 1
      BY <1>6
    <2>3. QED BY <1>8, <2>1, <2>2
  <1> HIDE DEF Here
  <1>11. ASSUME NEW k \in 1..(e - 1)
         PROVE  Loaded(k, files[k].len)'
    <2>1. SUFFICES ASSUME NEW j \in 1..files[k].len,
                          files[k].addr + j - 1 \notin Over(k)
                   PROVE  /\ files[k].addr + j - 1 \in DOMAIN mem'
                          /\ mem'[files[k].addr + j - 1] = <<k, j>>
      BY <1>1 DEF Loaded, Over
    <2> DEFINE a == files[k].addr + j - 1
    <2>2. k \in 1..Len(files)
      OBVIOUS
    <2>3. files[k].len \in Nat
      BY <2>2, LenFiles
    <2>4. j <= files[k].len
      BY <2>3
    <2>5. a \in DOMAIN mem /\ mem[a] = <<k, j>>
      BY <1>2, <2>1, <2>4 DEF Loaded
    <2>6. \A i \in 1..SECT_SIZE : base + i - 1 \in Over(k)
      BY <1>3, InOver DEF base
    <2>7. \A i \in 1..SECT_SIZE : a # base + i - 1
      BY <2>1, <2>6
    <2> HIDE DEF a
    <2>8. QED BY <1>9, <2>5, <2>7 DEF a
  <1>12. Loaded(e, m)'
    <2>0. m = d * SECT_SIZE + SECT_SIZE
      BY <1>5
    <2>1. SUFFICES ASSUME NEW j \in 1..files[e].len, j <= m,
                          files[e].addr + j - 1 \notin Over(e)
                   PROVE  /\ files[e].addr + j - 1 \in DOMAIN mem'
                          /\ mem'[files[e].addr + j - 1] = <<e, j>>
      BY <1>1 DEF Loaded, Over
    <2> DEFINE a == files[e].addr + j - 1
    <2>2. CASE j <= d * SECT_SIZE
      <3>1. a \in DOMAIN mem /\ mem[a] = <<e, j>>
        BY <1>2, <2>1, <2>2 DEF Loaded
      <3>2. ASSUME NEW i \in 1..SECT_SIZE
            PROVE  a # base + i - 1
        <4> DEFINE ds == d * SECT_SIZE
        <4> HIDE DEF ds
        <4>1. ds \in Nat /\ j <= ds /\ base = files[e].addr + ds
          BY <1>5, <2>2 DEF ds, base
        <4>2. QED BY <1>2, <4>1, Sizes
      <3> HIDE DEF a
      <3>3. QED BY <1>9, <3>1, <3>2 DEF a
    <2>3. CASE ~(j <= d * SECT_SIZE)
      <3> DEFINE i == j - d * SECT_SIZE
      <3>1. /\ i \in 1..SECT_SIZE /\ base + i - 1 = a /\ ((d + 1) - 1) * SECT_SIZE + i = j
            /\ j <= files[e].len
        <4>1. (d + 1) - 1 = d
          BY <1>3
        <4> DEFINE ds == d * SECT_SIZE
        <4> HIDE DEF ds
        <4>2. ds \in Nat /\ ~(j <= ds) /\ base = files[e].addr + ds /\ i = j - ds /\ m = ds + SECT_SIZE
          BY <1>5, <2>0, <2>3 DEF ds, base
        <4> HIDE DEF i
        <4>3. i \in 1..SECT_SIZE /\ base + i - 1 = a /\ ds + i = j /\ j <= files[e].len
          <5>1. j \in Nat /\ j <= ds + SECT_SIZE /\ j <= files[e].len /\ SECT_SIZE \in Nat
            BY <1>2, <2>1, <4>2, Sizes
          <5>2. i \in 1..SECT_SIZE /\ ds + i = j
            BY SMTT(30), <4>2, <5>1
          <5>3. base + i - 1 = a
            <6>1. files[e].addr \in Nat
              BY <1>2
            <6>2. i \in Nat /\ j = ds + i
              BY <5>2, Sizes
            <6> HIDE DEF i
            <6>3. files[e].addr + ds + i - 1 = files[e].addr + (ds + i) - 1
              <7>1. ds \in Nat
                BY <4>2
              <7> QED  BY SMTT(30), <7>1, <6>1, <6>2, Regrouped
            <6>4. QED BY <4>2, <6>2, <6>3
          <5>4. QED BY <5>1, <5>2, <5>3
        <4>4. QED BY <4>1, <4>3 DEF ds
      <3> HIDE DEF i, a
      <3>2. image[n][i] = <<e, j>>
        <4>1. e \in Nat
          OBVIOUS
        <4>2. copy_file(e, files[e].len)[d + 1][i] = <<e, ((d + 1) - 1) * SECT_SIZE + i>>
          BY <1>2, <1>7, <3>1, <4>1, CopiedFile DEF Size
        <4>3. QED BY <1>7, <3>1, <4>2
      <3>3. QED BY <1>10, <3>1, <3>2 DEF a
    <2>4. QED BY <2>2, <2>3
  <1>13. QED BY <1>11, <1>12

LEMMA StaysLoaded ==
  ASSUME UNCHANGED <<files, mem>>, NEW k, NEW n, Loaded(k, n)
  PROVE  Loaded(k, n)'
  BY DEF Loaded, Over

\* The loader's place after a sector of program e.
LEMMA PositionMoves ==
  ASSUME OrderInv, files \in Seq(Files), UNCHANGED files, NEW e \in 1..Len(files),
         Position(e), reader.count >= 2, reader.count <= Size(e),
         reader'.count = reader.count - 1,
         reader'.es = NextPlace(NextSector(reader)).es,
         reader'.bx = NextPlace(NextSector(reader)).bx
  PROVE  Position(e)'
  <1> DEFINE r == NextSector(reader)
             n == NextPlace(r)
             d == Size(e) - reader.count
  <1>1. /\ reader \in Readers /\ reader.count \in Nat
        /\ r \in Readers /\ r.es = reader.es /\ r.bx = reader.bx
    BY NextAddress DEF OrderInv, Readers
  <1>2. /\ files[e].addr \in Nat /\ Size(e) \in Nat /\ Size(e)' = Size(e) /\ d \in Nat
    <2>1. files[e].addr \in Nat /\ Size(e) \in Nat
      BY LenFiles
    <2>2. QED BY <1>1, <2>1 DEF Size
  <1>3. /\ r.es * PARA + r.bx = files[e].addr + d * SECT_SIZE
        /\ r.bx + SECT_SIZE <= SEGMENT
        /\ \/ \E q \in Nat : r.bx = q * SECT_SIZE
           \/ r.bx + reader.count * SECT_SIZE <= SEGMENT
    BY <1>1 DEF Position
  <1> HIDE DEF r
  <1>4. /\ n.es * PARA + n.bx = r.es * PARA + r.bx + SECT_SIZE
        /\ n.bx + SECT_SIZE <= SEGMENT
        /\ \/ \E q \in Nat : n.bx = q * SECT_SIZE
           \/ n.bx + (reader.count - 1) * SECT_SIZE <= SEGMENT
    BY <1>1, <1>3, NextPosition
  <1>5. reader'.es = n.es /\ reader'.bx = n.bx
    BY DEF r
  <1> HIDE DEF n
  <1>6. Size(e)' - reader'.count = d + 1
    BY <1>1, <1>2
  <1> HIDE DEF d
  <1>7. n.es * PARA + n.bx = files[e].addr + (d + 1) * SECT_SIZE
    <2>1. (d + 1) * SECT_SIZE = d * SECT_SIZE + SECT_SIZE /\ d * SECT_SIZE \in Nat
      BY <1>2, Sizes, Distribute
    <2> DEFINE ds == d * SECT_SIZE
               ep == r.es * PARA + r.bx
    <2> HIDE DEF ds, ep
    <2>2. ds \in Nat /\ ep = files[e].addr + ds
      BY <1>3, <2>1 DEF ds, ep
    <2>3. ep + SECT_SIZE = files[e].addr + (ds + SECT_SIZE)
      BY <1>2, <2>2, Sizes
    <2>4. n.es * PARA + n.bx = ep + SECT_SIZE
      BY <1>4 DEF ep
    <2>5. QED BY <2>1, <2>3, <2>4 DEF ds
  <1>8. QED BY <1>4, <1>5, <1>6, <1>7 DEF Position

\* The loader goes on with the program when a sector is read.
LEMMA ReadsOn ==
  ASSUME OrderInv, files \in Seq(Files), NEW st, Layout(st), ReadSector, stage' # "frozen",
         NEW e \in 0..Len(files), Progress(st, e)
  PROVE  Progress(st, e)'
  <1> DEFINE next == NextPlace(NextSector(reader))
  <1>1. /\ reader \in Readers /\ reader.count \in Nat /\ reader.count > 0
        /\ UNCHANGED files /\ reader' = [next EXCEPT !.count = @ - 1, !.tries = 3]
    BY DEF OrderInv, Readers, ReadSector, Reading, build
  <1>2. /\ next \in Readers /\ Address(next) = Address(reader) + 1
        /\ next.count = reader.count /\ next.di = reader.di
    BY <1>1, NextAddress, NextPlaceKeeps
  <1>3. /\ reader'.count = reader.count - 1 /\ reader'.di = reader.di
        /\ reader'.es = next.es /\ reader'.bx = next.bx /\ Address(reader') = Address(reader) + 1
    <2> HIDE DEF next
    <2>1. QED BY <1>1, <1>2 DEF Readers, Address
  <1>4. reader'.di = 3 * e /\ Address(reader') = st[e + 1] - reader'.count
    <2>1. reader.di = 3 * e /\ Address(reader) = st[e + 1] - reader.count
      BY DEF Progress
    <2>2. st[e + 1] \in Nat
      <3>1. st \in [1..(Len(files) + 1) -> Nat]
        BY DEF Layout
      <3>2. e + 1 \in 1..(Len(files) + 1)
        OBVIOUS
      <3>3. QED BY <3>1, <3>2
    <2> HIDE DEF next
    <2>3. QED BY <1>1, <1>3, <2>1, <2>2
  <1> HIDE DEF next
  <1>5. CASE e = 0
    <2>1. reader'.count <= 1
      BY <1>1, <1>3, <1>5 DEF Progress
    <2>2. 1..(e - 1) = {}
      BY <1>5
    <2>3. QED BY <1>4, <1>5, <2>1, <2>2 DEF Progress, Address
  <1>6. CASE e > 0
    <2>1. /\ e \in 1..Len(files) /\ reader.count <= Size(e) /\ Position(e)
      BY <1>1, <1>6 DEF Progress
    <2>2. Size(e) \in Nat /\ Size(e)' = Size(e)
      <3>1. Size(e) \in Nat
        BY <2>1, LenFiles
      <3>2. QED BY <1>1, <3>1 DEF Size
    <2>3. PICK d \in Nat : d = Size(e) - reader.count
      BY <1>1, <2>1, <2>2
    <2>4. PICK m \in Nat : m = (d + 1) * SECT_SIZE
      BY <2>3, Sizes
    <2>5. /\ \A k \in 1..(e - 1) : Loaded(k, files[k].len)'
          /\ Loaded(e, m)'
      BY <2>1, <2>3, <2>4, LoadsSector
    <2>6. Size(e)' - reader'.count = d + 1
      BY <1>1, <1>3, <2>2, <2>3
    <2>7. Loaded(e, (Size(e) - reader.count) * SECT_SIZE)'
      BY <2>4, <2>5, <2>6 DEF Loaded
    <2>8. ASSUME reader'.count > 0
          PROVE  Position(e)'
      <3>1. reader.count >= 2
        BY <1>1, <1>3, <2>8
      <3>2. QED BY <1>1, <1>3, <2>1, <3>1, PositionMoves DEF next
    <2>9. reader'.count <= Size(e)'
      BY <1>1, <1>3, <2>1, <2>2
    <2>10. QED BY <1>4, <1>6, <2>5, <2>7, <2>8, <2>9 DEF Progress, Address
  <1>7. QED BY <1>5, <1>6

\* A program is loaded when its sectors are.
LEMMA AllLoaded ==
  ASSUME files \in Seq(Files), NEW st, NEW e \in 0..Len(files), Progress(st, e), reader.count = 0
  PROVE  \A k \in 1..e : Loaded(k, files[k].len)
  <1> TAKE k \in 1..e
  <1>1. CASE k \in 1..(e - 1)
    BY <1>1 DEF Progress
  <1>2. CASE k = e
    <2>1. e \in 1..Len(files) /\ e > 0
      OBVIOUS
    <2>2. files[e].len \in Nat /\ Size(e) \in Nat /\ Size(e) * SECT_SIZE >= files[e].len
      BY <2>1, LenFiles
    <2>3. Loaded(e, Size(e) * SECT_SIZE)
      <3>1. Size(e) - 0 = Size(e)
        BY <2>2
      <3>2. Loaded(e, (Size(e) - 0) * SECT_SIZE)
        BY <2>1 DEF Progress
      <3>3. QED BY <3>1, <3>2
    <2> DEFINE z == Size(e) * SECT_SIZE
    <2>4. z \in Nat
      BY <2>2, Sizes
    <2> HIDE DEF z
    <2>5. Loaded(e, z) /\ z >= files[e].len
      BY <2>2, <2>3 DEF z
    <2>6. \A j \in 1..files[e].len : j <= z
      BY <2>2, <2>4, <2>5
    <2>7. Loaded(e, files[e].len)
      BY <2>5, <2>6 DEF Loaded
    <2>8. QED BY <1>2, <2>7
  <1>3. k \in 1..(e - 1) \/ k = e
    OBVIOUS
  <1>4. QED BY <1>1, <1>2, <1>3

\* The loader begins with program e at the place that the table says.
LEMMA FirstPosition ==
  ASSUME files \in Seq(Files), UNCHANGED files, NEW e \in 1..Len(files), Regular,
         reader'.count = Size(e), reader'.es = files[e].addr \div PARA,
         reader'.bx = files[e].addr % PARA
  PROVE  Position(e)' /\ Size(e) >= 1
  <1> DEFINE a == files[e].addr
             b == a % PARA
             z == Size(e)
             zs == z * SECT_SIZE
  <1>1. a \in Nat /\ z \in Nat /\ z >= 1 /\ Size(e)' = Size(e)
    <2>1. files[e].len > 0
      BY DEF Regular
    <2>2. a \in Nat /\ z \in Nat /\ z >= 1
      BY <2>1, LenFiles
    <2>3. QED BY <2>2 DEF Size
  <1>2. b = 0 \/ b + zs <= SEGMENT
    BY DEF Regular, Size
  <1> HIDE DEF a, z
  <1>3. b \in Nat /\ (a \div PARA) * PARA + b = a
    BY <1>1, Sizes, Quotient
  <1>4. SECT_SIZE <= SEGMENT
    <2> DEFINE Q == SEGMENT \div SECT_SIZE
    <2>1. Q \in Nat /\ Q * SECT_SIZE = SEGMENT
      BY Sizes, Quotient
    <2> HIDE DEF Q
    <2>2. Q # 0
      BY <2>1, Sizes, Distribute
    <2>3. Q >= 1 => Q * SECT_SIZE >= SECT_SIZE
      BY <2>1, Sizes
    <2>4. QED BY <2>1, <2>2, <2>3
  <1>5. zs \in Nat /\ zs >= SECT_SIZE
    BY <1>1, Sizes
  <1> HIDE DEF b, zs
  <1>6. b + SECT_SIZE <= SEGMENT
    BY <1>2, <1>3, <1>4, <1>5, Sizes
  <1>7. (Size(e)' - reader'.count) * SECT_SIZE = 0
    <2>1. Size(e)' - reader'.count = 0
      BY <1>1 DEF z
    <2>2. QED BY <2>1, Sizes, Distribute
  <1>8. /\ reader'.es * PARA + reader'.bx = files'[e].addr + (Size(e)' - reader'.count) * SECT_SIZE
    <2>1. reader'.es * PARA + reader'.bx = a
      BY <1>3 DEF a, b
    <2>2. files'[e].addr + 0 = a
      BY <1>1 DEF a
    <2>3. QED BY <1>7, <2>1, <2>2
  <1>9. reader'.bx = b /\ reader'.count = z
    BY DEF a, b, z
  <1>10. \/ \E q \in Nat : reader'.bx = q * SECT_SIZE
         \/ reader'.bx + reader'.count * SECT_SIZE <= SEGMENT
    <2>1. CASE b = 0
      <3>1. reader'.bx = 0 * SECT_SIZE
        BY <1>9, <2>1, Sizes, Distribute
      <3>2. QED BY <3>1
    <2>2. CASE b + zs <= SEGMENT
      BY <1>9, <2>2 DEF zs
    <2>3. QED BY <1>2, <2>1, <2>2
  <1>11. reader'.bx + SECT_SIZE <= SEGMENT
    BY <1>6, <1>9
  <1>12. QED BY <1>1, <1>8, <1>10, <1>11 DEF Position, z

\* nextblock goes to the next program, or ends with all of them loaded.
LEMMA NextProgram ==
  ASSUME OrderInv, files \in Seq(Files), Table, Regular, NEW st, Layout(st), nextblock,
         NEW e \in 0..Len(files), Progress(st, e)
  PROVE  /\ stage' = "done" => e = Len(files)
         /\ stage' # "done" => e + 1 \in 0..Len(files) /\ Progress(st, e + 1)'
  <1> DEFINE n == Len(files)
  <1>1. /\ n \in Nat /\ e \in Nat /\ reader \in Readers /\ reader.di = 3 * e
        /\ reader.count = 0 /\ UNCHANGED <<files, mem>>
    BY DEF OrderInv, nextblock, build, Progress
  <1>2. CASE e = n
    <2>1. Word(reader.di + 1) = 0
      <3>1. Len(info) = 3 * n /\ Len(info) < free /\ free \in Nat
        BY DEF Table, Regular, OrderInv
      <3> HIDE DEF n
      <3>2. ~(3 * n + 1 <= Len(info)) /\ 3 * n + 1 <= free
        BY <1>1, <3>1
      <3>3. QED BY <1>1, <1>2, <3>2 DEF Word
    <2>2. QED BY <1>2, <2>1 DEF nextblock
  <1>3. CASE e # n
    <2>1. e + 1 \in 1..n /\ e + 1 \in 0..n
      BY <1>1, <1>3
    <2>2. /\ 3 * (e + 1) = reader.di + 3 /\ 3 * (e + 1) - 1 = (reader.di + 3) - 1
          /\ 3 * (e + 1) - 2 = (reader.di + 3) - 2 /\ reader.di + 1 = (reader.di + 3) - 2
      BY <1>1
    <2>3. /\ Word((reader.di + 3) - 2) = Size(e + 1)
          /\ Word((reader.di + 3) - 1) = files[e + 1].addr \div PARA
          /\ Word(reader.di + 3) = files[e + 1].addr % PARA
      BY <2>1, <2>2, TableRead DEF Size
    <2>4. Size(e + 1) \in Nat /\ Size(e + 1) >= 1
      <3>1. files[e + 1].len > 0
        BY <2>1 DEF Regular
      <3>2. QED BY <2>1, <3>1, LenFiles
    <2>5. Word(reader.di + 1) # 0
      BY <2>2, <2>3, <2>4
    <2>6. /\ stage' # "done"
          /\ reader' = [reader EXCEPT !.count = Word((reader.di + 3) - 2),
                                      !.es = Word((reader.di + 3) - 1),
                                      !.bx = Word(reader.di + 3), !.di = reader.di + 3]
      BY <2>5 DEF nextblock
    <2>7. /\ reader'.di = 3 * (e + 1) /\ reader'.count = Size(e + 1)
          /\ reader'.es = files[e + 1].addr \div PARA
          /\ reader'.bx = files[e + 1].addr % PARA
          /\ Address(reader') = Address(reader)
      BY <1>1, <2>2, <2>3, <2>6 DEF Readers, Address
    <2>8. Position(e + 1)'
      BY <1>1, <2>1, <2>7, FirstPosition
    <2>9. Address(reader') = st[(e + 1) + 1] - reader'.count
      <3>1. st[(e + 1) + 1] = st[e + 1] + Size(e + 1) /\ st[e + 1] \in Nat
        <4>1. st \in [1..(n + 1) -> Nat] /\ e + 1 \in 1..(n + 1)
          BY <1>1, <2>1 DEF Layout
        <4>2. QED BY <2>1, <4>1 DEF Layout, Size
      <3>2. Address(reader) = st[e + 1] - 0
        BY <1>1 DEF Progress
      <3>3. QED BY <2>4, <2>7, <3>1, <3>2
    <2>10. \A k \in 1..e : Loaded(k, files[k].len)'
      <3> TAKE k \in 1..e
      <3>1. PICK l : l = files[k].len
        OBVIOUS
      <3>2. Loaded(k, l)
        BY <1>1, <3>1, AllLoaded
      <3>3. Loaded(k, l)'
        BY <1>1, <3>2, StaysLoaded
      <3>4. QED BY <1>1, <3>1, <3>3
    <2>11. Size(e + 1)' = Size(e + 1) /\ Size(e + 1)' - reader'.count = 0
      <3>1. Size(e + 1)' = Size(e + 1)
        BY <1>1 DEF Size
      <3>2. QED BY <2>4, <2>7, <3>1
    <2>12. Loaded(e + 1, (Size(e + 1) - reader.count) * SECT_SIZE)'
      <3>1. (Size(e + 1)' - reader'.count) * SECT_SIZE = 0
        BY <2>11, Sizes, Distribute
      <3>2. \A j \in 1..files'[e + 1].len : ~(j <= 0)
        OBVIOUS
      <3>3. QED BY <3>1, <3>2 DEF Loaded
    <2>13. (e + 1) - 1 = e /\ e + 1 > 0 /\ e + 1 # 0
      BY <1>1
    <2>14. reader'.count <= Size(e + 1)'
      BY <2>4, <2>7, <2>11
    <2>15. Progress(st, e + 1)'
      BY <2>7, <2>8, <2>9, <2>10, <2>12, <2>13, <2>14 DEF Progress, Address
    <2>16. QED BY <2>1, <2>6, <2>15
  <1>4. QED BY <1>2, <1>3

LEMMA InitLoad ==
  ASSUME Init
  PROVE  LoadInv
  <1>1. reader.di = 0 /\ reader.count = 1 /\ Address(reader) = 2
    <2>1. reader = [di |-> 0, es |-> 0, bx |-> 0, count |-> 1, tries |-> 3,
                    sec |-> 2, head |-> 0, track |-> 0]
      BY DEF Init
    <2>2. (0 * HEADS + 0) * SPT + 2 = 2
      BY Sizes
    <2>3. QED BY <2>1, <2>2 DEF Address
  <1>2. QED BY <1>1 DEF Init, LoadInv, LoadedAsAsked

\* process_args() writes the two sectors of the bootstrap.
LEMMA BootstrapWritten ==
  ASSUME LoadInv, process_args, stage' = "build"
  PROVE  LoadInv'
  <1>1. /\ files = <<>> /\ info = <<>> /\ UNCHANGED <<files, info, reader>>
        /\ reader.di = 0 /\ reader.count = 1 /\ Address(reader) = 2
        /\ image' = copy_file(0, 2 * SECT_SIZE)
    BY DEF LoadInv, process_args, quit, load
  <1>2. /\ copy_file(0, 2 * SECT_SIZE) \in Seq(Sector)
        /\ Len(copy_file(0, 2 * SECT_SIZE)) = 2
    <2>1. 0 \in Nat /\ 2 * SECT_SIZE \in Nat
      BY Sizes
    <2>2. QED BY <2>1, CopiedFile, TwoSectors
  <1>3. \E st : Layout(st)'
    <2> DEFINE st == [k \in 1..(0 + 1) |-> 3]
    <2>1. st \in [1..(0 + 1) -> Nat] /\ st[1] = 3 /\ st[0 + 1] = 3
      OBVIOUS
    <2> HIDE DEF st
    <2>2. Len(files') = 0 /\ 1..0 = {}
      BY <1>1
    <2>3. image' \in Seq(Sector) /\ Len(image') = 2
      BY <1>1, <1>2
    <2>4. PICK s : s = st
      OBVIOUS
    <2>5. Layout(s)'
      BY <2>1, <2>2, <2>3, <2>4 DEF Layout
    <2>6. QED BY <2>5
  <1>4. Table'
    BY <1>1 DEF Table
  <1>5. QED BY <1>1, <1>3, <1>4 DEF LoadInv, LoadedAsAsked, Address

\* process_file() adds a program to the image and to the table.
LEMMA ProgramWritten ==
  ASSUME LoadInv, process_file, stage' = "build"
  PROVE  LoadInv'
  <1>1. files \in Seq(Files) /\ stage = "build" /\ UNCHANGED reader
        /\ reader.di = 0 /\ reader.count = 1 /\ Address(reader) = 2 /\ Table
    BY DEF LoadInv, process_file, quit, load
  <1>2. PICK f \in Files : Adds(f)
    BY DEF process_file, quit, Adds
  <1>3. PICK st : Layout(st)
    BY <1>1 DEF LoadInv
  <1>4. \E st2 : Layout(st2)'
    BY <1>1, <1>2, <1>3, LayoutGrows
  <1>5. Table'
    BY <1>1, <1>2, TableGrows
  <1>6. files' \in Seq(Files)
    BY <1>1, <1>2 DEF Adds
  <1>7. QED BY <1>1, <1>4, <1>5, <1>6 DEF LoadInv, LoadedAsAsked, Address

\* The image and the table stay as BuildImage wrote them.
LEMMA ImageKept ==
  ASSUME UNCHANGED build
  PROVE  /\ files' = files /\ Table' = Table /\ Regular' = Regular
         /\ \A st : Layout(st)' = Layout(st)
  BY DEF build, Table, Regular, Layout

LEMMA NextLoad ==
  ASSUME OrderInv, LoadInv, [Next]_vars
  PROVE  LoadInv'
  <1>1. CASE process_args
    <2>1. CASE stage' = "build"
      BY <1>1, <2>1, BootstrapWritten
    <2>2. CASE stage' # "build"
      BY <1>1, <2>2 DEF process_args, quit, LoadInv, LoadedAsAsked
    <2>3. QED BY <2>1, <2>2
  <1>2. CASE process_file
    <2>1. CASE stage' = "build"
      BY <1>2, <2>1, ProgramWritten
    <2>2. CASE stage' # "build"
      <3>1. files' \in Seq(Files) /\ stage' = "quit"
        BY <1>2, <2>2 DEF process_file, quit, LoadInv
      <3>2. QED BY <3>1 DEF LoadInv, LoadedAsAsked
    <2>3. QED BY <2>1, <2>2
  <1>3. CASE main
    <2>1. CASE stage' = "quit"
      BY <1>3, <2>1 DEF main, LoadInv, LoadedAsAsked
    <2>2. CASE stage' # "quit"
      <3>1. /\ stage = "build" /\ stage' = "load" /\ UNCHANGED <<build, reader, mem>>
            /\ reader.di = 0 /\ reader.count = 1 /\ Address(reader) = 2 /\ Table
        BY <1>3, <2>2 DEF main, quit, build, load, LoadInv
      <3>2. PICK st : Layout(st)
        BY <3>1 DEF LoadInv
      <3>3. Progress(st, 0)
        <4>1. st[0 + 1] = 3 /\ 1..(0 - 1) = {}
          BY <3>2 DEF Layout
        <4>2. QED BY <3>1, <4>1 DEF Progress
      <3>4. Progress(st, 0)'
        BY <3>1, <3>3 DEF Progress, Address
      <3>5. 0 \in 0..Len(files')
        BY <3>1, ImageKept DEF LoadInv
      <3>6. files' \in Seq(Files) /\ Table' /\ Layout(st)'
        BY <3>1, <3>2, ImageKept DEF LoadInv
      <3>7. QED BY <3>1, <3>4, <3>5, <3>6 DEF LoadInv, LoadedAsAsked
    <2>3. QED BY <2>1, <2>2
  <1>4. CASE OffTheDisk \/ (ReadFails /\ stage' = "frozen") \/ (ReadSector /\ stage' = "frozen")
    <2>1. stage' = "frozen" /\ UNCHANGED files
      BY <1>4 DEF OffTheDisk, ReadFails, ReadSector, build
    <2>2. QED BY <2>1 DEF LoadInv, LoadedAsAsked
  <1>5. CASE ReadFails /\ stage' # "frozen"
    <2>1. /\ stage = "load" /\ stage' = "load" /\ UNCHANGED <<build, mem>>
          /\ reader' = [reader EXCEPT !.tries = @ - 1] /\ reader \in Readers
      BY <1>5 DEF ReadFails, Reading, OrderInv
    <2>2. PICK st : Layout(st) /\ (Regular => \E e \in 0..Len(files) : Progress(st, e))
      BY <2>1 DEF LoadInv
    <2>3. ASSUME NEW e \in 0..Len(files), Progress(st, e)
          PROVE  Progress(st, e)'
      <3>1. /\ reader'.di = reader.di /\ reader'.count = reader.count /\ reader'.es = reader.es
            /\ reader'.bx = reader.bx /\ Address(reader') = Address(reader)
        BY <2>1 DEF Readers, Address
      <3>2. UNCHANGED <<files, mem>>
        BY <2>1 DEF build
      <3>3. \A k, n : Loaded(k, n)' = Loaded(k, n)
        BY <3>2 DEF Loaded, Over
      <3>4. Position(e)' = Position(e)
        BY <3>1, <3>2 DEF Position, Size
      <3>5. QED BY <2>3, <3>1, <3>2, <3>3, <3>4 DEF Progress, Size, Address
    <2>4. files' \in Seq(Files) /\ Table' /\ Layout(st)' /\ Regular' = Regular /\ files' = files
      BY <2>1, <2>2, ImageKept DEF LoadInv
    <2>5. QED BY <2>1, <2>2, <2>3, <2>4 DEF LoadInv, LoadedAsAsked
  <1>6. CASE ReadSector /\ stage' # "frozen"
    <2>1. stage = "load" /\ stage' = "load" /\ UNCHANGED build
      BY <1>6 DEF ReadSector, Reading
    <2>2. PICK st : Layout(st) /\ (Regular => \E e \in 0..Len(files) : Progress(st, e))
      BY <2>1 DEF LoadInv
    <2>3. ASSUME NEW e \in 0..Len(files), Progress(st, e)
          PROVE  Progress(st, e)'
      BY <1>6, <2>2, <2>3, ReadsOn DEF LoadInv
    <2>4. files' \in Seq(Files) /\ Table' /\ Layout(st)' /\ Regular' = Regular /\ files' = files
      BY <2>1, <2>2, ImageKept DEF LoadInv
    <2>5. QED BY <2>1, <2>2, <2>3, <2>4 DEF LoadInv, LoadedAsAsked
  <1>7. CASE nextblock
    <2>1. /\ stage = "load" /\ stage' \in {"load", "done"} /\ UNCHANGED <<build, mem>>
          /\ reader.count = 0 /\ Table /\ files \in Seq(Files)
      BY <1>7 DEF nextblock, LoadInv
    <2>2. PICK st : Layout(st) /\ (Regular => \E e \in 0..Len(files) : Progress(st, e))
      BY <2>1 DEF LoadInv
    <2>3. files' \in Seq(Files) /\ Table' /\ Layout(st)' /\ Regular' = Regular /\ files' = files
      BY <2>1, <2>2, ImageKept
    <2>4. CASE stage' = "load"
      <3>1. ASSUME Regular
            PROVE  \E e \in 0..Len(files) : Progress(st, e)'
        <4>1. PICK e \in 0..Len(files) : Progress(st, e)
          BY <2>2, <3>1
        <4>2. e + 1 \in 0..Len(files) /\ Progress(st, e + 1)'
          BY <1>7, <2>1, <2>2, <2>4, <3>1, <4>1, NextProgram
        <4>3. PICK f \in 0..Len(files) : f = e + 1
          BY <4>2
        <4>4. QED BY <4>2, <4>3 DEF Progress
      <3>2. QED BY <2>3, <2>4, <3>1 DEF LoadInv, LoadedAsAsked
    <2>5. CASE stage' = "done"
      <3>1. ASSUME Regular
            PROVE  \A k \in 1..Len(files) : Loaded(k, files[k].len)
        <4>1. PICK e \in 0..Len(files) : Progress(st, e)
          BY <2>2, <3>1
        <4>2. e = Len(files)
          BY <1>7, <2>1, <2>2, <2>5, <3>1, <4>1, NextProgram
        <4>3. QED BY <2>1, <4>1, <4>2, AllLoaded
      <3>2. UNCHANGED <<files, mem>> /\ \A k : Over(k)' = Over(k)
        BY <2>1 DEF build, Over
      <3>3. \A k \in 1..Len(files) : files[k].len \in Nat
        BY <2>1, LenFiles
      <3>4. LoadedAsAsked'
        <4>1. DOMAIN files = 1..Len(files)
          BY <2>1
        <4>2. SUFFICES ASSUME Regular, NEW i \in 1..Len(files), NEW j \in 1..files[i].len,
                              files[i].addr + j - 1 \notin Over(i)
                       PROVE  /\ files[i].addr + j - 1 \in DOMAIN mem
                              /\ mem[files[i].addr + j - 1] = <<i, j>>
          BY <2>3, <3>2, <4>1 DEF LoadedAsAsked
        <4>3. j <= files[i].len
          BY <3>3
        <4>4. QED BY <3>1, <4>2, <4>3 DEF Loaded
      <3>5. QED BY <2>3, <2>5, <3>4 DEF LoadInv
    <2>6. QED BY <2>1, <2>4, <2>5
  <1>8. CASE UNCHANGED vars
    <2>1. UNCHANGED <<stage, files, info, image, reader, mem, free>>
      BY <1>8 DEF vars, build, load
    <2>2. /\ files' = files /\ Table' = Table /\ Regular' = Regular
          /\ \A st : Layout(st)' = Layout(st)
      BY <2>1, ImageKept DEF build
    <2>3. \A k, n : Loaded(k, n)' = Loaded(k, n)
      BY <2>1 DEF Loaded, Over
    <2>4. \A st, e : Progress(st, e)' = Progress(st, e)
      BY <2>1, <2>3 DEF Progress, Position, Size, Address
    <2>5. LoadedAsAsked' = LoadedAsAsked
      BY <2>1, <2>2 DEF LoadedAsAsked, Over
    <2>6. QED BY <2>1, <2>2, <2>4, <2>5 DEF LoadInv, Address
  <1>9. QED BY <1>1, <1>2, <1>3, <1>4, <1>5, <1>6, <1>7, <1>8 DEF Next

\* When the loader is done, every program of a regular image is in memory at
\* the address that was asked for, but for what a later program overwrote,
\* whatever the sizes, the segments it crosses and the reads that failed.
THEOREM ProgramsLoaded == Spec => []LoadedAsAsked
  <1>1. LoadInv => LoadedAsAsked
    BY DEF LoadInv
  <1>2. Init => OrderInv /\ LoadInv
    BY InitOrder, InitLoad
  <1>3. OrderInv /\ LoadInv /\ [Next]_vars => (OrderInv /\ LoadInv)'
    BY NextOrder, NextLoad
  <1>4. QED BY <1>1, <1>2, <1>3, PTL DEF Spec
=============================================================================
