----------------------------- MODULE BootImage -----------------------------
(***************************************************************************)
(* util/BuildImage.c, which puts a bootstrap and programs into a disk      *)
(* image with a table of where to load them, and the loader of boot/boot.S *)
(* that reads the table and the programs when the machine starts.  The     *)
(* table is written backwards from the end of the bootstrap's second       *)
(* sector, into words that are 0; reads from the disk may fail.            *)
(*                                                                         *)
(* Sizes are parameters, with the values of the code in the comments.      *)
(***************************************************************************)
EXTENDS Integers, Sequences

CONSTANTS
  SECT_SIZE,       \* bytes of a sector (512)
  PARA,            \* bytes of a paragraph, the unit of segments (16)
  SEGMENT,         \* bytes that an offset reaches (65536)
  TOP,             \* the last usable address (0x9ffff)
  Frees,           \* how many zero words the bootstrap may end with
  N_INFO,          \* words of the array info (256)
  Files,           \* programs: [len, addr, form], form "number" or "seg:off"
  MaxFiles,        \* bound: programs on the command line
  SPT, HEADS,      \* the disk: sectors per track and heads
  TRACKS,          \* tracks that the loader reads (80)
  MaxFaults        \* bound: failed reads

ASSUME BootAssumption ==
  /\ {SECT_SIZE, PARA, SEGMENT, SPT, HEADS, TRACKS} \subseteq Nat \ {0}
  /\ {TOP, N_INFO, MaxFiles, MaxFaults} \cup Frees \subseteq Nat
  /\ SEGMENT % SECT_SIZE = 0 /\ SEGMENT % PARA = 0
  /\ \A f \in Files : f.len \in Nat /\ f.addr \in Nat

CODE == 7          \* some word of the bootstrap's code, not 0
PAD == <<0, 0>>    \* a NUL byte; byte j of program i is <<i, j>>

VARIABLES
  stage,       \* args, build, load, done, quit (BuildImage), frozen (boot.S)
  free,        \* zero words at the end of the bootstrap's second sector
  files,       \* the programs given, in order
  image,       \* the sectors written: sequences of bytes
  info,        \* the used end of the array info
  reader,      \* the loader: di, es, bx, count, tries, sec, head, track
  mem,         \* the bytes loaded
  nread,       \* history: the image's sectors read, in order
  faults

build == <<free, files, image, info>>
load == <<reader, mem, nread, faults>>
vars == <<stage, build, load>>

-----------------------------------------------------------------------------
(* BuildImage *)

Sectors(len) == (len + SECT_SIZE - 1) \div SECT_SIZE

\* copy_file(): the sectors of a file, the last one padded with NULs.
copy_file(i, len) ==
  [k \in 1..Sectors(len) |->
     [j \in 1..SECT_SIZE |->
        LET at == (k - 1) * SECT_SIZE + j IN IF at <= len THEN <<i, at>> ELSE PAD]]

\* quit(): the output file is removed.
quit ==
  /\ stage' = "quit"
  /\ image' = <<>>
  /\ UNCHANGED <<info, load>>

\* process_args(): a missing option or an odd number of arguments end it.
process_args ==
  /\ stage = "args"
  /\ \/ stage' = "build" /\ UNCHANGED <<info, load>>
        /\ image' = copy_file(0, 2 * SECT_SIZE)
     \/ quit
  /\ UNCHANGED <<free, files>>

\* An address in the form nnnn:nnnn is never valid: the conversion of its
\* first part ends at the colon, not at a NUL.
Valid(f) == f.form = "number" /\ f.addr <= TOP
Fits(f) == f.addr + Sectors(f.len) * SECT_SIZE <= TOP

\* process_file(): the program is copied, then its address is checked and
\* stored with its size, in front of the words that are there already.
process_file ==
  /\ stage = "build"
  /\ Len(files) < MaxFiles
  /\ \E f \in Files :
       /\ files' = Append(files, f)
       /\ IF Valid(f) /\ Fits(f) /\ N_INFO - Len(info) >= 3
          THEN /\ image' = image \o copy_file(Len(files) + 1, f.len)
               /\ info' = <<f.addr % PARA, f.addr \div PARA, Sectors(f.len)>> \o info
               /\ UNCHANGED <<stage, load>>
          ELSE quit
  /\ UNCHANGED free

\* The rest of main(): the table goes to the end of the bootstrap if there are
\* only zeros there.  Then the machine is started from the image.
main ==
  /\ stage = "build"
  /\ files # <<>>
  /\ IF Len(info) <= free
     THEN /\ stage' = "load"
          /\ UNCHANGED <<image, info, load>>
     ELSE quit
  /\ UNCHANGED <<free, files>>

-----------------------------------------------------------------------------
(* The loader *)

\* The words of the bootstrap's second sector, counted from its end.
Word(i) ==
  IF i <= Len(info) THEN info[Len(info) - i + 1] ELSE IF i <= free THEN 0 ELSE CODE

OFFSET_LIMIT == SEGMENT - SECT_SIZE

\* The sector that the disk is asked for, in the order of the image.
Address(r) == (r.track * HEADS + r.head) * SPT + r.sec

\* readprog is about to read; di 0 is the second half of the bootstrap itself,
\* which is the first thing read.
Reading == stage = "load" /\ reader.count > 0

\* A read fails; after three the loader gives up.
ReadFails ==
  /\ Reading
  /\ faults < MaxFaults
  /\ faults' = faults + 1
  /\ IF reader.tries > 1
     THEN reader' = [reader EXCEPT !.tries = @ - 1] /\ UNCHANGED stage
     ELSE stage' = "frozen" /\ UNCHANGED reader
  /\ UNCHANGED <<build, mem, nread>>

\* Faulty: max_sec is the last sector, not one more.
NextSector_Early(r) ==
  IF r.sec + 1 < SPT THEN [r EXCEPT !.sec = @ + 1]
  ELSE IF r.head + 1 < HEADS THEN [r EXCEPT !.sec = 1, !.head = @ + 1]
  ELSE [r EXCEPT !.sec = 1, !.head = 0, !.track = @ + 1]

\* readcont2: the next sector, head and track.
NextSector(r) ==
  IF r.sec + 1 # SPT + 1 THEN [r EXCEPT !.sec = @ + 1]
  ELSE IF r.head + 1 # HEADS THEN [r EXCEPT !.sec = 1, !.head = @ + 1]
  ELSE [r EXCEPT !.sec = 1, !.head = 0, !.track = @ + 1]

\* Faulty: the segment is not advanced.
NextPlace_Same(r) ==
  IF r.bx # OFFSET_LIMIT THEN [r EXCEPT !.bx = (@ + SECT_SIZE) % SEGMENT]
  ELSE [r EXCEPT !.bx = 0]

\* readcont: the offset of the next sector, in the next segment at its end.
NextPlace(r) ==
  IF r.bx # OFFSET_LIMIT THEN [r EXCEPT !.bx = (@ + SECT_SIZE) % SEGMENT]
  ELSE [r EXCEPT !.bx = 0, !.es = @ + SEGMENT \div PARA]

\* Where byte j of the sector goes, offsets wrapping around in the segment.
Place(r, j) == r.es * PARA + ((r.bx + j - 1) % SEGMENT)

ReadSector ==
  LET n    == Address(reader)
      next == NextPlace(NextSector(reader))
  IN  /\ Reading
      /\ n <= Len(image)
      /\ nread' = Append(nread, n)
      /\ mem' = IF reader.di = 0 THEN mem
                ELSE [a \in DOMAIN mem \cup {Place(reader, j) : j \in 1..SECT_SIZE} |->
                        IF \E j \in 1..SECT_SIZE : Place(reader, j) = a
                        THEN image[n][CHOOSE j \in 1..SECT_SIZE : Place(reader, j) = a]
                        ELSE mem[a]]
      /\ IF next.track = TRACKS
         THEN stage' = "frozen" /\ UNCHANGED reader
         ELSE /\ reader' = [next EXCEPT !.count = @ - 1, !.tries = 3]
              /\ UNCHANGED stage
      /\ UNCHANGED <<build, faults>>

\* The sectors of a program that the image does not have are not on the disk.
OffTheDisk ==
  /\ Reading
  /\ Address(reader) > Len(image)
  /\ stage' = "frozen"
  /\ UNCHANGED <<build, load>>

\* nextblock: the next entry of the table, until a size is 0.
nextblock ==
  LET di == reader.di + 3
  IN  /\ stage = "load" /\ reader.count = 0
      /\ IF Word(reader.di + 1) = 0
         THEN stage' = "done" /\ UNCHANGED reader
         ELSE /\ reader' = [reader EXCEPT !.count = Word(di - 2), !.es = Word(di - 1),
                                          !.bx = Word(di), !.di = di]
              /\ UNCHANGED stage
      /\ UNCHANGED <<build, mem, nread, faults>>

-----------------------------------------------------------------------------
Init ==
  /\ stage = "args"
  /\ free \in Frees
  /\ files = <<>> /\ image = <<>> /\ info = <<>>
  /\ reader = [di |-> 0, es |-> 0, bx |-> 0, count |-> 1, tries |-> 3,
               sec |-> 2, head |-> 0, track |-> 0]
  /\ mem = <<>> /\ nread = <<>> /\ faults = 0

Next ==
  \/ process_args \/ process_file \/ main
  \/ ReadFails \/ ReadSector \/ OffTheDisk \/ nextblock

Spec == Init /\ [][Next]_vars

-----------------------------------------------------------------------------
(* Correctness *)

\* The loader reads the image from its second sector on, every sector once and
\* in order, over the ends of tracks and cylinders and through failed reads:
\* neither sec, head and track nor the retries lose or repeat one.
SectorsInOrder == \A i \in DOMAIN nread : nread[i] = i + 1

\* What is loaded and when that is as it should be: the entries are told apart
\* by sizes that are not 0, the table leaves a word for the end of it, and a
\* program that crosses a segment starts at a paragraph.
Regular ==
  /\ Len(info) < free
  /\ \A i \in DOMAIN files :
       /\ files[i].len > 0
       /\ \/ files[i].addr % PARA = 0
          \/ (files[i].addr % PARA) + Sectors(files[i].len) * SECT_SIZE <= SEGMENT
\* The addresses that a later program overwrites: BuildImage does not mind.
Over(i) ==
  UNION {files[k].addr..(files[k].addr + Sectors(files[k].len) * SECT_SIZE - 1) :
           k \in (i + 1)..Len(files)}

\* When the loader jumps to the kernel, every program is in memory at the
\* address that the command line of BuildImage gave, whole and in order,
\* whatever segments it crosses: the table that one writes backwards is the
\* one that the other reads.
LoadedAsAsked ==
  stage = "done" /\ Regular =>
    \A i \in DOMAIN files : \A j \in 1..files[i].len :
      LET a == files[i].addr + j - 1
      IN  a \notin Over(i) => a \in DOMAIN mem /\ mem[a] = <<i, j>>
=============================================================================
