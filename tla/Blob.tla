-------------------------------- MODULE Blob --------------------------------
(***************************************************************************)
(* misc/util/mkblob.c, which packs ELF files into a blob that begins with  *)
(* an index, and misc/util/listblob.c, which reads the index.  mkblob      *)
(* looks at every file first, to lay out the index, and copies the files   *)
(* after that: a file may have changed, or be gone, in between.            *)
(***************************************************************************)
EXTENDS Integers, Sequences, SequencesExt

CONSTANTS
  HEADER,          \* bytes of the header (8)
  ENTRY,           \* bytes of an entry of the index (32)
  ROUND,           \* files are padded to a multiple of this (8)
  NAMELEN,         \* room for a name and its NUL (20)
  ElfFiles         \* arguments of mkblob: name, len (of the path), kind, size,
                   \* and later: its size when it is copied, or GONE

GONE == -1

ASSUME BlobAssumption ==
  /\ {HEADER, ENTRY, ROUND, NAMELEN} \subseteq Nat \ {0}
  /\ HEADER % ROUND = 0 /\ ENTRY % ROUND = 0
  /\ \A f \in ElfFiles : f.size \in Nat /\ f.later \in Nat \cup {GONE}

Filler(size) == IF size % ROUND = 0 THEN 0 ELSE ROUND - (size % ROUND)

\* Faulty: a file that needs no padding is given some in the layout.
Layout_Always(files) ==
  LET step(l, f) ==
        IF f.len >= NAMELEN \/ f.kind # "elf" THEN l
        ELSE [progs  |-> Append(l.progs, [file |-> f, name |-> f.name,
                                          offset |-> l.offset, size |-> f.size]),
              offset |-> l.offset + f.size + ROUND - (f.size % ROUND)]
  IN  FoldLeft(step, [progs |-> <<>>, offset |-> 0], files)

\* process() of mkblob on all the arguments: a file whose path is too long, that
\* cannot be read or that is no ELF file is skipped, the others are put behind
\* one another.
Layout(files) ==
  LET process(l, f) ==
        IF f.len >= NAMELEN \/ f.kind # "elf" THEN l
        ELSE [progs  |-> Append(l.progs, [file |-> f, name |-> f.name,
                                          offset |-> l.offset, size |-> f.size]),
              offset |-> l.offset + f.size + Filler(f.size)]
  IN  FoldLeft(process, [progs |-> <<>>, offset |-> 0], files)

\* copy(): what the file holds now, then the filler of the size it had; nothing
\* if the file cannot be opened.
copy(prog) ==
  IF prog.file.later = GONE THEN <<>>
  ELSE [j \in 1..prog.file.later |-> <<prog.name, j>>]
         \o [j \in 1..Filler(prog.size) |-> <<"NUL", 0>>]

\* main() of mkblob: the offsets are made relative to the blob.  Without files
\* there is no blob.
mkblob(files) ==
  LET progs == Layout(files).progs
      hlen  == HEADER + Len(progs) * ENTRY
  IN  [magic |-> IF progs = <<>> THEN "none" ELSE "BLB",
       index |-> [i \in DOMAIN progs |->
                    [name   |-> progs[i].name,
                     offset |-> progs[i].offset + hlen,
                     size   |-> progs[i].size]],
       bytes |-> [j \in 1..hlen |-> <<"index", j>>]
                   \o FlattenSeq([i \in DOMAIN progs |-> copy(progs[i])])]

\* listblob: the entries, if there are a header with the right magic number and
\* a whole index.
listblob(blob) ==
  IF \/ blob.magic # "BLB" \/ Len(blob.index) < 1
     \/ Len(blob.bytes) < HEADER + Len(blob.index) * ENTRY
  THEN <<>> ELSE blob.index
=============================================================================
