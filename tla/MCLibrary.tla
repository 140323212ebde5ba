----------------------------- MODULE MCLibrary -----------------------------
(***************************************************************************)
(* Library with integers of 9 bits, 16 bytes of memory and strings of up   *)
(* to five characters, separators among them; blobs of up to three files,  *)
(* which shrink, grow or vanish while they are packed.                     *)
(***************************************************************************)
EXTENDS Library

MCStrings == SeqOf({97, SEP}, 5)

Elf(name, len, kind, size, later) ==
  [name |-> name, len |-> len, kind |-> kind, size |-> size, later |-> later]
MCElfFiles ==
  {Elf("a", 1, "elf", 3, l) : l \in {GONE, 2, 3, 4}} \cup
  {Elf("b", 1, "elf", 4, l) : l \in {GONE, 4, 5}} \cup
  {Elf("c", 2, "elf", 5, 5), Elf("long", 3, "elf", 4, 4), Elf("d", 1, "other", 4, 4)}
=============================================================================
