------------------------------ MODULE Library ------------------------------
(***************************************************************************)
(* lib/*.c: the functions that move blocks and strings in memory, that     *)
(* turn numbers into strings and back, and that split the arguments of a   *)
(* program, as functions of their arguments; and Blob's tools, of theirs,  *)
(* since they are checked in the same way.  A string is the sequence of    *)
(* its characters, without the NUL, except in memory.  Numbers are W bits  *)
(* wide (32 in the code), with the wrap-around that the machine has.       *)
(***************************************************************************)
EXTENDS Blob, FiniteSets

CONSTANTS
  W,               \* bits of an integer
  MemSize,         \* bytes of memory
  Widths,          \* field widths given to sprint()
  Strings,         \* argument strings
  MaxArgc,         \* bound: arguments expected, and size of argv[]
  MaxFiles         \* bound: arguments of mkblob

NUL == 0
MinusSign == 45
Zero == 48
CapA == 65
SEP == 13          \* ARG_SEP, '\r'
WORD == 4

ASSUME LibraryAssumption ==
  /\ W \in Nat /\ W >= 5 /\ MemSize \in Nat /\ MaxArgc \in Nat /\ MaxFiles \in Nat
  /\ Widths \subseteq Nat

VARIABLES call, result

vars == <<call, result>>
-----------------------------------------------------------------------------
(* Blocks of memory: m is a function from addresses to bytes *)

\* The bytes of n units are copied one unit of the given size after the other,
\* from the lowest address up or from the highest down.
CopyUp(m, dst, src, n, size) ==
  LET done[i \in 0..n] ==
        IF i = 0 THEN m
        ELSE [a \in DOMAIN m |->
                IF a \in (dst + (i - 1) * size)..(dst + i * size - 1)
                THEN done[i - 1][a - dst + src] ELSE done[i - 1][a]]
  IN  done[n]
CopyDown(m, dst, src, n, size) ==
  LET done[i \in 0..n] ==
        IF i = 0 THEN m
        ELSE [a \in DOMAIN m |->
                IF a \in (dst + (n - i) * size)..(dst + (n - i + 1) * size - 1)
                THEN done[i - 1][a - dst + src] ELSE done[i - 1][a]]
  IN  done[n]

\* Faulty: the blocks are compared the wrong way round.
Move_Swapped(m, dst, src, n, size) ==
  IF dst < src /\ dst + n * size > src
  THEN CopyDown(m, dst, src, n, size) ELSE CopyUp(m, dst, src, n, size)

\* The direction that an overlap calls for.
Move(m, dst, src, n, size) ==
  IF src < dst /\ src + n * size > dst
  THEN CopyDown(m, dst, src, n, size) ELSE CopyUp(m, dst, src, n, size)

memcpy(m, dst, src, len) == CopyUp(m, dst, src, len, 1)
memmove(m, dst, src, len) == Move(m, dst, src, len, 1)
blkmov(m, dst, src, len) ==
  IF \E x \in {dst, src, len} : x % WORD # 0 THEN memmove(m, dst, src, len)
  ELSE Move(m, dst, src, len \div WORD, WORD)

memset(m, buf, len, value) ==
  [a \in DOMAIN m |-> IF a \in buf..(buf + len - 1) THEN value % 256 ELSE m[a]]
memclr(m, buf, len) == memset(m, buf, len, 0)

\* Strings in memory.
strlen(m, str) ==
  CHOOSE n \in 0..MemSize :
    m[str + n] = NUL /\ \A i \in 0..(n - 1) : m[str + i] # NUL
strcpy(m, dst, src) == CopyUp(m, dst, src, strlen(m, src) + 1, 1)
strcat(m, dst, src) == strcpy(m, dst + strlen(m, dst), src)

-----------------------------------------------------------------------------
(* Numbers: W bits, signed or not *)

Signed(n) == LET u == n % 2^W IN IF u < 2^(W - 1) THEN u ELSE u - 2^W
\* The quotient of C, which rounds to 0.
Quotient(n, d) == IF n < 0 THEN -((-n) \div d) ELSE n \div d

Digits(n) ==      \* of n >= 0, in decimal
  LET d[k \in 0..n] ==
        (IF k \div 10 = 0 THEN <<>> ELSE d[k \div 10]) \o <<Zero + (k % 10)>>
  IN  d[n]

\* cvtdec0(): of all values only the smallest is still negative here; its
\* digits come from two constants, 214748364 and 8 for 32 bits.
cvtdec0(value) ==
  IF Quotient(value, 10) < 0
  THEN Digits(2^(W - 1) \div 10) \o <<Zero + (2^(W - 1) % 10)>>
  ELSE Digits(value)

\* Faulty: the constants of cvtdec0() belong to a number that is one less.
cvtdec_Max(value) ==
  IF value = -(2^(W - 1)) THEN <<MinusSign>> \o cvtdec0(2^(W - 1) - 1)
  ELSE IF value < 0 THEN <<MinusSign>> \o cvtdec0(Signed(-value))
  ELSE cvtdec0(value)

cvtdec(value) ==
  IF value < 0 THEN <<MinusSign>> \o cvtdec0(Signed(-value)) ELSE cvtdec0(value)

cvtuns0(value) ==
  (IF value \div 10 # 0 THEN cvtdec0(Signed(value \div 10)) ELSE <<>>)
    \o <<Zero + (value % 10)>>
cvtuns(value) == cvtuns0(value)

hexdigits == [i \in 1..16 |-> IF i <= 10 THEN Zero + i - 1 ELSE CapA + i - 11]

\* The n digits of the given number of bits each, without leading zeros but
\* for the last: cvthex() and cvtoct() shift them out at the top.
Groups(value, n, bits) ==
  LET digit(i) == (value \div 2^(bits * (n - i))) % 2^bits
      first == CHOOSE i \in 1..n :
                 /\ digit(i) # 0 \/ i = n
                 /\ \A j \in 1..(i - 1) : digit(j) = 0
  IN  [i \in 1..(n - first + 1) |-> hexdigits[1 + digit(first + i - 1)]]
cvthex(value) == Groups(value, (W + 3) \div 4, 4)
cvtoct(value) == Groups(value, (W + 2) \div 3, 3)

\* strchr(): the place of a character, 0 for NULL.
strchr(str, ch) ==
  IF ch \notin Range(str) THEN 0
  ELSE CHOOSE i \in DOMAIN str : str[i] = ch /\ \A j \in 1..(i - 1) : str[j] # ch

UCASE(c) == IF c \in 97..122 THEN c - 32 ELSE c

\* str2int(): digits up to the first character that is not one of the base,
\* after a sign and a prefix 0x or 0b.
Unprefixed(s, letter) ==
  IF Len(s) >= 2 /\ s[1] = Zero /\ UCASE(s[2]) = letter
  THEN SubSeq(s, 3, Len(s)) ELSE s
str2int(str, base) ==
  LET minus == str # <<>> /\ str[1] = MinusSign
      abs   == IF minus THEN Tail(str) ELSE str
      s     == CASE base = 16 -> Unprefixed(abs, CapA + 23)
                 [] base = 2  -> Unprefixed(abs, CapA + 1)
                 [] OTHER     -> abs
      bchar == IF base = 16 THEN CapA + 5 ELSE Zero + base - 1
      Valid(c) == strchr(hexdigits, UCASE(c)) # 0 /\ UCASE(c) <= bchar
      num[i \in 0..Len(s)] ==
        IF i = 0 THEN 0
        ELSE IF \E j \in 1..i : ~Valid(s[j]) THEN num[i - 1]
        ELSE Signed(num[i - 1] * base + strchr(hexdigits, UCASE(s[i])) - 1)
  IN  Signed(IF minus THEN -num[Len(s)] ELSE num[Len(s)])

-----------------------------------------------------------------------------
(* Formatted strings *)

pad(extra, padchar) == [i \in 1..extra |-> padchar]

padstr(str, width, left, padchar) ==
  LET extra == IF width > Len(str) THEN width - Len(str) ELSE 0
  IN  IF left THEN str \o pad(extra, padchar) ELSE pad(extra, padchar) \o str

\* sprint(), of a format given by its fields: a code, its options and its
\* argument.  Plain text is a string without a width.
Converted(f) ==
  CASE f.code = "c" -> <<f.arg % 256>>
    [] f.code = "d" -> cvtdec(Signed(f.arg))
    [] f.code = "s" -> f.arg
    [] f.code = "x" -> cvthex(f.arg % 2^W)
    [] f.code = "o" -> cvtoct(f.arg % 2^W)
    [] f.code = "u" -> cvtuns(f.arg % 2^W)
sprint(fields) ==
  FlattenSeq([i \in DOMAIN fields |->
    padstr(Converted(fields[i]), fields[i].width, fields[i].left, fields[i].pad)])

-----------------------------------------------------------------------------
(* The arguments of a program *)

\* The place of the separator or NUL that ends the argument starting at i.
EndFrom(str, i) ==
  CHOOSE j \in i..(Len(str) + 1) :
    /\ j = Len(str) + 1 \/ str[j] = SEP
    /\ \A k \in i..(j - 1) : str[k] # SEP


\* parseArgs(): the strings that argv[] points to when the separators have been
\* replaced, and the count that is returned: one more than there are pointers
\* when the string has more arguments than expected.
parseArgs(argc, str, n) ==
  LET start[i \in 1..argc] ==
        IF i = 1 THEN 1
        ELSE IF EndFrom(str, start[i - 1]) > Len(str) THEN Len(str) + 1
        ELSE EndFrom(str, start[i - 1]) + 1
      end(i) == EndFrom(str, start[i])
      \* the arguments after which the string is at its end
      last == {i \in 1..argc : end(i) >= Len(str)}
      used == IF last = {} THEN argc
              ELSE CHOOSE i \in last : \A j \in last : i <= j
  IN  IF argc >= n THEN [count |-> -1, argv |-> <<>>]
      ELSE [count |-> IF last = {} THEN argc + 1 ELSE used,
            argv |-> [i \in 1..used |-> SubSeq(str, start[i], end(i) - 1)]]

-----------------------------------------------------------------------------
(* Calls: every function on all its arguments within the bounds *)

Memory == [a \in 0..(MemSize - 1) |-> 100 + a]     \* bytes that all differ

\* Two strings at the addresses 0 and Half, in memory that is not clear.
Half == MemSize \div 4
Texts(s, t) ==
  [a \in 0..(MemSize - 1) |->
     IF a \in 0..(Len(s) - 1) THEN s[a + 1]
     ELSE IF a \in Half..(Half + Len(t) - 1) THEN t[a - Half + 1]
     ELSE IF a \in {Len(s), Half + Len(t)} THEN NUL ELSE 100 + a]

BlockCalls ==
  {[fn |-> f, dst |-> d, src |-> s, len |-> n] :
     f \in {"memmove", "blkmov", "memcpy"}, d, s \in 0..(MemSize - 1), n \in 0..MemSize}
NumberCalls ==
  {[fn |-> "sprint", code |-> c, arg |-> v, width |-> w, left |-> l, pad |-> p] :
     c \in {"d", "u", "x", "o"}, v \in -(2^(W - 1))..(2^(W - 1) - 1), w \in Widths,
     l \in BOOLEAN, p \in {32, Zero}}
JoinCalls ==
  {[fn |-> "join", s |-> x, t |-> y] :
     x, y \in {str \in Strings : Len(str) < Half}}
ArgCalls ==
  {[fn |-> "parseArgs", argc |-> k, str |-> s, n |-> MaxArgc] :
     k \in 1..MaxArgc, s \in Strings}
BlobCalls == {[fn |-> "mkblob", files |-> f] : f \in SeqOf(ElfFiles, MaxFiles)}

Possible(c) ==
  c.fn \in {"memmove", "blkmov", "memcpy"} =>
    /\ c.dst + c.len <= MemSize /\ c.src + c.len <= MemSize
    /\ c.fn = "memcpy" => c.dst + c.len <= c.src \/ c.src + c.len <= c.dst

Init ==
  /\ call \in {c \in BlockCalls : Possible(c)} \cup NumberCalls
               \cup JoinCalls \cup ArgCalls \cup BlobCalls
  /\ result = <<>>

\* The one step: the call returns.  A "join" clears a buffer, copies a string
\* to it and appends another.
Joined(m) ==
  LET buf == 2 * Half
  IN  strcat(strcpy(memclr(m, buf, 2 * Half), buf, 0), buf, Half)
Return ==
  /\ result = <<>>
  /\ result' =
       CASE call.fn = "memmove"   -> memmove(Memory, call.dst, call.src, call.len)
         [] call.fn = "blkmov"    -> blkmov(Memory, call.dst, call.src, call.len)
         [] call.fn = "memcpy"    -> memcpy(Memory, call.dst, call.src, call.len)
         [] call.fn = "join"      -> Joined(Texts(call.s, call.t))
         [] call.fn = "sprint"    -> sprint(<<call>>)
         [] call.fn = "mkblob"    -> mkblob(call.files)
         [] call.fn = "parseArgs" -> parseArgs(call.argc, call.str, call.n)
  /\ UNCHANGED call

Spec == Init /\ [][Return]_vars

-----------------------------------------------------------------------------
(* Correctness *)

Returned == result # <<>>

\* "Deals with overlapping buffers": whatever the overlap and the alignment,
\* the destination gets the bytes that the source had, and no other byte
\* changes; two strings joined are one after the other, with one NUL.
BlocksMoved ==
  /\ Returned /\ call.fn \in {"memmove", "blkmov", "memcpy"} =>
       \A a \in DOMAIN Memory :
         result[a] = IF a \in call.dst..(call.dst + call.len - 1)
                     THEN Memory[a - call.dst + call.src] ELSE Memory[a]
  /\ Returned /\ call.fn = "join" =>
       \A a \in DOMAIN result :
         LET text == call.s \o call.t \o <<NUL>>
             i    == a - 2 * Half + 1
         IN  result[a] = IF a < 2 * Half THEN Texts(call.s, call.t)[a]
                         ELSE IF i \in DOMAIN text THEN text[i] ELSE NUL

\* What sprint() makes of a number has the width asked for and is read back by
\* str2int() as that number, once the padding is off: the smallest one, for which cvtdec0() has its own
\* constants, and those that wrap around included.
Base(code) == CASE code \in {"d", "u"} -> 10 [] code = "x" -> 16 [] code = "o" -> 8
NumbersRoundTrip ==
  Returned /\ call.fn = "sprint" =>
    LET len == Len(Converted(call))
        at  == IF call.left THEN 1 ELSE Len(result) - len + 1
    IN  /\ Len(result) = IF call.width > len THEN call.width ELSE len
        /\ str2int(SubSeq(result, at, at + len - 1), Base(call.code)) = call.arg

\* The arguments of the string, in order and without separators, and their
\* number: all of them if there are not more than expected, else the first ones
\* (and then the number returned, one too many, is not the one promised).
\* A separator at the end starts no further argument.
Fields(s) ==       \* reference: cut at every separator
  LET cuts == {0, Len(s) + 1} \cup {i \in DOMAIN s : s[i] = SEP}
      c    == SetToSortSeq(cuts, <)
      all  == [i \in 1..(Len(c) - 1) |-> SubSeq(s, c[i] + 1, c[i + 1] - 1)]
  IN  IF Len(all) > 1 /\ Last(all) = <<>> THEN Front(all) ELSE all

\* The index of a blob lists the files that were accepted, in order, and where
\* it says that one begins, at a multiple of ROUND, are its bytes, as long as
\* neither that file nor one before it changed its size while mkblob ran.
BlobIndexed ==
  Returned /\ call.fn = "mkblob" =>
    LET elf   == SelectSeq(call.files, LAMBDA f : f.kind = "elf" /\ f.len < NAMELEN)
        index == listblob(result)
    IN  /\ [i \in DOMAIN index |-> index[i].name] = [i \in DOMAIN elf |-> elf[i].name]
        /\ \A i \in DOMAIN elf :
             /\ index[i].offset % ROUND = 0
             /\ (\A k \in 1..i : elf[k].later = elf[k].size) =>
                  \A j \in 1..elf[i].size :
                    /\ index[i].offset + j \in DOMAIN result.bytes
                    /\ result.bytes[index[i].offset + j] = <<elf[i].name, j>>
=============================================================================
