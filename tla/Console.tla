------------------------------ MODULE Console ------------------------------
(***************************************************************************)
(* kernel/cio.c: the console.  Output goes to a text screen with a         *)
(* scrolling region, input comes from the keyboard through a circular      *)
(* buffer.  The kernel runs with interrupts off, so a routine is done      *)
(* before the next keyboard interrupt; routines that print several         *)
(* characters do it one cio_putchar() or cio_putchar_at() per step.        *)
(*                                                                         *)
(* Characters are their codes; the video attributes are left out.          *)
(***************************************************************************)
EXTENDS Integers, Sequences, SequencesExt

CONSTANTS
  MAX_X, MAX_Y,    \* SCREEN_MAX_X, SCREEN_MAX_Y
  C_BUFSIZE,       \* size of the input buffer
  Texts,           \* arguments of cio_puts() and cio_write()
  Items,           \* arguments of cio_printf(): sequences of fields
  Regions,         \* arguments of cio_setscroll()
  Keys,            \* scan codes of ordinary keys
  ReadLens,        \* lengths passed to read() on the console, not 0
  Workloads,       \* sets of the routines that are called together
  MaxOps,          \* bound: routines called
  MaxKeys          \* bound: keys pressed

Blank == 32
NL == 10
CR == 13
EOT == 4
UNDEF == 255       \* '\377' in the table of scan codes
BMASK5 == 32       \* "& BMASK5" is "% BMASK5"
BMASK8 == 256

ASSUME ConsoleAssumption ==
  /\ MAX_X \in Nat /\ MAX_Y \in Nat
  /\ C_BUFSIZE \in Nat /\ C_BUFSIZE >= 2
  /\ ReadLens \subseteq Nat \ {0}
  /\ \A r \in Regions : {r[1], r[2], r[3], r[4]} \subseteq Nat
  /\ MaxOps \in Nat /\ MaxKeys \in Nat

Screen == (0..MAX_X) \X (0..MAX_Y)

VARIABLES
  video,       \* scroll_min_x.., curr_x, curr_y, cells, dup_to_sio, echo
  out,         \* the rest of a string being printed, and where
  kbd,         \* input_buffer, next_char, next_space, shift, ctrl_mask
  reader,      \* the call of cio_gets() in progress
  calls, ops, pressed,
  kept, taken  \* history: the characters of the keys pressed, as far as a
               \* queue of the size of the buffer has room for them, and
               \* those taken out of the buffer

input == <<kbd, reader, pressed, kept, taken>>
vars == <<video, out, input, calls, ops>>
-----------------------------------------------------------------------------
(* The screen: operators on the record video *)

ScrollRegion(v) == (v.min_x..v.max_x) \X (v.min_y..v.max_y)

\* setcursor(): where the hardware cursor is put.
setcursor(v) == <<v.x, IF v.y > v.max_y THEN v.max_y ELSE v.y>>

\* What sprint( buf, "\\x%02x", ch ) makes of a character.
hexdigit(d) == IF d < 10 THEN 48 + d ELSE 65 + d - 10
Escape(c) == <<92, 120, hexdigit(c \div 16), hexdigit(c % 16)>>
ISPRINT(c) == (c >= 32 /\ c < 127) \/ c = NL \/ c = 9

\* putchar_at(): off the screen nothing is written; in the scrolling region
\* the serial line gets the character too, if that was asked for.
putchar_at(v, x, y, c) ==
  IF <<x, y>> \notin Screen THEN v
  ELSE [v EXCEPT !.cells[<<x, y>>] = c,
                 !.echo = IF v.dup /\ <<x, y>> \in ScrollRegion(v)
                          THEN @ \o (IF ISPRINT(c) THEN <<c>> ELSE Escape(c)) ELSE @]

\* What a newline does: blanks up to the limit, with dup_to_sio switched off
\* meanwhile, so that the newline is not duplicated either.
Erased(v, x, y, limit) ==
  [v EXCEPT !.cells = [p \in Screen |-> IF p[2] = y /\ p[1] \in x..limit
                                        THEN Blank ELSE @[p]]]

\* bound() of lib/bound.c.
bound(min, value, max) ==
  IF value < min THEN min ELSE IF value > max THEN max ELSE value

cio_setscroll(v, r) ==
  LET x0 == bound(0, r[1], MAX_X)
      y0 == bound(0, r[2], MAX_Y)
  IN  [v EXCEPT !.min_x = x0, !.min_y = y0,
                !.max_x = bound(x0, r[3], MAX_X),
                !.max_y = bound(y0, r[4], MAX_Y),
                !.x = x0, !.y = y0]

\* Faulty: the upper bound is forgotten.
cio_moveto_Unbounded(v, x, y) == [v EXCEPT !.x = x + v.min_x, !.y = y + v.min_y]

cio_moveto(v, x, y) ==
  [v EXCEPT !.x = bound(v.min_x, x + v.min_x, v.max_x),
            !.y = bound(v.min_y, y + v.min_y, v.max_y)]

\* The newline of cio_putchar_at() does not cross a side of the region.
cio_putchar_at(v, x, y, c) ==
  IF c # NL THEN putchar_at(v, x, y, c)
  ELSE Erased(v, x, y, IF x > v.max_x THEN MAX_X
                       ELSE IF x >= v.min_x THEN v.max_x ELSE v.min_x - 1)

cio_clearscroll(v) ==
  [v EXCEPT !.cells = [p \in Screen |-> IF p \in ScrollRegion(v)
                                        THEN Blank ELSE @[p]]]

cio_clearscreen(v) == [v EXCEPT !.cells = [p \in Screen |-> Blank]]

\* Faulty: the line that has moved up last is not replaced by blanks.
cio_scroll_Short(v, lines) ==
  [v EXCEPT !.cells = [p \in Screen |->
     IF p \notin ScrollRegion(v) \/ p[2] + lines > v.max_y THEN @[p]
     ELSE @[<<p[1], p[2] + lines>>]]]

cio_scroll(v, lines) ==
  IF lines > v.max_y - v.min_y
  THEN [cio_clearscroll(v) EXCEPT !.x = v.min_x, !.y = v.min_y]
  ELSE [v EXCEPT !.cells = [p \in Screen |->
          IF p \notin ScrollRegion(v) THEN @[p]
          ELSE IF p[2] + lines <= v.max_y THEN @[<<p[1], p[2] + lines>>]
          ELSE Blank]]

\* cio_putchar(): the scrolling that an earlier character left to do first.
Settled(v) ==
  IF v.y > v.max_y
  THEN [cio_scroll(v, v.y - v.max_y) EXCEPT !.y = v.max_y] ELSE v
Advanced(v) ==
  IF v.x + 1 > v.max_x THEN [v EXCEPT !.x = v.min_x, !.y = @ + 1]
  ELSE [v EXCEPT !.x = @ + 1]
cio_putchar(v, c) ==
  LET s == Settled(v)
  IN  CASE c = NL -> [Erased(s, s.x, s.y, s.max_x) EXCEPT
                        !.x = s.min_x, !.y = @ + 1]
        [] c = CR -> [s EXCEPT !.x = s.min_x]
        [] OTHER  -> Advanced(putchar_at(s, s.x, s.y, c))

-----------------------------------------------------------------------------
(* The routines that print *)

\* mypad(), mypadstr(): a field is a string, a width, the side that it is
\* adjusted to and a character to fill it with.
mypadstr(f) ==
  LET extra == IF f.width > Len(f.str) THEN f.width - Len(f.str) ELSE 0
      fill  == [i \in 1..extra |-> f.pad]
  IN  IF f.left THEN f.str \o fill ELSE fill \o f.str

\* do_printf() of a format of which the fields, the plain text among them,
\* are given (module Library has the conversions and the format codes).
do_printf(fields) == FlattenSeq([i \in DOMAIN fields |-> mypadstr(fields[i])])

\* What is printed are characters.
ASSUME TextsAssumption ==
  Texts \subseteq Seq(Nat) /\ \A i \in Items : do_printf(i) \in Seq(Nat)

NoOutput == [at |-> FALSE, fmt |-> FALSE, x |-> 0, y |-> 0, str |-> <<>>]

\* Nothing is going on in the kernel.
Idle == out.str = <<>> /\ reader.size <= 1

\* A routine is called.
Called(name) ==
  /\ name \in calls
  /\ Idle
  /\ ops < MaxOps
  /\ ops' = ops + 1
  /\ UNCHANGED calls

cio_puts ==
  /\ Called("puts")
  /\ \E s \in Texts : out' = [NoOutput EXCEPT !.str = s]
  /\ UNCHANGED <<video, input>>

cio_printf ==
  /\ Called("printf")
  /\ \E i \in Items : out' = [NoOutput EXCEPT !.str = do_printf(i)]
  /\ UNCHANGED <<video, input>>

\* cio_puts_at(), and cio_printf_at() where a newline starts a new line.
PrintAt(name, strs) ==
  /\ Called(name)
  /\ \E s \in strs, p \in Screen :
       out' = [at |-> TRUE, fmt |-> name = "printf_at",
               x |-> p[1], y |-> p[2], str |-> s]
  /\ UNCHANGED <<video, input>>
cio_puts_at == PrintAt("puts_at", Texts)
cio_printf_at == PrintAt("printf_at", {do_printf(i) : i \in Items})

\* The next character of a string ...
PutNext ==
  /\ out.str # <<>> /\ ~out.at
  /\ video' = cio_putchar(video, Head(out.str))
  /\ out' = [out EXCEPT !.str = Tail(@)]
  /\ UNCHANGED <<input, calls, ops>>

\* ... and of one printed at a position: cio_puts_at() ends at the right edge
\* of the screen, do_printf() goes on.
PutNextAt ==
  LET c == Head(out.str)
  IN  /\ out.str # <<>> /\ out.at
      /\ IF out.x > MAX_X /\ ~out.fmt
         THEN out' = NoOutput /\ UNCHANGED <<video, input>>
         ELSE /\ video' = cio_putchar_at(video, out.x, out.y, c)
              /\ out' = [out EXCEPT
                   !.str = Tail(@),
                   !.x = IF out.fmt /\ c \in {NL, CR} THEN video.min_x ELSE @ + 1,
                   !.y = IF out.fmt /\ c = NL THEN @ + 1 ELSE @]
      /\ UNCHANGED <<input, calls, ops>>

\* The routines that print nothing.
SetScroll == /\ Called("setscroll")
             /\ \E r \in Regions : video' = cio_setscroll(video, r)
             /\ UNCHANGED <<out, input>>
MoveTo == /\ Called("moveto")
          /\ \E p \in Screen : video' = cio_moveto(video, p[1], p[2])
          /\ UNCHANGED <<out, input>>
Scroll == /\ Called("scroll")
          /\ \E n \in 0..(MAX_Y + 1) : video' = cio_scroll(video, n)
          /\ UNCHANGED <<out, input>>
Clear == /\ Called("clear")
         /\ video' \in {cio_clearscroll(video), cio_clearscreen(video)}
         /\ UNCHANGED <<out, input>>
cio_opt_set == Called("opt") /\ video' = [video EXCEPT !.dup = TRUE] /\ UNCHANGED <<out, input>>
cio_opt_clear == Called("opt") /\ video' = [video EXCEPT !.dup = FALSE] /\ UNCHANGED <<out, input>>

-----------------------------------------------------------------------------
(* The keyboard *)

increment(pointer) == (pointer + 1) % C_BUFSIZE

\* A part of the table of scan codes: unshifted and shifted characters.
scan_code == [d     |-> [unshifted |-> 100, shifted |-> 68],
              enter |-> [unshifted |-> NL, shifted |-> NL],
              f1    |-> [unshifted |-> UNDEF, shifted |-> UNDEF]]

ASSUME KeysAssumption == Keys \subseteq DOMAIN scan_code

Modifiers == {"SHIFT_DN", "SHIFT_UP", "CTRL_DN", "CTRL_UP"}

\* Faulty: a full buffer is not noticed.
Stored_Over(k, c) ==
  [k EXCEPT !.buf[k.next_space] = c, !.next_space = increment(@)]

\* The character is stored if there is room: one place always stays empty.
Stored(k, c) ==
  IF increment(k.next_space) = k.next_char THEN k
  ELSE [k EXCEPT !.buf[k.next_space] = c, !.next_space = increment(@)]

\* The character a key stands for.  An undefined scan code has one too: the
\* unsigned 255 of the table is compared with '\377', which is -1.
Character(k, code) == scan_code[code][k.shift] % k.ctrl_mask

\* input_scan_code(): the state of the modifiers, or a character.
input_scan_code(code) ==
  CASE code = "SHIFT_DN" -> [kbd EXCEPT !.shift = "shifted"]
    [] code = "SHIFT_UP" -> [kbd EXCEPT !.shift = "unshifted"]
    [] code = "CTRL_DN"  -> [kbd EXCEPT !.ctrl_mask = BMASK5]
    [] code = "CTRL_UP"  -> [kbd EXCEPT !.ctrl_mask = BMASK8]
    [] OTHER -> Stored(kbd, Character(kbd, code))

\* cio_input_queue()
cio_input_queue(k) ==
  LET n == k.next_space - k.next_char
  IN  IF n < 0 THEN n + C_BUFSIZE ELSE n

\* The comment in input_scan_code(): "Ignore undefined scan codes".
Undefined(k, code) == scan_code[code][k.shift] = UNDEF

\* A key is pressed and its code read; the history keeps the characters that
\* a queue of C_BUFSIZE - 1 places has room for.
Press(code) ==
  /\ pressed < MaxKeys
  /\ pressed' = pressed + 1
  /\ kbd' = input_scan_code(code)
  /\ kept' = IF /\ code \notin Modifiers /\ ~Undefined(kbd, code)
                /\ Len(kept) - Len(taken) < C_BUFSIZE - 1
             THEN Append(kept, Character(kbd, code)) ELSE kept
  /\ UNCHANGED <<video, out, reader, calls, ops, taken>>

\* keyboard_isr(): interrupts are on whenever the kernel is not busy.
keyboard_isr ==
  /\ "read" \in calls
  /\ Idle
  /\ \E code \in Keys \cup Modifiers : Press(code)

\* sys_read() from the console: 0 if there is nothing, else cio_gets(), whose
\* loop runs while the size left is more than 1.
sys_read ==
  /\ Called("read")
  /\ cio_input_queue(kbd) >= 1
  /\ \E n \in ReadLens :
       reader' = [len |-> n, size |-> n, got |-> <<>>, eot |-> FALSE]
  /\ UNCHANGED <<video, out, kbd, pressed, kept, taken>>

\* cio_getchar() with the buffer empty and interrupts off: the kernel waits for
\* a key itself.
Poll ==
  /\ reader.size > 1
  /\ cio_input_queue(kbd) = 0
  /\ \E code \in Keys \cup Modifiers : Press(code)

\* Faulty: a newline does not end the line.
Received_Lines(r, c) ==
  IF c = EOT THEN [r EXCEPT !.size = 0, !.eot = TRUE]
  ELSE [r EXCEPT !.got = Append(@, c), !.size = @ - 1]

\* cio_gets() gets a character from cio_getchar().
Received(r, c) ==
  IF c = EOT THEN [r EXCEPT !.size = 0, !.eot = TRUE]
  ELSE [r EXCEPT !.got = Append(@, c),
                 !.size = IF c = NL THEN 0 ELSE @ - 1]

\* cio_getchar() takes a character from the buffer and prints it.
cio_getchar ==
  LET c == kbd.buf[kbd.next_char]
  IN  /\ reader.size > 1
      /\ kbd.next_char # kbd.next_space
      /\ kbd' = [kbd EXCEPT !.next_char = increment(@)]
      /\ video' = IF c = EOT THEN video ELSE cio_putchar(video, c)
      /\ reader' = Received(reader, c)
      /\ taken' = Append(taken, c)
      /\ UNCHANGED <<out, calls, ops, pressed, kept>>

-----------------------------------------------------------------------------
\* cio_init(): the whole screen scrolls, and it is blank (the message that it
\* prints is left out).
Init ==
  /\ video = [min_x |-> 0, min_y |-> 0, max_x |-> MAX_X, max_y |-> MAX_Y,
              x |-> 0, y |-> 0, cells |-> [p \in Screen |-> Blank],
              dup |-> FALSE, echo |-> <<>>]
  /\ out = NoOutput
  /\ kbd = [buf |-> [i \in 0..(C_BUFSIZE - 1) |-> 0], next_char |-> 0,
            next_space |-> 0, shift |-> "unshifted", ctrl_mask |-> BMASK8]
  /\ reader = [len |-> 0, size |-> 0, got |-> <<>>, eot |-> FALSE]
  /\ calls \in Workloads
  /\ ops = 0 /\ pressed = 0 /\ kept = <<>> /\ taken = <<>>

Next ==
  \/ cio_puts \/ cio_printf \/ cio_puts_at \/ cio_printf_at
  \/ PutNext \/ PutNextAt
  \/ SetScroll \/ MoveTo \/ Scroll \/ Clear \/ cio_opt_set \/ cio_opt_clear
  \/ keyboard_isr \/ sys_read \/ Poll \/ cio_getchar

Spec == Init /\ [][Next]_vars

-----------------------------------------------------------------------------
(* Correctness *)

\* The cursor that the hardware shows is in the scrolling region, which is on
\* the screen, and output is at most one line below it: cio_setscroll(),
\* cio_moveto(), delayed scrolling and wrapped lines agree on the bounds.
CursorInRegion ==
  /\ ScrollRegion(video) \subseteq Screen
  /\ setcursor(video) \in ScrollRegion(video)
  /\ video.y \in video.min_y..(video.max_y + 1)

\* What cio.h promises of the output, but for two points that ConsoleSpec leaves
\* open, because cio.c does not do what cio.h says:
\* text appended to a page of lines that scrolls, a rest of the screen that it
\* does not touch, and a copy of it on the serial line.
ScreenRegion == [left |-> video.min_x, top |-> video.min_y,
                 right |-> video.max_x, bottom |-> video.max_y]
Column == video.x - video.min_x + 1
Row == video.y - video.min_y + 1
Output == INSTANCE ConsoleSpec WITH
  screen <- video.cells, region <- ScreenRegion, col <- Column, row <- Row,
  dup <- video.dup, echo <- video.echo
ImplementsConsoleSpec == Output!Spec

\* The circular buffer is a queue of C_BUFSIZE - 1 places: readers get the
\* characters in the order typed, and one is lost only when it is full.  This
\* holds if AllDefined, and not if there is a key without a character: the comment
\* says that it is ignored, but the code stores a character for it.
AllDefined == \A code \in Keys, s \in {"unshifted", "shifted"} : scan_code[code][s] # UNDEF
Pending == [i \in 1..cio_input_queue(kbd) |->
              kbd.buf[(kbd.next_char + i - 1) % C_BUFSIZE]]
KeysInOrder == taken \o Pending = kept

\* A line that cio_gets() has returned fits in the caller's buffer with its
\* NUL, and is a whole line: ended by its only newline or by an EOT, unless the
\* buffer is full.
LinesWhole ==
  LET r == reader
      n == Len(r.got)
  IN  r.size <= 1 /\ r.len > 0 =>
        /\ n < r.len
        /\ \A i \in 1..(n - 1) : r.got[i] # NL
        /\ n = r.len - 1 \/ r.eot \/ r.got[n] = NL
=============================================================================
