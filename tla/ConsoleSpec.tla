---------------------------- MODULE ConsoleSpec ----------------------------
(***************************************************************************)
(* What include/cio.h promises of the console's output: a region of the    *)
(* screen is a page of lines that text is appended to at a cursor, and     *)
(* such text never touches the rest.  "If a newline is output, the         *)
(* reminder of that line is cleared.  Output extending past the end of the *)
(* line is wrapped.  If the cursor is moved below the scrolling region's   *)
(* bottom edge, scrolling is delayed until the next output is produced."   *)
(* Two points are left open, on which cio.c differs from cio.h: whether    *)
(* clearing the region moves the cursor and whether newlines are echoed.   *)
(***************************************************************************)
EXTENDS Integers, Sequences

CONSTANTS Blank, NL, CR

VARIABLES
  screen,      \* a character at each <<x, y>>
  region,      \* the scrolling region: left, top, right, bottom
  col, row,    \* the cursor in it; row Height + 1: scrolling is delayed
  dup, echo    \* the option CIO_OPT_DUP, and what the serial line was given

vars == <<screen, region, col, row, dup, echo>>

Height == region.bottom - region.top + 1
Width == region.right - region.left + 1
Region == (region.left..region.right) \X (region.top..region.bottom)

\* The page shown in the region, and the screen that shows another one.
page == [i \in 1..Height |-> [j \in 1..Width |->
           screen[<<region.left + j - 1, region.top + i - 1>>]]]
Showing(pg) ==
  [p \in DOMAIN screen |->
     IF p \in Region THEN pg[p[2] - region.top + 1][p[1] - region.left + 1]
     ELSE screen[p]]

BlankLine == [i \in 1..Width |-> Blank]
BlankPage == [i \in 1..Height |-> BlankLine]
Scrolled(n) ==
  [i \in 1..Height |-> IF i + n <= Height THEN page[i + n] ELSE BlankLine]

\* The page and the line that the next output goes to.
Page == IF row > Height THEN Scrolled(row - Height) ELSE page
Line == IF row > Height THEN Height ELSE row

\* How a character looks on the serial line: \xNN if it cannot be printed.
Printable(c) == c \in 32..126 \cup {NL, 9}
Hex(d) == IF d < 10 THEN 48 + d ELSE 55 + d
Echoed(c) ==
  IF Printable(c) THEN <<c>> ELSE <<92, 120, Hex(c \div 16), Hex(c % 16)>>

\* Some character is printed: the one that then is where the cursor was.
Character ==
  \E c \in {screen'[<<region.left + col - 1, region.top + Line - 1>>]} :
    /\ c \notin {NL, CR}
    /\ screen' = Showing([Page EXCEPT ![Line][col] = c])
    /\ col' = IF col = Width THEN 1 ELSE col + 1
    /\ row' = IF col = Width THEN Line + 1 ELSE Line
    /\ echo' = IF dup THEN echo \o Echoed(c) ELSE echo
    /\ UNCHANGED <<region, dup>>

Newline ==
  /\ screen' = Showing([Page EXCEPT ![Line] =
                          [j \in 1..Width |-> IF j < col THEN @[j] ELSE Blank]])
  /\ col' = 1
  /\ row' = Line + 1
  /\ echo' \in {echo, IF dup THEN Append(echo, NL) ELSE echo}
  /\ UNCHANGED <<region, dup>>

CarriageReturn ==
  /\ screen' = Showing(Page) /\ col' = 1 /\ row' = Line
  /\ UNCHANGED <<region, dup, echo>>

MoveTo ==
  /\ col' \in 1..Width
  /\ row' \in 1..Height
  /\ UNCHANGED <<screen, region, dup, echo>>

\* Scrolling everything away also moves the cursor home.
Scroll ==
  \E n \in 0..Height :
    /\ screen' = Showing(Scrolled(n))
    /\ IF n < Height THEN UNCHANGED <<col, row>> ELSE col' = 1 /\ row' = 1
    /\ UNCHANGED <<region, dup, echo>>

\* Output at a position, a character or the blanks of a newline, changes one
\* line, in the region or outside it but not both; only what it writes in the
\* region is echoed.
WriteAt ==
  LET changed == {p \in DOMAIN screen : screen'[p] # screen[p]}
  IN  /\ \A p, q \in changed : p[2] = q[2]
      /\ changed \subseteq Region \/ changed \cap Region = {}
      /\ \/ echo' = echo
         \/ dup /\ \E p \in Region : echo' = echo \o Echoed(screen'[p])
      /\ UNCHANGED <<region, col, row, dup>>

SetScroll ==
  col' = 1 /\ row' = 1 /\ UNCHANGED <<screen, dup, echo>>

ClearScroll ==
  /\ screen' = Showing(BlankPage)
  /\ <<col', row'>> \in {<<col, row>>, <<1, 1>>}
  /\ UNCHANGED <<region, dup, echo>>

ClearScreen ==
  /\ screen' = [p \in DOMAIN screen |-> Blank]
  /\ UNCHANGED <<region, col, row, dup, echo>>

SetOption == UNCHANGED <<screen, region, col, row, echo>>

Init == col = 1 /\ row = 1 /\ echo = <<>>

Next ==
  \/ Character \/ Newline \/ CarriageReturn \/ MoveTo \/ Scroll \/ WriteAt
  \/ SetScroll \/ ClearScroll \/ ClearScreen \/ SetOption

Spec == Init /\ [][Next]_vars
=============================================================================
