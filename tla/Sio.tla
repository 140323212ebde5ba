-------------------------------- MODULE Sio --------------------------------
(***************************************************************************)
(* kernel/sio.c: the serial line.  sio_isr() moves characters between the  *)
(* UART and two buffers of BUF_SIZE characters, sio_read() and sio_write() *)
(* move them between the buffers and user processes, and the console       *)
(* duplicates its output with sio_writec().  Each of them is one step: the *)
(* kernel runs with interrupts off, and one iteration of the loop in       *)
(* sio_isr() handles one event of the UART.                                *)
(*                                                                         *)
(* A pointer is an index into its buffer; BUF_SIZE is just behind it.  An  *)
(* input character is its number in the input (the mapping of CR to LF     *)
(* keeps it).                                                              *)
(***************************************************************************)
EXTENDS Integers, Sequences

CONSTANTS
  BUF_SIZE,
  Messages,    \* what processes pass to write(), one character or more
  ReadLens,    \* lengths they pass to read(), not 0
  MaxIn,       \* bound: characters that arrive
  MaxOut       \* bound: characters that writers put in

LF == "LF"
CR == "CR"

ASSUME SioAssumption ==
  /\ BUF_SIZE \in Nat \ {0}
  /\ \A m \in Messages : m \in Seq(STRING) /\ Len(m) >= 1
  /\ ReadLens \subseteq Nat \ {0}
  /\ MaxIn \in Nat
  /\ MaxOut \in Nat

Indices == 0..(BUF_SIZE - 1)

VARIABLES
  inbuffer, inlast, innext, incount,
  outbuffer, outlast, outnext, outcount,
  sending,     \* output control flag
  ier,         \* the interrupts that are enabled
  thre,        \* the UART can take another character to send
  wild,        \* a character was stored outside its buffer, or over one
               \* that still had to be sent: anything may happen then
  \* history: characters that arrived and those of them that were stored, what
  \* readers got; what writers put in, in the order in which the code does, and
  \* what the UART was given
  arrived, stored, delivered, queued, sent

inVars == <<inbuffer, inlast, innext, incount, arrived, stored, delivered>>
outVars == <<outbuffer, outlast, outnext, outcount, sending, ier, thre,
             queued, sent>>
vars == <<inVars, outVars, wild>>

\* sio_init(): no interrupts are enabled.
Init ==
  /\ inbuffer = [i \in Indices |-> 0]
  /\ inlast = 0 /\ innext = 0 /\ incount = 0
  /\ outbuffer = [i \in Indices |-> "NUL"]
  /\ outlast = 0 /\ outnext = 0 /\ outcount = 0
  /\ sending = FALSE
  /\ ier = {}
  /\ thre = TRUE
  /\ wild = FALSE
  /\ arrived = 0 /\ stored = <<>> /\ delivered = <<>>
  /\ queued = <<>> /\ sent = <<>>

sio_enable(which) == ier' = ier \cup which
sio_disable(which) == ier' = ier \ which

\* sio_flush( SIO_RX | SIO_TX ): what waits to be sent is dropped; an interrupt
\* that was enabled stays so.
sio_flush ==
  /\ incount' = 0 /\ inlast' = 0 /\ innext' = 0
  /\ outcount' = 0 /\ outlast' = 0 /\ outnext' = 0
  /\ sending' = FALSE
  /\ stored' = delivered
  /\ queued' = sent

\* The end of the kernel's main(); interrupts and processes come after it.
Started == "RX" \in ier
main ==
  /\ ~Started
  /\ ~wild
  /\ sio_flush
  /\ sio_enable({"RX"})
  /\ UNCHANGED <<inbuffer, arrived, delivered, outbuffer, thre, sent, wild>>

-----------------------------------------------------------------------------
(* Input *)

\* UA4_IIR_RX: the character is stored if the count says that there is room,
\* else ignored; inlast is never wrapped around.  (No process is ever found in
\* the queue sioread: see sys_read in Procs.)
sio_isr_RX ==
  /\ Started
  /\ arrived < MaxIn
  /\ ~wild
  /\ arrived' = arrived + 1
  /\ \/ incount >= BUF_SIZE
        /\ UNCHANGED <<inbuffer, inlast, incount, stored, wild>>
     \/ /\ incount < BUF_SIZE
        /\ inlast \in Indices
        /\ inbuffer' = [inbuffer EXCEPT ![inlast] = arrived']
        /\ inlast' = inlast + 1
        /\ incount' = incount + 1
        /\ stored' = Append(stored, arrived')
        /\ UNCHANGED wild
     \/ /\ incount < BUF_SIZE
        /\ inlast \notin Indices
        /\ wild' = TRUE
        /\ UNCHANGED <<inbuffer, inlast, incount, stored>>
  /\ UNCHANGED <<outVars, innext, delivered>>

Lesser(a, b) == IF a < b THEN a ELSE b

\* Faulty: only one of the two pointers is reset.
Rewound_Next(n) == /\ innext' = IF incount = n THEN 0 ELSE (innext + n) % (BUF_SIZE + 1)
                   /\ UNCHANGED inlast

\* innext moves on by n characters, from BUF_SIZE + 1 to 0 (the comparison is
\* >); when the buffer is empty both pointers are reset.
Rewound(n) ==
  /\ innext' = IF incount = n THEN 0 ELSE (innext + n) % (BUF_SIZE + 1)
  /\ inlast' = IF incount = n THEN 0 ELSE inlast

\* sio_read(): as many characters as there are and fit.  (With none there,
\* sys_read() does not return; see Procs.)
sio_read(length) ==
  LET n == Lesser(incount, length)
  IN  /\ incount >= 1
      /\ ~wild
      /\ delivered' = delivered \o
           [i \in 1..n |-> inbuffer[(innext + i - 1) % (BUF_SIZE + 1)]]
      /\ incount' = incount - n
      /\ Rewound(n)
      /\ UNCHANGED <<outVars, wild, inbuffer, arrived, stored>>

-----------------------------------------------------------------------------
(* Output *)

\* Faulty: a full buffer is not noticed.
Fits_Always(m, skip) == Len(m) - skip

\* How many characters of a message the loop of sio_write() appends: all, or
\* all but the first, as far as there is room.
Fits(m, skip) ==
  IF outcount >= BUF_SIZE THEN 0 ELSE Lesser(Len(m) - skip, BUF_SIZE - outcount)

\* The ring after n characters of m, from number skip + 1 on, were appended.
Appended(m, skip, n) ==
  [i \in Indices |-> LET k == (i - outlast) % BUF_SIZE
                     IN  IF k < n THEN m[skip + k + 1] ELSE outbuffer[i]]

\* The pointers into outbuffer wrap around.
Wrapped(i) == IF i >= BUF_SIZE THEN i - BUF_SIZE ELSE i

\* sio_write() while a transmission is going on.  The loop that copies wraps
\* outlast around: it stays at the end of the buffer if nothing is copied.
WriteSending(m) ==
  LET n == Fits(m, 0)
  IN  /\ sending
      /\ outbuffer' = Appended(m, 0, n)
      /\ outlast' = IF n = 0 THEN outlast ELSE Wrapped(outlast + n)
      /\ outcount' = outcount + n
      /\ queued' = queued \o SubSeq(m, 1, n)
      /\ UNCHANGED <<sending, ier, thre, sent, wild>>

\* Faulty: the transmitter interrupts are not enabled.
Prime_Silent == thre' = FALSE /\ sending' = TRUE /\ UNCHANGED ier

\* sio_writec() primes the pump: the UART gets a character, and its
\* interrupts are enabled.
Prime ==
  /\ thre' = FALSE
  /\ sending' = TRUE
  /\ sio_enable({"TX"})

\* sio_writec(), as the console calls it, never with an LF: while a transmission
\* is going on the character is stored, without a test for room or for the end
\* of the buffer.
sio_writec(ch) ==
  /\ ~wild
  /\ Len(queued) < MaxOut
  /\ \/ /\ sending /\ outlast \in Indices /\ outcount < BUF_SIZE
        /\ outbuffer' = [outbuffer EXCEPT ![outlast] = ch]
        /\ outlast' = outlast + 1
        /\ outcount' = outcount + 1
        /\ queued' = Append(queued, ch)
        /\ UNCHANGED <<sending, ier, thre, sent, wild>>
     \/ /\ sending /\ ~(outlast \in Indices /\ outcount < BUF_SIZE)
        /\ wild' = TRUE
        /\ UNCHANGED <<outbuffer, outlast, outcount, queued, sending, ier, thre, sent>>
     \/ /\ ~sending
        /\ Prime
        /\ sent' = Append(sent, ch)
        /\ queued' = Append(queued, ch)
        /\ UNCHANGED <<outbuffer, outlast, outcount, wild>>
  /\ UNCHANGED <<inVars, outnext>>

\* sio_write() that starts a transmission: all but the first character are
\* appended, then sio_writec() sends the first one.
WriteStarting(m) ==
  LET n == Fits(m, 1)
  IN  /\ ~sending
      /\ m[1] # LF
      /\ Prime
      /\ outbuffer' = Appended(m, 1, n)
      /\ outlast' = Wrapped(outlast + n)
      /\ outcount' = outcount + n
      /\ sent' = Append(sent, m[1])
      /\ queued' = queued \o SubSeq(m, 1, n + 1)
      /\ UNCHANGED wild

\* The same with an LF in front: sio_writec() sends a CR for it and appends the
\* LF itself, behind the rest of the message, without a test for room.
WriteNewline(m) ==
  LET n == Fits(m, 1)
      last == Wrapped(outlast + n)
  IN  /\ ~sending
      /\ m[1] = LF
      /\ \/ /\ outcount + n < BUF_SIZE
            /\ Prime
            /\ outbuffer' = [Appended(m, 1, n) EXCEPT ![last] = LF]
            /\ outlast' = last + 1
            /\ outcount' = outcount + n + 1
            /\ sent' = Append(sent, CR)
            /\ queued' = queued \o <<CR>> \o SubSeq(m, 2, n + 1) \o <<LF>>
            /\ UNCHANGED wild
         \/ /\ outcount + n >= BUF_SIZE
            /\ wild' = TRUE
            /\ UNCHANGED <<outbuffer, outlast, outcount, sending, ier, thre,
                           queued, sent>>

\* sio_write() stores outside the buffer if sio_writec() moved outlast to its
\* end.
sio_write(m) ==
  /\ ~wild
  /\ Started
  /\ Len(queued) + Len(m) <= MaxOut
  /\ IF outlast \notin Indices /\ Fits(m, 0) > 0
     THEN wild' = TRUE /\ UNCHANGED outVars
     ELSE /\ WriteSending(m) \/ WriteStarting(m) \/ WriteNewline(m)
          /\ UNCHANGED outnext
  /\ UNCHANGED inVars

\* The UART has sent its character.
Transmitted ==
  /\ ~thre
  /\ thre' = TRUE
  /\ UNCHANGED <<inVars, wild, outbuffer, outlast, outnext, outcount, sending,
                 ier, queued, sent>>

\* UA4_IIR_TX: the next character goes to the UART; if there is none, the
\* transmission is over and the interrupt is disabled.
sio_isr_TX ==
  /\ Started
  /\ "TX" \in ier
  /\ thre
  /\ ~wild
  /\ \/ /\ sending /\ outcount > 0
        /\ sent' = Append(sent, outbuffer[outnext])
        /\ outnext' = Wrapped(outnext + 1)
        /\ outcount' = outcount - 1
        /\ thre' = FALSE
        /\ UNCHANGED <<outlast, sending, ier>>
     \/ /\ ~(sending /\ outcount > 0)
        /\ outcount' = 0
        /\ outlast' = 0 /\ outnext' = 0
        /\ sending' = FALSE
        /\ sio_disable({"TX"})
        /\ UNCHANGED <<sent, thre>>
  /\ UNCHANGED <<inVars, wild, outbuffer, queued>>

-----------------------------------------------------------------------------
Next ==
  \/ main \/ sio_isr_RX \/ sio_isr_TX \/ Transmitted
  \/ \E n \in ReadLens : sio_read(n)
  \/ \E m \in Messages : sio_write(m)
  \/ sio_writec("c")

\* The kernel starts, the UART sends what it is given, and its interrupts are
\* taken.
Spec == /\ Init /\ [][Next]_vars
        /\ WF_vars(main) /\ WF_vars(Transmitted) /\ WF_vars(sio_isr_TX)

-----------------------------------------------------------------------------
(* Correctness *)

\* The characters a buffer holds, oldest first.
Pending == [i \in 1..incount |-> inbuffer[innext + i - 1]]
Waiting == [i \in 1..outcount |-> outbuffer[(outnext + i - 1) % BUF_SIZE]]

\* Readers get the characters that sio_isr() stored, each once and in order,
\* whatever lengths they read and whenever the buffer is reset.
ReadersGetInput == ~wild => delivered \o Pending = stored

\* The line gets the characters that sio_write() and sio_writec() put in, each
\* once and in the order in which they put them in, whether they went to the UART
\* at once or through the ring.  (For a message with an LF in front that is not
\* the order in which it was written: see WriteNewline.)
LineGetsOutput == ~wild => sent \o Waiting = queued

\* Once the writers pause (they do, at MaxOut), a transmission ends and all that
\* was put in has been sent: the interrupt that sends the next character is
\* enabled as long as there is one.
OutputDrains == sending ~> wild \/ (~sending /\ sent = queued)
=============================================================================
