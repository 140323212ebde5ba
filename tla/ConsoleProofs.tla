--------------------------- MODULE ConsoleProofs ---------------------------
(***************************************************************************)
(* Proofs about Console, for a screen, an input buffer and scrolling       *)
(* regions of any size: keys are read in the order typed, lines are whole, *)
(* and the cursor stays where output may go.                               *)
(***************************************************************************)
EXTENDS Console, QueueOpsProofs

-----------------------------------------------------------------------------
(* The keyboard *)

Places == 0..(C_BUFSIZE - 1)
Keyboards == [buf : [Places -> Nat], next_char : Places, next_space : Places,
              shift : {"unshifted", "shifted"}, ctrl_mask : {BMASK5, BMASK8}]

KeyboardInv == kbd \in Keyboards

\* The place that is i after next_char.
At(k, i) == (k.next_char + i - 1) % C_BUFSIZE

\* The characters typed are those taken, followed by those in the buffer.
KeyInv ==
  /\ kbd \in Keyboards /\ kept \in Seq(Nat) /\ taken \in Seq(Nat)
  /\ Len(kept) = Len(taken) + cio_input_queue(kbd)
  /\ \A i \in 1..Len(taken) : kept[i] = taken[i]
  /\ \A i \in 1..cio_input_queue(kbd) : kept[Len(taken) + i] = kbd.buf[At(kbd, i)]

LEMMA Around ==
  ASSUME NEW B \in Nat \ {0}, NEW a \in Nat, a < 2 * B
  PROVE  a % B = IF a >= B THEN a - B ELSE a
  OBVIOUS

LEMMA Increments ==
  ASSUME NEW p \in Places
  PROVE  increment(p) \in Places /\ increment(p) = IF p = C_BUFSIZE - 1 THEN 0 ELSE p + 1
  <1> DEFINE a == p + 1
  <1>1. C_BUFSIZE \in Nat \ {0} /\ a \in Nat /\ a < 2 * C_BUFSIZE /\ p \in Nat /\ p < C_BUFSIZE
    BY ConsoleAssumption DEF Places
  <1> HIDE DEF a
  <1>2. a % C_BUFSIZE = IF a >= C_BUFSIZE THEN a - C_BUFSIZE ELSE a
    BY <1>1, Around
  <1>3. increment(p) = IF a >= C_BUFSIZE THEN a - C_BUFSIZE ELSE a
    BY <1>2 DEF increment, a
  <1>4. QED BY <1>1, <1>3 DEF Places, a

\* How many places there are from a up to b, going around.
Distance(a, b) == IF b - a < 0 THEN (b - a) + C_BUFSIZE ELSE b - a

LEMMA Distances ==
  ASSUME NEW a \in Places, NEW b \in Places
  PROVE  /\ Distance(a, b) \in Places
         /\ increment(b) # a => Distance(a, increment(b)) = Distance(a, b) + 1
         /\ a # b => Distance(increment(a), b) = Distance(a, b) - 1
         /\ IF a + Distance(a, b) >= C_BUFSIZE THEN a + Distance(a, b) - C_BUFSIZE = b
            ELSE a + Distance(a, b) = b
  <1>1. a \in Nat /\ b \in Nat /\ a < C_BUFSIZE /\ b < C_BUFSIZE /\ C_BUFSIZE \in Nat
    BY ConsoleAssumption DEF Places
  <1>2. increment(a) = IF a = C_BUFSIZE - 1 THEN 0 ELSE a + 1
    BY Increments
  <1>3. increment(b) = IF b = C_BUFSIZE - 1 THEN 0 ELSE b + 1
    BY Increments
  <1>4. Distance(a, b) \in Places
    BY <1>1 DEF Distance, Places
  <1>5. increment(b) # a => Distance(a, increment(b)) = Distance(a, b) + 1
    BY <1>1, <1>3 DEF Distance
  <1>6. a # b => Distance(increment(a), b) = Distance(a, b) - 1
    BY <1>1, <1>2 DEF Distance
  <1>7. IF a + Distance(a, b) >= C_BUFSIZE THEN a + Distance(a, b) - C_BUFSIZE = b
        ELSE a + Distance(a, b) = b
    BY <1>1 DEF Distance
  <1>8. QED BY <1>4, <1>5, <1>6, <1>7

LEMMA QueueIs ==
  ASSUME NEW k
  PROVE  cio_input_queue(k) = Distance(k.next_char, k.next_space)
  BY DEF cio_input_queue, Distance

LEMMA QueueLength ==
  ASSUME NEW k \in Keyboards
  PROVE  /\ cio_input_queue(k) \in Places
         /\ cio_input_queue(k) = C_BUFSIZE - 1 <=> increment(k.next_space) = k.next_char
         /\ cio_input_queue(k) = 0 <=> k.next_char = k.next_space
  <1>1. k.next_char \in Places /\ k.next_space \in Places
    BY DEF Keyboards
  <1>2. increment(k.next_space) = IF k.next_space = C_BUFSIZE - 1 THEN 0 ELSE k.next_space + 1
    BY <1>1, Increments
  <1>3. QED BY <1>1, <1>2, ConsoleAssumption DEF Places, cio_input_queue

LEMMA PlaceAt ==
  ASSUME NEW k \in Keyboards, NEW i \in 1..C_BUFSIZE
  PROVE  /\ At(k, i) \in Places
         /\ At(k, i) = IF k.next_char + i - 1 >= C_BUFSIZE
                       THEN k.next_char + i - 1 - C_BUFSIZE ELSE k.next_char + i - 1
  <1> DEFINE a == k.next_char + i - 1
  <1>1. C_BUFSIZE \in Nat \ {0} /\ a \in Nat /\ a < 2 * C_BUFSIZE /\ k.next_char \in Nat
    BY ConsoleAssumption DEF Places, Keyboards
  <1> HIDE DEF a
  <1>2. a % C_BUFSIZE = IF a >= C_BUFSIZE THEN a - C_BUFSIZE ELSE a
    BY <1>1, Around
  <1>3. At(k, i) = IF a >= C_BUFSIZE THEN a - C_BUFSIZE ELSE a
    BY <1>2 DEF At, a
  <1>4. At(k, i) \in Places
    BY <1>1, <1>3 DEF Places
  <1>5. (k.next_char + i - 1) - C_BUFSIZE = k.next_char + i - 1 - C_BUFSIZE
    BY <1>1
  <1>6. QED BY <1>3, <1>4, <1>5 DEF a

\* Places of characters in the buffer differ from where the next one is stored.
LEMMA NotOverwritten ==
  ASSUME NEW k \in Keyboards, NEW i \in 1..cio_input_queue(k)
  PROVE  At(k, i) # k.next_space /\ i \in 1..C_BUFSIZE
  <1>1. k.next_char \in Places /\ k.next_space \in Places /\ C_BUFSIZE \in Nat
    BY ConsoleAssumption DEF Keyboards
  <1>2. i \in 1..C_BUFSIZE
    BY <1>1, QueueLength DEF Places
  <1> DEFINE a == At(k, i)
  <1>3. a = IF k.next_char + i - 1 >= C_BUFSIZE
            THEN k.next_char + i - 1 - C_BUFSIZE ELSE k.next_char + i - 1
    BY <1>2, PlaceAt
  <1> HIDE DEF a
  <1>4. /\ k.next_char \in Nat /\ k.next_space \in Nat /\ i \in Nat /\ i >= 1
        /\ k.next_char < C_BUFSIZE /\ k.next_space < C_BUFSIZE
        /\ k.next_space - k.next_char >= 0 => i <= k.next_space - k.next_char
        /\ k.next_space - k.next_char < 0 => i <= (k.next_space - k.next_char) + C_BUFSIZE
    <2>1. k.next_space - k.next_char \in Int
      BY <1>1 DEF Places
    <2>2. QED BY <1>1, <2>1 DEF Places, cio_input_queue
  <1>5. a # k.next_space
    BY <1>1, <1>3, <1>4
  <1>6. QED BY <1>2, <1>5 DEF a

LEMMA CharacterType ==
  ASSUME NEW k \in Keyboards, NEW code \in Keys
  PROVE  Character(k, code) \in Nat /\ code \notin Modifiers
  <1>1. code \in {"d", "enter", "f1"}
    BY KeysAssumption DEF scan_code
  <1>2. k.shift \in {"unshifted", "shifted"} /\ k.ctrl_mask \in {32, 256}
    BY DEF Keyboards, BMASK5, BMASK8
  <1>3. scan_code[code][k.shift] \in Nat
    BY <1>1, <1>2 DEF scan_code, NL, UNDEF
  <1>4. QED BY <1>1, <1>2, <1>3 DEF Character, Modifiers

\* The buffer and its pointers, whatever keys are pressed.
LEMMA NextKeyboard ==
  ASSUME kbd \in Keyboards, [Next]_vars
  PROVE  kbd' \in Keyboards
  <1>1. CASE UNCHANGED kbd
    BY <1>1
  <1>2. ASSUME NEW code \in Keys \cup Modifiers, Press(code)
        PROVE  kbd' \in Keyboards
    <2>1. kbd' = input_scan_code(code)
      BY <1>2 DEF Press
    <2>2. CASE code \in Modifiers
      BY <2>1, <2>2 DEF input_scan_code, Modifiers, Keyboards
    <2>3. CASE code \in Keys
      <3> DEFINE c == Character(kbd, code)
      <3>1. c \in Nat /\ kbd' = Stored(kbd, c)
        BY <2>1, <2>3, CharacterType DEF input_scan_code, Modifiers
      <3> HIDE DEF c
      <3>2. increment(kbd.next_space) \in Places
        BY Increments DEF Keyboards
      <3>3. QED BY <3>1, <3>2 DEF Stored, Keyboards
    <2>4. QED BY <2>2, <2>3
  <1>3. CASE keyboard_isr \/ Poll
    BY <1>2, <1>3 DEF keyboard_isr, Poll
  <1>4. CASE cio_getchar
    <2>1. increment(kbd.next_char) \in Places
      BY Increments DEF Keyboards
    <2>2. kbd' = [kbd EXCEPT !.next_char = increment(kbd.next_char)]
      BY <1>4 DEF cio_getchar
    <2>3. QED BY <2>1, <2>2 DEF Keyboards
  <1>5. \/ UNCHANGED kbd \/ keyboard_isr \/ Poll \/ cio_getchar
    BY DEF Next, vars, input, cio_puts, cio_printf, cio_puts_at, cio_printf_at, PrintAt,
           PutNext, PutNextAt, SetScroll, MoveTo, Scroll, Clear, cio_opt_set,
           cio_opt_clear, sys_read
  <1>6. QED BY <1>1, <1>3, <1>4, <1>5

LEMMA InitKeyboard ==
  ASSUME Init
  PROVE  kbd \in Keyboards
  <1>1. C_BUFSIZE \in Nat /\ C_BUFSIZE >= 2 /\ 0 \in Places
    BY ConsoleAssumption DEF Places
  <1>2. kbd = [buf |-> [i \in Places |-> 0], next_char |-> 0, next_space |-> 0,
               shift |-> "unshifted", ctrl_mask |-> BMASK8]
    BY DEF Init, Places
  <1>3. QED BY <1>1, <1>2 DEF Keyboards

LEMMA StoresKey ==
  ASSUME AllDefined, KeyInv, NEW code \in Keys, Press(code),
         cio_input_queue(kbd) # C_BUFSIZE - 1
  PROVE  KeyInv'
  <1> DEFINE q == cio_input_queue(kbd)
             c == Character(kbd, code)
             s == kbd.next_space
  <1>1. /\ kbd \in Keyboards /\ kept \in Seq(Nat) /\ taken \in Seq(Nat) /\ taken' = taken
        /\ Len(kept) = Len(taken) + q /\ C_BUFSIZE \in Nat /\ C_BUFSIZE >= 2
    BY ConsoleAssumption DEF KeyInv, Press
  <1>2. q \in Places /\ increment(s) # kbd.next_char /\ c \in Nat /\ code \notin Modifiers
    BY <1>1, QueueLength, CharacterType
  <1>3. /\ kbd' = [kbd EXCEPT !.buf[s] = c, !.next_space = increment(s)]
        /\ kept' = Append(kept, c)
    <2>1. kbd' = Stored(kbd, c)
      BY <1>2 DEF Press, input_scan_code, Modifiers
    <2>2. kbd' = [kbd EXCEPT !.buf[s] = c, !.next_space = increment(s)]
      BY <1>2, <2>1 DEF Stored
    <2>3. Len(kept) - Len(taken) < C_BUFSIZE - 1
      BY <1>1, <1>2 DEF Places
    <2>4. ~Undefined(kbd, code)
      BY <1>1 DEF AllDefined, Undefined, Keyboards
    <2>5. QED BY <1>2, <2>2, <2>3, <2>4 DEF Press
  <1>4. s \in Places /\ increment(s) \in Places
        /\ increment(s) = IF s = C_BUFSIZE - 1 THEN 0 ELSE s + 1
    BY <1>1, Increments DEF Keyboards
  <1> HIDE DEF c, s
  <1>5. /\ kbd' \in Keyboards /\ kbd'.next_char = kbd.next_char
        /\ kbd'.next_space = increment(s) /\ kbd'.buf = [kbd.buf EXCEPT ![s] = c]
    BY <1>1, <1>2, <1>3, <1>4 DEF Keyboards
  <1>6. cio_input_queue(kbd') = q + 1
    <2>1. kbd.next_char \in Places
      BY <1>1 DEF Keyboards
    <2>2. q = Distance(kbd.next_char, s)
      BY QueueIs DEF s
    <2> HIDE DEF q
    <2>3. cio_input_queue(kbd') = Distance(kbd.next_char, increment(s))
      BY <1>5, QueueIs
    <2>4. increment(s) # kbd.next_char
      BY <1>2 DEF s
    <2>5. QED BY <1>4, <2>1, <2>2, <2>3, <2>4, Distances
  <1>7. \A i : At(kbd', i) = At(kbd, i)
    BY <1>5 DEF At
  <1>8. At(kbd, q + 1) = s
    <2>1. q + 1 \in 1..C_BUFSIZE
      BY <1>1, <1>2 DEF Places
    <2>2. kbd.next_char \in Places
      BY <1>1 DEF Keyboards
    <2>3. q = Distance(kbd.next_char, s) /\ q \in Nat
      BY <1>2, QueueIs DEF s, Places
    <2> HIDE DEF q
    <2>4. At(kbd, q + 1) = IF kbd.next_char + (q + 1) - 1 >= C_BUFSIZE
                           THEN kbd.next_char + (q + 1) - 1 - C_BUFSIZE
                           ELSE kbd.next_char + (q + 1) - 1
      BY <1>1, <2>1, PlaceAt
    <2>5. kbd.next_char + (q + 1) - 1 = kbd.next_char + q /\ kbd.next_char \in Nat
      BY <2>2, <2>3 DEF Places
    <2>6. IF kbd.next_char + q >= C_BUFSIZE THEN kbd.next_char + q - C_BUFSIZE = s
          ELSE kbd.next_char + q = s
      BY <1>4, <2>2, <2>3, Distances
    <2>7. kbd.next_char + (q + 1) - 1 - C_BUFSIZE = kbd.next_char + q - C_BUFSIZE
      BY <1>1, <2>3, <2>5
    <2>8. QED BY <2>4, <2>5, <2>6, <2>7
  <1>9. ASSUME NEW i \in 1..q
        PROVE  kbd'.buf[At(kbd', i)] = kbd.buf[At(kbd, i)] /\ kept'[Len(taken) + i] = kept[Len(taken) + i]
    <2>1. At(kbd, i) # s /\ i \in 1..C_BUFSIZE
      BY <1>1, NotOverwritten DEF s
    <2>2. At(kbd, i) \in Places
      BY <1>1, <2>1, PlaceAt
    <2>3. kbd.buf \in [Places -> Nat]
      BY <1>1 DEF Keyboards
    <2>4. Len(taken) + i \in 1..Len(kept)
      BY <1>1, <1>2 DEF Places
    <2>5. QED BY <1>1, <1>2, <1>3, <1>5, <1>7, <2>1, <2>2, <2>3, <2>4
  <1>10. kbd'.buf[At(kbd', q + 1)] = c /\ kept'[Len(taken) + (q + 1)] = c
    <2>1. kbd.buf \in [Places -> Nat]
      BY <1>1 DEF Keyboards
    <2>2. Len(taken) + (q + 1) = Len(kept) + 1
      BY <1>1, <1>2 DEF Places
    <2>3. QED BY <1>1, <1>2, <1>3, <1>4, <1>5, <1>7, <1>8, <2>1, <2>2
  <1>11. /\ kept' \in Seq(Nat) /\ Len(kept') = Len(taken) + (q + 1)
         /\ \A i \in 1..Len(taken) : kept'[i] = taken[i]
    <2>1. \A i \in 1..Len(taken) : i \in 1..Len(kept) /\ kept[i] = taken[i]
      BY <1>1, <1>2 DEF KeyInv, Places
    <2>2. kept' \in Seq(Nat) /\ Len(kept') = Len(kept) + 1
          /\ \A i \in 1..Len(kept) : kept'[i] = kept[i]
      BY <1>1, <1>2, <1>3
    <2>3. Len(kept) + 1 = Len(taken) + (q + 1)
      BY <1>1, <1>2 DEF Places
    <2>4. QED BY <1>1, <2>1, <2>2, <2>3
  <1>12. ASSUME NEW i \in 1..(q + 1)
         PROVE  kept'[Len(taken) + i] = kbd'.buf[At(kbd', i)]
    <2>1. CASE i = q + 1
      BY <1>10, <2>1
    <2>2. CASE i \in 1..q
      <3>1. kept[Len(taken) + i] = kbd.buf[At(kbd, i)]
        BY <2>2 DEF KeyInv
      <3>2. QED BY <1>9, <2>2, <3>1
    <2>3. i = q + 1 \/ i \in 1..q
      BY <1>2 DEF Places
    <2>4. QED BY <2>1, <2>2, <2>3
  <1> HIDE DEF q
  <1>13. QED BY <1>1, <1>5, <1>6, <1>11, <1>12 DEF KeyInv, At

LEMMA PressKeys ==
  ASSUME AllDefined, KeyInv, NEW code \in Keys \cup Modifiers, Press(code)
  PROVE  KeyInv'
  <1>1. kbd \in Keyboards /\ taken' = taken
    BY DEF KeyInv, Press
  <1>2. CASE code \in Modifiers
    <2>1. /\ kbd' \in Keyboards /\ kbd'.buf = kbd.buf /\ kbd'.next_char = kbd.next_char
          /\ kbd'.next_space = kbd.next_space
      BY <1>1, <1>2 DEF Press, input_scan_code, Modifiers, Keyboards
    <2>2. kept' = kept
      BY <1>2 DEF Press
    <2>3. cio_input_queue(kbd') = cio_input_queue(kbd) /\ \A i : At(kbd', i) = At(kbd, i)
      BY <2>1 DEF cio_input_queue, At
    <2>4. QED BY <1>1, <2>1, <2>2, <2>3 DEF KeyInv, At
  <1>3. CASE code \in Keys /\ cio_input_queue(kbd) = C_BUFSIZE - 1
    <2>1. increment(kbd.next_space) = kbd.next_char /\ code \notin Modifiers
      BY <1>1, <1>3, QueueLength, CharacterType
    <2>2. kbd' = kbd
      BY <2>1 DEF Press, input_scan_code, Modifiers, Stored
    <2>3. kept' = kept
      <3>1. ~(Len(kept) - Len(taken) < C_BUFSIZE - 1)
        BY <1>3, ConsoleAssumption DEF KeyInv
      <3>2. QED BY <3>1 DEF Press
    <2>4. QED BY <1>1, <2>2, <2>3 DEF KeyInv, At, cio_input_queue
  <1>4. QED BY <1>2, <1>3, StoresKey

\* Place i from the next one on is place i + 1.
LEMMA Shifted ==
  ASSUME NEW B \in Nat, NEW n \in 0..(B - 1), NEW i \in 1..B,
         NEW m, m = IF n = B - 1 THEN 0 ELSE n + 1
  PROVE  (IF m + i - 1 >= B THEN m + i - 1 - B ELSE m + i - 1) =
         (IF n + (i + 1) - 1 >= B THEN n + (i + 1) - 1 - B ELSE n + (i + 1) - 1)
  OBVIOUS

LEMMA TakesKey ==
  ASSUME KeyInv, cio_getchar
  PROVE  KeyInv'
  <1> DEFINE q == cio_input_queue(kbd)
             n == kbd.next_char
             c == kbd.buf[n]
  <1>1. /\ kbd \in Keyboards /\ kept \in Seq(Nat) /\ taken \in Seq(Nat) /\ kept' = kept
        /\ Len(kept) = Len(taken) + q /\ C_BUFSIZE \in Nat /\ C_BUFSIZE >= 2
        /\ kbd' = [kbd EXCEPT !.next_char = increment(n)] /\ taken' = Append(taken, c)
        /\ n # kbd.next_space
    BY ConsoleAssumption DEF KeyInv, cio_getchar
  <1>2. q \in Places /\ q # 0
    BY <1>1, QueueLength
  <1>3. /\ n \in Places /\ increment(n) \in Places
        /\ increment(n) = IF n = C_BUFSIZE - 1 THEN 0 ELSE n + 1
        /\ c \in Nat
    BY <1>1, Increments DEF Keyboards
  <1> HIDE DEF c, n
  <1>4. /\ kbd' \in Keyboards /\ kbd'.next_char = increment(n)
        /\ kbd'.next_space = kbd.next_space /\ kbd'.buf = kbd.buf
    BY <1>1, <1>3 DEF Keyboards
  <1>5. cio_input_queue(kbd') = q - 1
    <2>1. kbd.next_space \in Places
      BY <1>1 DEF Keyboards
    <2>2. q = Distance(n, kbd.next_space)
      BY QueueIs DEF n
    <2>3. cio_input_queue(kbd') = Distance(increment(n), kbd.next_space)
      BY <1>4, QueueIs
    <2> HIDE DEF q
    <2>4. QED BY <1>1, <1>3, <2>1, <2>2, <2>3, Distances
  <1>6. At(kbd, 1) = n
    <2>1. At(kbd, 1) = IF kbd.next_char + 1 - 1 >= C_BUFSIZE
                       THEN kbd.next_char + 1 - 1 - C_BUFSIZE ELSE kbd.next_char + 1 - 1
      BY SMTT(30), <1>1, PlaceAt
    <2>2. QED BY <1>1, <1>3, <2>1 DEF Places, n
  <1>7. ASSUME NEW i \in 1..(q - 1)
        PROVE  At(kbd', i) = At(kbd, i + 1)
    <2>0. C_BUFSIZE \in Nat /\ q \in 0..(C_BUFSIZE - 1) /\ n \in 0..(C_BUFSIZE - 1)
      BY <1>1, <1>2, <1>3 DEF Places
    <2> HIDE DEF q
    <2>1. i \in 1..C_BUFSIZE /\ i + 1 \in 1..C_BUFSIZE
      BY <2>0
    <2>2. At(kbd', i) = IF increment(n) + i - 1 >= C_BUFSIZE
                        THEN increment(n) + i - 1 - C_BUFSIZE ELSE increment(n) + i - 1
      BY <1>4, <2>1, PlaceAt
    <2>3. At(kbd, i + 1) = IF n + (i + 1) - 1 >= C_BUFSIZE
                           THEN n + (i + 1) - 1 - C_BUFSIZE ELSE n + (i + 1) - 1
      BY <1>1, <2>1, PlaceAt DEF n
    <2>4. increment(n) = IF n = C_BUFSIZE - 1 THEN 0 ELSE n + 1
      BY <1>3
    <2>5. QED BY <2>0, <2>1, <2>2, <2>3, <2>4, Shifted
  <1>8. /\ taken' \in Seq(Nat) /\ Len(taken') = Len(taken) + 1
        /\ taken'[Len(taken) + 1] = c /\ \A i \in 1..Len(taken) : taken'[i] = taken[i]
    BY <1>1, <1>3
  <1>9. 1 \in 1..q /\ kept[Len(taken) + 1] = c
    <2>1. 1 \in 1..q
      BY <1>2 DEF Places
    <2>2. QED BY <1>6, <2>1 DEF KeyInv, c
  <1>10. Len(kept) = Len(taken') + (q - 1)
    BY <1>1, <1>2, <1>8 DEF Places
  <1>11. ASSUME NEW i \in 1..Len(taken')
         PROVE  kept[i] = taken'[i]
    <2>1. CASE i = Len(taken) + 1
      BY <1>8, <1>9, <2>1
    <2>2. CASE i \in 1..Len(taken)
      BY <1>8, <2>2 DEF KeyInv
    <2>3. i = Len(taken) + 1 \/ i \in 1..Len(taken)
      BY <1>1, <1>8
    <2>4. QED BY <2>1, <2>2, <2>3
  <1>12. ASSUME NEW i \in 1..(q - 1)
         PROVE  kept[Len(taken') + i] = kbd'.buf[At(kbd', i)]
    <2>1. i + 1 \in 1..q /\ Len(taken') + i = Len(taken) + (i + 1)
      <3>1. q \in Nat /\ Len(taken) \in Nat /\ Len(taken') = Len(taken) + 1
        BY <1>1, <1>2, <1>8 DEF Places
      <3> HIDE DEF q
      <3>2. QED BY <3>1
    <2>2. kept[Len(taken) + (i + 1)] = kbd.buf[At(kbd, i + 1)]
      BY <2>1 DEF KeyInv
    <2>3. QED BY <1>4, <1>7, <2>1, <2>2
  <1> HIDE DEF q
  <1>13. QED BY <1>1, <1>3, <1>4, <1>5, <1>8, <1>10, <1>11, <1>12 DEF KeyInv, At, c, n

LEMMA NextKeys ==
  ASSUME AllDefined, KeyInv, [Next]_vars
  PROVE  KeyInv'
  <1>1. CASE UNCHANGED <<kbd, kept, taken>>
    BY <1>1 DEF KeyInv, At, cio_input_queue
  <1>2. CASE keyboard_isr \/ Poll
    BY <1>2, PressKeys DEF keyboard_isr, Poll
  <1>3. CASE cio_getchar
    BY <1>3, TakesKey
  <1>4. UNCHANGED input => UNCHANGED <<kbd, kept, taken>>
    BY DEF input
  <1>5. \/ UNCHANGED <<kbd, kept, taken>> \/ keyboard_isr \/ Poll \/ cio_getchar
    BY <1>4 DEF Next, vars, cio_puts, cio_printf, cio_puts_at, cio_printf_at, PrintAt,
                PutNext, PutNextAt, SetScroll, MoveTo, Scroll, Clear, cio_opt_set,
                cio_opt_clear, sys_read
  <1>6. QED BY <1>1, <1>2, <1>3, <1>5

LEMMA InitKeys ==
  ASSUME Init
  PROVE  KeyInv
  <1>1. C_BUFSIZE \in Nat /\ C_BUFSIZE >= 2 /\ 0 \in Places
    BY ConsoleAssumption DEF Places
  <1>2. kbd.next_char = 0 /\ kbd.next_space = 0
    BY DEF Init
  <1>3. kbd \in Keyboards /\ cio_input_queue(kbd) = 0
    BY <1>1, <1>2, InitKeyboard DEF cio_input_queue
  <1>4. kept = <<>> /\ taken = <<>> /\ <<>> \in Seq(Nat) /\ Len(<<>>) = 0 /\ 1..0 = {}
    BY DEF Init
  <1>5. QED BY <1>3, <1>4 DEF KeyInv

\* What was taken and what is in the buffer together are what was typed, but
\* for the characters that came when the buffer was full, for buffers of any
\* size, if every key is defined.
THEOREM KeysRead ==
  ASSUME AllDefined
  PROVE  Spec => []KeysInOrder
  <1>1. ASSUME KeyInv
        PROVE  KeysInOrder
    <2> DEFINE q == cio_input_queue(kbd)
    <2>1. kbd \in Keyboards /\ q \in Nat /\ kbd.buf \in [Places -> Nat]
      <3>1. kbd \in Keyboards
        BY <1>1 DEF KeyInv
      <3>2. q \in Places
        BY <3>1, QueueLength
      <3>3. q \in Nat
        BY <3>2, ConsoleAssumption DEF Places
      <3>4. QED BY <3>1, <3>3 DEF Keyboards
    <2>2. ASSUME NEW i \in 1..q
          PROVE  kbd.buf[At(kbd, i)] \in Nat
      <3>1. i \in 1..C_BUFSIZE
        BY <2>1, NotOverwritten
      <3>2. At(kbd, i) \in Places
        BY <2>1, <3>1, PlaceAt
      <3>3. QED BY <2>1, <3>2
    <2>3. Pending = [i \in 1..q |-> kbd.buf[At(kbd, i)]]
      BY DEF Pending, At
    <2> HIDE DEF q
    <2>4. Pending \in Seq(Nat) /\ Len(Pending) = q /\ \A i \in 1..q : Pending[i] = kbd.buf[At(kbd, i)]
      BY <2>1, <2>2, <2>3
    <2>5. /\ taken \in Seq(Nat) /\ kept \in Seq(Nat) /\ Len(kept) = Len(taken) + Len(Pending)
          /\ \A i \in 1..Len(taken) : kept[i] = taken[i]
          /\ \A i \in 1..Len(Pending) : kept[Len(taken) + i] = Pending[i]
      BY <1>1, <2>4 DEF KeyInv, q
    <2> HIDE DEF Pending
    <2>6. taken \o Pending = kept
      BY <2>4, <2>5, JoinedIs
    <2>7. QED BY <2>6 DEF KeysInOrder
  <1>2. KeyInv /\ [Next]_vars => KeyInv'
    BY NextKeys
  <1>3. QED BY <1>1, <1>2, InitKeys, PTL DEF Spec

-----------------------------------------------------------------------------
(* Lines *)

\* While cio_gets() reads, what it got has no newline and leaves as much of the
\* caller's buffer as size says.
LineInv ==
  /\ reader \in [len : Nat, size : Nat, got : Seq(Nat), eot : BOOLEAN]
  /\ reader.size > 1 =>
       /\ Len(reader.got) + reader.size = reader.len
       /\ \A i \in 1..Len(reader.got) : reader.got[i] # NL
  /\ LinesWhole

LEMMA KeyTaken ==
  ASSUME kbd \in Keyboards
  PROVE  kbd.buf[kbd.next_char] \in Nat
  BY DEF Keyboards

LEMMA ReceivesLine ==
  ASSUME kbd \in Keyboards, LineInv, cio_getchar
  PROVE  LineInv'
  <1> DEFINE c == kbd.buf[kbd.next_char]
             n == Len(reader.got)
  <1>1. c \in Nat
    BY KeyTaken
  <1>2. /\ reader.size > 1 /\ reader' = Received(reader, c)
    BY DEF cio_getchar
  <1> HIDE DEF c
  <1>3. /\ reader.len \in Nat /\ reader.size \in Nat /\ reader.got \in Seq(Nat) /\ n \in Nat
        /\ n + reader.size = reader.len /\ \A i \in 1..n : reader.got[i] # NL
    BY <1>2 DEF LineInv
  <1>4. CASE c = EOT
    <2>1. /\ reader' \in [len : Nat, size : Nat, got : Seq(Nat), eot : BOOLEAN]
          /\ reader'.len = reader.len /\ reader'.got = reader.got
          /\ reader'.size = 0 /\ reader'.eot = TRUE
      BY <1>2, <1>4 DEF LineInv, Received
    <2>2. n < reader.len /\ \A i \in 1..(n - 1) : reader.got[i] # NL
      BY <1>2, <1>3
    <2>3. LinesWhole'
      BY <2>1, <2>2 DEF LinesWhole
    <2>4. QED BY <2>1, <2>3 DEF LineInv
  <1>5. CASE c # EOT
    <2> DEFINE g == Append(reader.got, c)
    <2>1. /\ g \in Seq(Nat) /\ Len(g) = n + 1 /\ g[n + 1] = c
          /\ \A i \in 1..n : g[i] = reader.got[i]
      BY <1>1, <1>3
    <2> HIDE DEF g
    <2>2. (IF c = NL THEN 0 ELSE reader.size - 1) \in Nat
      BY <1>2, <1>3
    <2>3. /\ reader' \in [len : Nat, size : Nat, got : Seq(Nat), eot : BOOLEAN]
          /\ reader'.len = reader.len /\ reader'.got = g
          /\ reader'.size = IF c = NL THEN 0 ELSE reader.size - 1
      BY <1>2, <1>5, <2>1, <2>2 DEF LineInv, Received, g
    <2>4. n + 1 < reader.len /\ (n + 1) - 1 = n
      BY <1>2, <1>3
    <2>5. \A i \in 1..n : g[i] # NL
      BY <1>3, <2>1
    <2>6. CASE c = NL
      <3>1. LinesWhole'
        BY <2>1, <2>3, <2>4, <2>5, <2>6 DEF LinesWhole
      <3>2. QED BY <2>3, <2>6, <3>1 DEF LineInv
    <2>7. CASE c # NL
      <3>1. Len(g) + reader'.size = reader'.len /\ reader'.size = reader.size - 1
        BY <1>3, <2>1, <2>3, <2>7
      <3>2. \A i \in 1..Len(g) : g[i] # NL
        <4>1. \A i \in 1..(n + 1) : i \in 1..n \/ i = n + 1
          BY <1>3
        <4>2. QED BY <2>1, <2>5, <2>7, <4>1
      <3>3. reader'.size <= 1 => Len(g) = reader.len - 1
        BY <1>2, <1>3, <2>1, <3>1
      <3>4. LinesWhole'
        BY <2>1, <2>3, <2>4, <2>5, <3>3 DEF LinesWhole
      <3>5. QED BY <2>3, <3>1, <3>2, <3>4 DEF LineInv
    <2>8. QED BY <2>6, <2>7
  <1>6. QED BY <1>4, <1>5

LEMMA NextLine ==
  ASSUME kbd \in Keyboards, LineInv, [Next]_vars
  PROVE  LineInv'
  <1>1. CASE UNCHANGED reader
    BY <1>1 DEF LineInv, LinesWhole
  <1>2. CASE sys_read
    <2>1. PICK n \in ReadLens : reader' = [len |-> n, size |-> n, got |-> <<>>, eot |-> FALSE]
      BY <1>2 DEF sys_read
    <2>2. n \in Nat /\ n # 0
      BY ConsoleAssumption
    <2>3. reader' \in [len : Nat, size : Nat, got : Seq(Nat), eot : BOOLEAN]
      BY <2>1, <2>2
    <2>4. /\ reader'.len = n /\ reader'.size = n /\ reader'.got = <<>> /\ reader'.eot = FALSE
          /\ Len(<<>>) = 0
      BY <2>1
    <2>5. n <= 1 => 0 = n - 1 /\ 0 < n
      BY <2>2
    <2>6. LinesWhole'
      BY <2>4, <2>5 DEF LinesWhole
    <2>7. QED BY <2>2, <2>3, <2>4, <2>6 DEF LineInv
  <1>3. UNCHANGED input => UNCHANGED reader
    BY DEF input
  <1>4. \/ UNCHANGED reader \/ sys_read \/ cio_getchar
    BY <1>3 DEF Next, vars, cio_puts, cio_printf, cio_puts_at, cio_printf_at, PrintAt,
                PutNext, PutNextAt, SetScroll, MoveTo, Scroll, Clear, cio_opt_set,
                cio_opt_clear, keyboard_isr, Poll, Press
  <1>5. QED BY <1>1, <1>2, <1>4, ReceivesLine

\* Lines that cio_gets() returns are whole, for buffers of any length.
THEOREM LinesRead == Spec => []LinesWhole
  <1>1. Init => LineInv
    BY DEF Init, LineInv, LinesWhole
  <1>2. LineInv => LinesWhole
    BY DEF LineInv
  <1>3. KeyboardInv /\ LineInv /\ [Next]_vars => KeyboardInv' /\ LineInv'
    BY NextKeyboard, NextLine DEF KeyboardInv
  <1>4. Init => KeyboardInv
    BY InitKeyboard DEF KeyboardInv
  <1>5. QED BY <1>1, <1>2, <1>3, <1>4, PTL DEF Spec

-----------------------------------------------------------------------------
(* The cursor *)

Fields == {"min_x", "min_y", "max_x", "max_y", "x", "y", "cells", "dup", "echo"}

\* A region on the screen and a cursor in it, or one line below at its left.
Framed(v) ==
  /\ DOMAIN v = Fields
  /\ {v.min_x, v.min_y, v.max_x, v.max_y, v.x, v.y} \subseteq Nat
  /\ v.min_x <= v.x /\ v.x <= v.max_x /\ v.max_x <= MAX_X
  /\ v.min_y <= v.max_y /\ v.max_y <= MAX_Y
  /\ v.min_y <= v.y /\ v.y <= v.max_y + 1
  /\ v.y > v.max_y => v.x = v.min_x

\* Only characters on the screen and their echo differ.
SameFrame(v, w) ==
  /\ DOMAIN w = DOMAIN v
  /\ w.min_x = v.min_x /\ w.min_y = v.min_y /\ w.max_x = v.max_x /\ w.max_y = v.max_y
  /\ w.x = v.x /\ w.y = v.y /\ w.dup = v.dup

LEMMA FrameKept ==
  ASSUME NEW v, NEW w, Framed(v), SameFrame(v, w)
  PROVE  Framed(w)
  BY DEF Framed, SameFrame

LEMMA WritesKeepFrame ==
  ASSUME NEW v, Framed(v), NEW x, NEW y, NEW c, NEW limit
  PROVE  /\ SameFrame(v, putchar_at(v, x, y, c))
         /\ SameFrame(v, Erased(v, x, y, limit))
         /\ SameFrame(v, cio_putchar_at(v, x, y, c))
         /\ SameFrame(v, cio_clearscroll(v))
         /\ SameFrame(v, cio_clearscreen(v))
  <1>1. ASSUME NEW d, NEW e
        PROVE  /\ SameFrame(v, [v EXCEPT !.cells = d])
               /\ SameFrame(v, [v EXCEPT !.cells = d, !.echo = e])
    BY DEF Framed, SameFrame, Fields
  <1>2. SameFrame(v, v)
    BY DEF SameFrame
  <1>3. SameFrame(v, putchar_at(v, x, y, c))
    <2> DEFINE d == [v.cells EXCEPT ![<<x, y>>] = c]
               e == IF v.dup /\ <<x, y>> \in ScrollRegion(v)
                    THEN v.echo \o (IF ISPRINT(c) THEN <<c>> ELSE Escape(c)) ELSE v.echo
    <2>1. putchar_at(v, x, y, c) = v \/ putchar_at(v, x, y, c) = [v EXCEPT !.cells = d, !.echo = e]
      BY DEF putchar_at
    <2> HIDE DEF d, e
    <2>2. SameFrame(v, [v EXCEPT !.cells = d, !.echo = e])
      BY <1>1
    <2>3. QED BY <1>2, <2>1, <2>2
  <1>4. \A l : SameFrame(v, Erased(v, x, y, l))
    BY <1>1 DEF Erased
  <1>5. SameFrame(v, cio_clearscroll(v))
    BY <1>1 DEF cio_clearscroll
  <1>6. SameFrame(v, cio_clearscreen(v))
    BY <1>1 DEF cio_clearscreen
  <1>7. SameFrame(v, cio_putchar_at(v, x, y, c))
    BY <1>3, <1>4 DEF cio_putchar_at
  <1>8. QED BY <1>3, <1>4, <1>5, <1>6, <1>7

\* cio_scroll() moves the cursor only when everything is scrolled away.
LEMMA ScrollFrame ==
  ASSUME NEW v, Framed(v), NEW n \in Nat
  PROVE  /\ Framed(cio_scroll(v, n))
         /\ cio_scroll(v, n).min_x = v.min_x /\ cio_scroll(v, n).min_y = v.min_y
         /\ cio_scroll(v, n).max_x = v.max_x /\ cio_scroll(v, n).max_y = v.max_y
         /\ cio_scroll(v, n).dup = v.dup
         /\ IF n > v.max_y - v.min_y
            THEN cio_scroll(v, n).x = v.min_x /\ cio_scroll(v, n).y = v.min_y
            ELSE cio_scroll(v, n).x = v.x /\ cio_scroll(v, n).y = v.y
  <1>1. CASE n > v.max_y - v.min_y
    <2> DEFINE w == cio_clearscroll(v)
    <2>1. SameFrame(v, w)
      BY WritesKeepFrame
    <2>2. cio_scroll(v, n) = [w EXCEPT !.x = v.min_x, !.y = v.min_y]
      BY <1>1 DEF cio_scroll
    <2> HIDE DEF w
    <2>3. QED BY <1>1, <2>1, <2>2 DEF Framed, SameFrame, Fields
  <1>2. CASE ~(n > v.max_y - v.min_y)
    <2>1. PICK d : cio_scroll(v, n) = [v EXCEPT !.cells = d]
      BY <1>2 DEF cio_scroll
    <2>2. QED BY <1>2, <2>1 DEF Framed, Fields
  <1>3. QED BY <1>1, <1>2

\* Before a character is printed the cursor is in the region.
LEMMA SettledFrame ==
  ASSUME NEW v, Framed(v)
  PROVE  /\ Framed(Settled(v)) /\ Settled(v).y <= Settled(v).max_y
         /\ Settled(v).min_x = v.min_x /\ Settled(v).min_y = v.min_y
         /\ Settled(v).max_x = v.max_x /\ Settled(v).max_y = v.max_y
         /\ Settled(v).dup = v.dup
  <1>1. CASE v.y > v.max_y
    <2> DEFINE n == v.y - v.max_y
               w == cio_scroll(v, n)
    <2>1. n \in Nat
      BY <1>1 DEF Framed
    <2>2. /\ Framed(w) /\ w.min_x = v.min_x /\ w.min_y = v.min_y
          /\ w.max_x = v.max_x /\ w.max_y = v.max_y /\ w.dup = v.dup
      BY <2>1, ScrollFrame
    <2>3. Settled(v) = [w EXCEPT !.y = v.max_y]
      BY <1>1 DEF Settled
    <2> HIDE DEF w
    <2>4. QED BY <2>2, <2>3 DEF Framed, Fields
  <1>2. CASE ~(v.y > v.max_y)
    <2>1. Settled(v) = v
      BY <1>2 DEF Settled
    <2>2. v.y <= v.max_y
      BY <1>2 DEF Framed
    <2>3. QED BY <2>1, <2>2
  <1>3. QED BY <1>1, <1>2

LEMMA PutcharFrame ==
  ASSUME NEW v, Framed(v), NEW c
  PROVE  Framed(cio_putchar(v, c))
  <1> DEFINE s == Settled(v)
  <1>1. Framed(s) /\ s.y <= s.max_y
    BY SettledFrame
  <1>2. CASE c = NL
    <2> DEFINE w == Erased(s, s.x, s.y, s.max_x)
    <2>1. SameFrame(s, w)
      BY <1>1, WritesKeepFrame
    <2>2. cio_putchar(v, c) = [w EXCEPT !.x = s.min_x, !.y = @ + 1]
      BY <1>2 DEF cio_putchar, NL, CR
    <2> HIDE DEF w, s
    <2>3. QED BY <1>1, <2>1, <2>2 DEF Framed, SameFrame, Fields
  <1>3. CASE c = CR
    <2>1. cio_putchar(v, c) = [s EXCEPT !.x = s.min_x]
      BY <1>3 DEF cio_putchar, NL, CR
    <2> HIDE DEF s
    <2>2. QED BY <1>1, <2>1 DEF Framed, Fields
  <1>4. CASE c # NL /\ c # CR
    <2> DEFINE w == putchar_at(s, s.x, s.y, c)
    <2>1. SameFrame(s, w)
      BY <1>1, WritesKeepFrame
    <2>2. cio_putchar(v, c) = Advanced(w)
      BY <1>4 DEF cio_putchar
    <2> HIDE DEF w, s
    <2>3. Framed(w) /\ w.y <= w.max_y
      BY <1>1, <2>1, FrameKept DEF SameFrame
    <2>4. QED BY <2>2, <2>3 DEF Advanced, Framed, Fields
  <1>5. QED BY <1>2, <1>3, <1>4

LEMMA Bounded ==
  ASSUME NEW a \in Nat, NEW b \in Nat, NEW x \in Nat, a <= b
  PROVE  bound(a, x, b) \in Nat /\ a <= bound(a, x, b) /\ bound(a, x, b) <= b
  BY DEF bound

LEMMA SetScrollFrame ==
  ASSUME NEW v, Framed(v), NEW r \in Regions
  PROVE  Framed(cio_setscroll(v, r))
  <1> DEFINE x0 == bound(0, r[1], MAX_X)
             y0 == bound(0, r[2], MAX_Y)
             x1 == bound(x0, r[3], MAX_X)
             y1 == bound(y0, r[4], MAX_Y)
  <1>1. /\ r[1] \in Nat /\ r[2] \in Nat /\ r[3] \in Nat /\ r[4] \in Nat
        /\ MAX_X \in Nat /\ MAX_Y \in Nat /\ 0 \in Nat /\ 0 <= MAX_X /\ 0 <= MAX_Y
    BY ConsoleAssumption
  <1>2. x0 \in Nat /\ x0 <= MAX_X /\ y0 \in Nat /\ y0 <= MAX_Y
    BY <1>1, Bounded
  <1> HIDE DEF x0, y0
  <1>3. x1 \in Nat /\ x0 <= x1 /\ x1 <= MAX_X /\ y1 \in Nat /\ y0 <= y1 /\ y1 <= MAX_Y
    BY <1>1, <1>2, Bounded
  <1>4. cio_setscroll(v, r) = [v EXCEPT !.min_x = x0, !.min_y = y0, !.max_x = x1,
                                        !.max_y = y1, !.x = x0, !.y = y0]
    BY DEF cio_setscroll, x0, y0
  <1> HIDE DEF x1, y1
  <1>5. QED BY <1>2, <1>3, <1>4 DEF Framed, Fields

LEMMA MoveToFrame ==
  ASSUME NEW v, Framed(v), NEW x \in Nat, NEW y \in Nat
  PROVE  /\ Framed(cio_moveto(v, x, y))
         /\ cio_moveto(v, x, y).min_x = v.min_x /\ cio_moveto(v, x, y).min_y = v.min_y
         /\ cio_moveto(v, x, y).max_x = v.max_x /\ cio_moveto(v, x, y).max_y = v.max_y
         /\ cio_moveto(v, x, y).cells = v.cells /\ cio_moveto(v, x, y).echo = v.echo
         /\ cio_moveto(v, x, y).dup = v.dup
         /\ cio_moveto(v, x, y).y <= v.max_y
  <1> DEFINE a == bound(v.min_x, x + v.min_x, v.max_x)
             b == bound(v.min_y, y + v.min_y, v.max_y)
  <1>1. /\ v.min_x \in Nat /\ v.max_x \in Nat /\ v.min_x <= v.max_x
        /\ v.min_y \in Nat /\ v.max_y \in Nat /\ v.min_y <= v.max_y
        /\ x + v.min_x \in Nat /\ y + v.min_y \in Nat
    BY DEF Framed
  <1>2. a \in Nat /\ v.min_x <= a /\ a <= v.max_x /\ b \in Nat /\ v.min_y <= b /\ b <= v.max_y
    BY <1>1, Bounded
  <1>3. cio_moveto(v, x, y) = [v EXCEPT !.x = a, !.y = b]
    BY DEF cio_moveto
  <1> HIDE DEF a, b
  <1>4. QED BY <1>1, <1>2, <1>3 DEF Framed, Fields

LEMMA NextFrame ==
  ASSUME Framed(video), [Next]_vars
  PROVE  Framed(video)'
  <1>1. CASE UNCHANGED video
    BY <1>1 DEF Framed
  <1>2. CASE PutNext \/ cio_getchar
    <2>1. UNCHANGED video \/ \E c : video' = cio_putchar(video, c)
      BY <1>2 DEF PutNext, cio_getchar
    <2>2. QED BY <1>1, <2>1, PutcharFrame
  <1>3. CASE PutNextAt
    <2>1. UNCHANGED video \/ \E x, y, c : video' = cio_putchar_at(video, x, y, c)
      BY <1>3 DEF PutNextAt
    <2>2. QED BY <1>1, <2>1, WritesKeepFrame, FrameKept
  <1>4. CASE SetScroll
    BY <1>4, SetScrollFrame DEF SetScroll
  <1>5. CASE MoveTo
    <2>1. PICK p \in Screen : video' = cio_moveto(video, p[1], p[2])
      BY <1>5 DEF MoveTo
    <2>2. p[1] \in Nat /\ p[2] \in Nat
      BY ConsoleAssumption DEF Screen
    <2>3. QED BY <2>1, <2>2, MoveToFrame
  <1>6. CASE Scroll
    BY <1>6, ScrollFrame, ConsoleAssumption DEF Scroll
  <1>7. CASE Clear
    BY <1>7, WritesKeepFrame, FrameKept DEF Clear
  <1>8. CASE cio_opt_set \/ cio_opt_clear
    BY <1>8 DEF cio_opt_set, cio_opt_clear, Framed, Fields
  <1>9. \/ UNCHANGED video \/ PutNext \/ cio_getchar \/ PutNextAt \/ SetScroll \/ MoveTo
        \/ Scroll \/ Clear \/ cio_opt_set \/ cio_opt_clear
    BY DEF Next, vars, cio_puts, cio_printf, cio_puts_at, cio_printf_at, PrintAt,
           keyboard_isr, Poll, Press, sys_read
  <1>10. QED BY <1>1, <1>2, <1>3, <1>4, <1>5, <1>6, <1>7, <1>8, <1>9

LEMMA InitFrame ==
  ASSUME Init
  PROVE  Framed(video)
  BY ConsoleAssumption DEF Init, Framed, Fields

\* Output never leaves the screen, for a region set anywhere and a cursor moved
\* anywhere.
THEOREM CursorStays == Spec => []CursorInRegion
  <1>1. ASSUME Framed(video)
        PROVE  CursorInRegion
    <2>1. ScrollRegion(video) \subseteq Screen
      BY <1>1, ConsoleAssumption DEF Framed, ScrollRegion, Screen
    <2>2. setcursor(video) \in ScrollRegion(video)
      BY <1>1 DEF Framed, ScrollRegion, setcursor
    <2>3. video.y \in video.min_y..(video.max_y + 1)
      BY <1>1 DEF Framed
    <2>4. QED BY <2>1, <2>2, <2>3 DEF CursorInRegion
  <1>2. QED BY <1>1, InitFrame, NextFrame, PTL DEF Spec

-----------------------------------------------------------------------------
(* The output is that of ConsoleSpec *)

\* The characters to be printed, and the screen, are what they should be.
OutInv ==
  /\ out \in [at : BOOLEAN, fmt : BOOLEAN, x : Nat, y : Nat, str : Seq(Nat)]
  /\ DOMAIN video.cells = Screen /\ video.cells = [p \in Screen |-> video.cells[p]]

USE DEF ScreenRegion, Column, Row

LEMMA Points ==
  ASSUME NEW p \in Screen
  PROVE  /\ p = <<p[1], p[2]>> /\ p[1] \in Nat /\ p[2] \in Nat
         /\ p[1] <= MAX_X /\ p[2] <= MAX_Y
  BY ConsoleAssumption DEF Screen

\* The page of the specification is the scrolling region of the screen.
LEMMA Pages ==
  ASSUME Framed(video), OutInv
  PROVE  /\ Output!Height = (video.max_y - video.min_y) + 1
         /\ Output!Width = (video.max_x - video.min_x) + 1
         /\ Output!Region = ScrollRegion(video)
         /\ Output!Height \in Nat /\ Output!Width \in Nat
         /\ \A pg : Output!Showing(pg) =
              [p \in Screen |-> IF p \in ScrollRegion(video)
                                THEN pg[(p[2] - video.min_y) + 1][(p[1] - video.min_x) + 1]
                                ELSE video.cells[p]]
  <1>1. /\ Output!Height = (video.max_y - video.min_y) + 1
        /\ Output!Width = (video.max_x - video.min_x) + 1
        /\ Output!Region = ScrollRegion(video)
    BY DEF Output!Height, Output!Width, Output!Region, ScrollRegion
  <1>2. Output!Height \in Nat /\ Output!Width \in Nat
    BY <1>1 DEF Framed
  <1>3. ASSUME NEW pg
        PROVE  Output!Showing(pg) =
                 [p \in Screen |-> IF p \in ScrollRegion(video)
                                   THEN pg[(p[2] - video.min_y) + 1][(p[1] - video.min_x) + 1]
                                   ELSE video.cells[p]]
    BY <1>1 DEF Output!Showing, OutInv
  <1>4. QED BY <1>1, <1>2, <1>3

\* Points of the region, as lines and columns of the page.
LEMMA RegionPoints ==
  ASSUME Framed(video), NEW p \in ScrollRegion(video)
  PROVE  /\ p \in Screen /\ p = <<p[1], p[2]>>
         /\ p[1] \in Nat /\ video.min_x <= p[1] /\ p[1] <= video.max_x
         /\ p[2] \in Nat /\ video.min_y <= p[2] /\ p[2] <= video.max_y
         /\ (p[2] - video.min_y) + 1 \in 1..((video.max_y - video.min_y) + 1)
         /\ (p[1] - video.min_x) + 1 \in 1..((video.max_x - video.min_x) + 1)
  <1>1. /\ p = <<p[1], p[2]>> /\ p[1] \in video.min_x..video.max_x /\ p[2] \in video.min_y..video.max_y
    BY DEF ScrollRegion
  <1>2. /\ p[1] \in Nat /\ video.min_x <= p[1] /\ p[1] <= video.max_x /\ p[1] <= MAX_X
        /\ p[2] \in Nat /\ video.min_y <= p[2] /\ p[2] <= video.max_y /\ p[2] <= MAX_Y
    BY <1>1, ConsoleAssumption DEF Framed
  <1>3. p \in Screen
    BY <1>1, <1>2, ConsoleAssumption DEF Screen
  <1>4. QED BY <1>1, <1>2, <1>3 DEF Framed

LEMMA PageShown ==
  ASSUME Framed(video), OutInv, NEW p \in ScrollRegion(video)
  PROVE  Output!page[(p[2] - video.min_y) + 1][(p[1] - video.min_x) + 1] = video.cells[p]
  <1> DEFINE i == (p[2] - video.min_y) + 1
             j == (p[1] - video.min_x) + 1
  <1>1. /\ i \in 1..Output!Height /\ j \in 1..Output!Width
        /\ p = <<p[1], p[2]>> /\ p[1] \in Nat /\ p[2] \in Nat
    BY RegionPoints, Pages
  <1>2. video.min_x + j - 1 = p[1] /\ video.min_y + i - 1 = p[2]
    <2>1. p[1] \in Nat /\ p[2] \in Nat /\ video.min_x \in Nat /\ video.min_y \in Nat
      BY <1>1 DEF Framed
    <2>2. QED BY <2>1
  <1> HIDE DEF i, j
  <1>3. Output!page[i][j] = video.cells[<<video.min_x + j - 1, video.min_y + i - 1>>]
    BY <1>1 DEF Output!page
  <1>4. QED BY <1>1, <1>2, <1>3 DEF i, j

LEMMA ScrolledShown ==
  ASSUME Framed(video), OutInv, NEW p \in ScrollRegion(video), NEW n \in Nat
  PROVE  Output!Scrolled(n)[(p[2] - video.min_y) + 1][(p[1] - video.min_x) + 1] =
           IF p[2] + n <= video.max_y THEN video.cells[<<p[1], p[2] + n>>] ELSE Blank
  <1> DEFINE i == (p[2] - video.min_y) + 1
             j == (p[1] - video.min_x) + 1
  <1>1. /\ i \in 1..Output!Height /\ j \in 1..Output!Width
        /\ p = <<p[1], p[2]>> /\ p[1] \in Nat /\ p[2] \in Nat
        /\ Output!Height = (video.max_y - video.min_y) + 1
        /\ video.min_x <= p[1] /\ p[1] <= video.max_x /\ video.min_y <= p[2]
    BY RegionPoints, Pages
  <1>2. Output!Scrolled(n)[i] =
          IF i + n <= Output!Height THEN Output!page[i + n] ELSE Output!BlankLine
    BY <1>1 DEF Output!Scrolled
  <1>3. Output!BlankLine[j] = Blank
    BY <1>1 DEF Output!BlankLine
  <1>4. i + n <= Output!Height <=> p[2] + n <= video.max_y
    BY <1>1 DEF Framed
  <1>5. ASSUME p[2] + n <= video.max_y
        PROVE  Output!page[i + n][j] = video.cells[<<p[1], p[2] + n>>]
    <2> DEFINE r == <<p[1], p[2] + n>>
    <2>1. r[1] = p[1] /\ r[2] = p[2] + n
      OBVIOUS
    <2>2. r \in ScrollRegion(video)
      BY <1>1, <1>5 DEF ScrollRegion, Framed
    <2>3. (r[2] - video.min_y) + 1 = i + n /\ (r[1] - video.min_x) + 1 = j
      BY <1>1, <2>1 DEF Framed
    <2> HIDE DEF r, i, j
    <2>4. QED BY <2>2, <2>3, PageShown DEF r
  <1> HIDE DEF i, j
  <1>6. QED BY <1>2, <1>3, <1>4, <1>5 DEF i, j

\* cio_scroll() shows the scrolled page.
LEMMA ScrollShown ==
  ASSUME Framed(video), OutInv, NEW n \in Nat
  PROVE  cio_scroll(video, n).cells = Output!Showing(Output!Scrolled(n))
  <1> DEFINE Up(p) == IF p \notin ScrollRegion(video) THEN video.cells[p]
                      ELSE IF p[2] + n <= video.max_y THEN video.cells[<<p[1], p[2] + n>>]
                      ELSE Blank
  <1>1. Output!Showing(Output!Scrolled(n)) = [p \in Screen |-> Up(p)]
    BY Pages, ScrolledShown
  <1>2. CASE n > video.max_y - video.min_y
    <2>1. ASSUME NEW p \in ScrollRegion(video)
          PROVE  ~(p[2] + n <= video.max_y)
      <3>1. p[2] \in Nat /\ video.min_y <= p[2]
        BY RegionPoints
      <3>2. QED BY <1>2, <3>1 DEF Framed
    <2>2. cio_scroll(video, n).cells =
            [p \in Screen |-> IF p \in ScrollRegion(video) THEN Blank ELSE video.cells[p]]
      BY <1>2 DEF cio_scroll, cio_clearscroll, Framed, Fields
    <2>3. QED BY <1>1, <2>1, <2>2
  <1>3. CASE ~(n > video.max_y - video.min_y)
    <2>1. cio_scroll(video, n).cells = [p \in Screen |-> Up(p)]
      BY <1>3 DEF cio_scroll, Framed, Fields
    <2>2. QED BY <1>1, <2>1
  <1>4. QED BY <1>2, <1>3

\* The delayed scrolling: the page and the line that the next output goes to.
LEMMA SettledShown ==
  ASSUME Framed(video), OutInv
  PROVE  /\ Settled(video).cells = Output!Showing(Output!Page)
         /\ Settled(video).echo = video.echo
         /\ (Settled(video).y - video.min_y) + 1 = Output!Line
         /\ Settled(video).x = video.x
         /\ Settled(video).cells = [p \in Screen |-> Settled(video).cells[p]]
         /\ DOMAIN Settled(video).cells = Screen
  <1> DEFINE v == video
             row == (v.y - v.min_y) + 1
  <1>0. /\ v.min_x \in Nat /\ v.max_x \in Nat /\ v.min_y \in Nat /\ v.max_y \in Nat /\ v.y \in Nat
        /\ v.min_y <= v.max_y /\ v.y <= v.max_y + 1 /\ DOMAIN v = Fields
        /\ v.y > v.max_y => v.x = v.min_x
    BY DEF Framed
  <1>1. /\ Output!Height = (v.max_y - v.min_y) + 1 /\ Output!Height \in Nat
        /\ row > Output!Height <=> v.y > v.max_y
        /\ row - Output!Height = v.y - v.max_y
    BY <1>0, Pages
  <1>2. /\ Output!Page = IF row > Output!Height THEN Output!Scrolled(row - Output!Height)
                         ELSE Output!page
        /\ Output!Line = IF row > Output!Height THEN Output!Height ELSE row
    BY DEF Output!Page, Output!Line
  <1> HIDE DEF row
  <1>3. CASE v.y > v.max_y
    <2> DEFINE n == v.y - v.max_y
               w == cio_scroll(v, n)
    <2>1. n \in Nat /\ n = 1
      BY <1>0, <1>3
    <2>2. w.cells = Output!Showing(Output!Scrolled(n))
      BY <2>1, ScrollShown
    <2>3. Settled(v) = [w EXCEPT !.y = v.max_y]
      BY <1>3 DEF Settled
    <2>4. DOMAIN w = Fields /\ w.echo = v.echo /\ w.x = v.x
      <3>1. Framed(w) /\ (n > v.max_y - v.min_y => w.x = v.min_x)
            /\ (~(n > v.max_y - v.min_y) => w.x = v.x)
        BY <2>1, ScrollFrame
      <3>2. w.echo = v.echo
        BY <1>0 DEF cio_scroll, cio_clearscroll, Fields
      <3>3. QED BY <1>0, <1>3, <3>1, <3>2 DEF Framed
    <2> HIDE DEF w
    <2>5. /\ Settled(v).cells = w.cells /\ Settled(v).echo = v.echo
          /\ Settled(v).y = v.max_y /\ Settled(v).x = v.x
      BY <2>3, <2>4 DEF Fields
    <2>6. Output!Page = Output!Scrolled(n) /\ Output!Line = Output!Height
      BY <1>1, <1>2, <1>3
    <2>7. QED BY <1>1, <2>2, <2>5, <2>6, Pages
  <1>4. CASE ~(v.y > v.max_y)
    <2>1. Settled(v) = v
      BY <1>4 DEF Settled
    <2>2. Output!Page = Output!page /\ Output!Line = row
      BY <1>1, <1>2, <1>4
    <2>3. Output!Showing(Output!page) = [p \in Screen |-> v.cells[p]]
      BY Pages, PageShown
    <2>4. QED BY <2>1, <2>2, <2>3 DEF OutInv, row
  <1>5. QED BY <1>3, <1>4

LEMMA EchoShown ==
  ASSUME NEW c \in Nat
  PROVE  Output!Echoed(c) = IF ISPRINT(c) THEN <<c>> ELSE Escape(c)
  <1>1. Output!Printable(c) <=> ISPRINT(c)
    BY DEF Output!Printable, ISPRINT
  <1>2. \A d \in Nat : Output!Hex(d) = hexdigit(d)
    BY DEF Output!Hex, hexdigit
  <1>3. c \div 16 \in Nat /\ c % 16 \in Nat
    OBVIOUS
  <1>4. QED BY <1>1, <1>2, <1>3 DEF Output!Echoed, Escape

\* Lines and columns of the page that the next output goes to.
LEMMA PageSize ==
  ASSUME Framed(video), OutInv
  PROVE  /\ DOMAIN Output!Page = 1..Output!Height
         /\ \A i \in 1..Output!Height : DOMAIN Output!Page[i] = 1..Output!Width
         /\ \A p \in Screen : Settled(video).cells[p] =
              IF p \in ScrollRegion(video)
              THEN Output!Page[(p[2] - video.min_y) + 1][(p[1] - video.min_x) + 1]
              ELSE video.cells[p]
  <1>1. DOMAIN Output!page = 1..Output!Height
        /\ \A i \in 1..Output!Height : DOMAIN Output!page[i] = 1..Output!Width
    BY DEF Output!page
  <1>2. ASSUME NEW n
        PROVE  DOMAIN Output!Scrolled(n) = 1..Output!Height
               /\ \A i \in 1..Output!Height : Output!Scrolled(n)[i] =
                    IF i + n <= Output!Height THEN Output!page[i + n] ELSE Output!BlankLine
    BY DEF Output!Scrolled
  <1>3. DOMAIN Output!BlankLine = 1..Output!Width
    BY DEF Output!BlankLine
  <1>4. ASSUME NEW n \in Nat, NEW i \in 1..Output!Height
        PROVE  DOMAIN Output!Scrolled(n)[i] = 1..Output!Width
    <2>1. i + n <= Output!Height => i + n \in 1..Output!Height
      BY Pages
    <2>2. QED BY <1>1, <1>2, <1>3, <2>1
  <1> DEFINE row == video.y - video.min_y + 1
  <1>5. row > Output!Height => row - Output!Height \in Nat
    BY Pages DEF Framed
  <1>6. Output!Page = IF row > Output!Height THEN Output!Scrolled(row - Output!Height)
                      ELSE Output!page
    BY DEF Output!Page
  <1> HIDE DEF row
  <1>7. DOMAIN Output!Page = 1..Output!Height
        /\ \A i \in 1..Output!Height : DOMAIN Output!Page[i] = 1..Output!Width
    BY <1>1, <1>2, <1>4, <1>5, <1>6
  <1>8. QED BY <1>7, Pages, SettledShown

\* The place of the cursor: on the screen and in the page.
LEMMA CursorPlace ==
  ASSUME Framed(video), OutInv
  PROVE  LET s == Settled(video)
             L == Output!Line
             C == (video.x - video.min_x) + 1
         IN  /\ s.x = video.x /\ s.x \in Nat /\ s.y \in Nat
             /\ L \in 1..Output!Height /\ C \in 1..Output!Width
             /\ L = (s.y - video.min_y) + 1
             /\ <<s.x, s.y>> \in ScrollRegion(video) /\ <<s.x, s.y>> \in Screen
             /\ (video.min_x + C) - 1 = s.x /\ (video.min_y + L) - 1 = s.y
             /\ \A p \in Screen : p \in ScrollRegion(video) =>
                  /\ (p[2] - video.min_y) + 1 = L <=> p[2] = s.y
                  /\ (p[1] - video.min_x) + 1 = C <=> p[1] = s.x
                  /\ (p[1] - video.min_x) + 1 < C <=> p[1] < s.x
  <1> DEFINE s == Settled(video)
             L == Output!Line
             C == (video.x - video.min_x) + 1
  <1>1. /\ Framed(s) /\ s.y <= s.max_y /\ s.min_x = video.min_x /\ s.min_y = video.min_y
        /\ s.max_x = video.max_x /\ s.max_y = video.max_y /\ s.x = video.x
        /\ L = (s.y - video.min_y) + 1
    BY SettledFrame, SettledShown
  <1> HIDE DEF s, L
  <1>2. /\ s.x \in Nat /\ s.y \in Nat /\ video.min_x \in Nat /\ video.max_x \in Nat
        /\ video.min_y \in Nat /\ video.max_y \in Nat
        /\ video.min_x <= s.x /\ s.x <= video.max_x /\ video.min_y <= s.y /\ s.y <= video.max_y
    BY <1>1 DEF Framed
  <1>3. L \in 1..Output!Height /\ C \in 1..Output!Width
    BY <1>1, <1>2, Pages
  <1>4. <<s.x, s.y>> \in ScrollRegion(video)
    BY <1>2 DEF ScrollRegion
  <1>5. <<s.x, s.y>> \in Screen
    BY <1>4, RegionPoints
  <1>6. (video.min_x + C) - 1 = s.x /\ (video.min_y + L) - 1 = s.y
    BY <1>1, <1>2
  <1>7. ASSUME NEW p \in Screen, p \in ScrollRegion(video)
        PROVE  /\ (p[2] - video.min_y) + 1 = L <=> p[2] = s.y
               /\ (p[1] - video.min_x) + 1 = C <=> p[1] = s.x
               /\ (p[1] - video.min_x) + 1 < C <=> p[1] < s.x
    <2>1. p[1] \in Nat /\ p[2] \in Nat
      BY Points
    <2>2. QED BY <1>1, <1>2, <2>1
  <1>8. QED BY <1>1, <1>2, <1>3, <1>4, <1>5, <1>6, <1>7 DEF s, L

LEMMA NewlineShown ==
  ASSUME Framed(video), OutInv
  PROVE  LET s == Settled(video)
         IN  Erased(s, s.x, s.y, s.max_x).cells =
               Output!Showing([Output!Page EXCEPT ![Output!Line] =
                  [j \in 1..Output!Width |->
                     IF j < (video.x - video.min_x) + 1 THEN @[j] ELSE Blank]])
  <1> DEFINE s == Settled(video)
             L == Output!Line
             C == (video.x - video.min_x) + 1
             line == [j \in 1..Output!Width |-> IF j < C THEN Output!Page[L][j] ELSE Blank]
             pg == [Output!Page EXCEPT ![L] = line]
  <1>1. /\ s.max_x = video.max_x /\ DOMAIN s = Fields /\ video.max_x \in Nat
        /\ video.min_x \in Nat /\ video.min_x <= s.x
    BY SettledFrame DEF Framed
  <1>2. Erased(s, s.x, s.y, s.max_x).cells =
          [p \in Screen |-> IF p[2] = s.y /\ p[1] \in s.x..video.max_x THEN Blank ELSE s.cells[p]]
    BY <1>1 DEF Erased, Fields
  <1>3. ASSUME NEW p \in Screen
        PROVE  (IF p[2] = s.y /\ p[1] \in s.x..video.max_x THEN Blank ELSE s.cells[p]) =
               (IF p \in ScrollRegion(video)
                THEN pg[(p[2] - video.min_y) + 1][(p[1] - video.min_x) + 1] ELSE video.cells[p])
    <2>1. /\ p = <<p[1], p[2]>> /\ p[1] \in Nat /\ p[2] \in Nat
          /\ s.x \in Nat /\ s.y \in Nat /\ L \in 1..Output!Height /\ C \in 1..Output!Width
      BY Points, CursorPlace
    <2>2. CASE p \notin ScrollRegion(video)
      <3>1. ~(p[2] = s.y /\ p[1] \in s.x..video.max_x)
        <4>1. <<s.x, s.y>> \in ScrollRegion(video)
          BY CursorPlace
        <4>2. s.y \in video.min_y..video.max_y
          BY <4>1 DEF ScrollRegion
        <4> HIDE DEF s
        <4>3. p[1] \in s.x..video.max_x => p[1] \in video.min_x..video.max_x
          BY <1>1, <2>1
        <4>4. QED BY <2>1, <2>2, <4>2, <4>3 DEF ScrollRegion
      <3>2. QED BY <2>2, <3>1, PageSize
    <2>3. CASE p \in ScrollRegion(video)
      <3> DEFINE i == (p[2] - video.min_y) + 1
                 j == (p[1] - video.min_x) + 1
      <3>1. i \in 1..Output!Height /\ j \in 1..Output!Width /\ p[1] <= video.max_x
        BY <2>3, Pages, RegionPoints
      <3>2. /\ i = L <=> p[2] = s.y
            /\ j < C <=> p[1] < s.x
        BY <2>3, CursorPlace
      <3>3. s.cells[p] = Output!Page[i][j]
        BY <2>3, PageSize
      <3>4. pg[i] = IF i = L THEN line ELSE Output!Page[i]
        BY <2>1, <3>1, PageSize
      <3>5. line[j] = IF j < C THEN Output!Page[L][j] ELSE Blank
        BY <3>1
      <3> HIDE DEF pg, line, i, j, s, L, C
      <3>6. p[1] \in s.x..video.max_x <=> ~(p[1] < s.x)
        BY <1>1, <2>1, <3>1
      <3>7. pg[i][j] = IF p[2] = s.y /\ p[1] \in s.x..video.max_x THEN Blank ELSE s.cells[p]
        BY <3>2, <3>3, <3>4, <3>5, <3>6
      <3>8. QED BY <2>3, <3>7 DEF i, j
    <2>4. QED BY <2>2, <2>3
  <1> HIDE DEF pg
  <1>4. Output!Showing(pg) = [p \in Screen |-> IF p \in ScrollRegion(video)
               THEN pg[(p[2] - video.min_y) + 1][(p[1] - video.min_x) + 1] ELSE video.cells[p]]
    BY Pages
  <1>5. Erased(s, s.x, s.y, s.max_x).cells = Output!Showing(pg)
    BY <1>2, <1>3, <1>4
  <1>6. QED BY <1>5 DEF pg

LEMMA CharacterShown ==
  ASSUME Framed(video), OutInv, NEW c
  PROVE  LET s == Settled(video)
         IN  putchar_at(s, s.x, s.y, c).cells =
               Output!Showing([Output!Page EXCEPT
                                 ![Output!Line][(video.x - video.min_x) + 1] = c])
  <1> DEFINE s == Settled(video)
             L == Output!Line
             C == (video.x - video.min_x) + 1
             line == [Output!Page[L] EXCEPT ![C] = c]
             pg == [Output!Page EXCEPT ![L] = line]
  <1>1. DOMAIN s = Fields /\ <<s.x, s.y>> \in Screen
    BY SettledFrame, CursorPlace DEF Framed
  <1>2. putchar_at(s, s.x, s.y, c).cells = [s.cells EXCEPT ![<<s.x, s.y>>] = c]
    BY <1>1 DEF putchar_at, Fields
  <1>3. DOMAIN s.cells = Screen
    BY SettledShown
  <1>4. ASSUME NEW p \in Screen
        PROVE  (IF p = <<s.x, s.y>> THEN c ELSE s.cells[p]) =
               (IF p \in ScrollRegion(video)
                THEN pg[(p[2] - video.min_y) + 1][(p[1] - video.min_x) + 1] ELSE video.cells[p])
    <2>1. /\ p = <<p[1], p[2]>> /\ <<s.x, s.y>> \in ScrollRegion(video)
          /\ L \in 1..Output!Height /\ C \in 1..Output!Width
      BY Points, CursorPlace
    <2>2. CASE p \notin ScrollRegion(video)
      <3>1. p # <<s.x, s.y>>
        BY <2>1, <2>2
      <3>2. QED BY <2>2, <3>1, PageSize
    <2>3. CASE p \in ScrollRegion(video)
      <3> DEFINE i == (p[2] - video.min_y) + 1
                 j == (p[1] - video.min_x) + 1
      <3>1. i \in 1..Output!Height /\ j \in 1..Output!Width
        BY <2>3, Pages, RegionPoints
      <3>2. /\ i = L <=> p[2] = s.y
            /\ j = C <=> p[1] = s.x
        BY <2>3, CursorPlace
      <3>3. s.cells[p] = Output!Page[i][j]
        BY <2>3, PageSize
      <3>4. pg[i] = IF i = L THEN line ELSE Output!Page[i]
        BY <2>1, <3>1, PageSize
      <3>5. line[j] = IF j = C THEN c ELSE Output!Page[L][j]
        BY <2>1, <3>1, PageSize
      <3> HIDE DEF pg, line, i, j, s, L, C
      <3>6. p = <<s.x, s.y>> <=> p[1] = s.x /\ p[2] = s.y
        BY <2>1
      <3>7. pg[i][j] = IF p = <<s.x, s.y>> THEN c ELSE s.cells[p]
        BY <3>2, <3>3, <3>4, <3>5, <3>6
      <3>8. QED BY <2>3, <3>7 DEF i, j
    <2>4. QED BY <2>2, <2>3
  <1>5. Output!Showing(pg) = [p \in Screen |-> IF p \in ScrollRegion(video)
               THEN pg[(p[2] - video.min_y) + 1][(p[1] - video.min_x) + 1] ELSE video.cells[p]]
    <2> HIDE DEF pg
    <2>1. QED BY Pages
  <1>6. [s.cells EXCEPT ![<<s.x, s.y>>] = c] =
          [p \in Screen |-> IF p = <<s.x, s.y>> THEN c ELSE s.cells[p]]
    <2> DEFINE cells == s.cells
    <2> HIDE DEF cells
    <2>1. [cells EXCEPT ![<<s.x, s.y>>] = c] =
            [p \in DOMAIN cells |-> IF p = <<s.x, s.y>> THEN c ELSE cells[p]]
      OBVIOUS
    <2>2. QED BY <1>3, <2>1 DEF cells
  <1> HIDE DEF pg
  <1>7. putchar_at(s, s.x, s.y, c).cells = Output!Showing(pg)
    BY <1>2, <1>4, <1>5, <1>6
  <1>8. QED BY <1>7 DEF pg

\* cio_putchar() appends a character, starts a line or goes back to its start.
LEMMA PutcharShown ==
  ASSUME Framed(video), OutInv, NEW c \in Nat, video' = cio_putchar(video, c)
  PROVE  /\ Output!Character \/ Output!Newline \/ Output!CarriageReturn
         /\ \E pg : video'.cells = Output!Showing(pg)
  <1> DEFINE s == Settled(video)
             L == Output!Line
             C == (video.x - video.min_x) + 1
  <1>1. /\ Framed(s) /\ s.min_x = video.min_x /\ s.min_y = video.min_y
        /\ s.max_x = video.max_x /\ s.max_y = video.max_y /\ s.dup = video.dup
        /\ s.echo = video.echo /\ s.x = video.x /\ L = (s.y - video.min_y) + 1
        /\ s.cells = Output!Showing(Output!Page) /\ <<s.x, s.y>> \in Screen
        /\ <<s.x, s.y>> \in ScrollRegion(video)
        /\ (video.min_x + C) - 1 = s.x /\ (video.min_y + L) - 1 = s.y
    BY SettledFrame, SettledShown, CursorPlace
  <1>2. /\ s.x \in Nat /\ s.y \in Nat /\ video.min_x \in Nat /\ video.max_x \in Nat
        /\ video.min_y \in Nat /\ video.min_x <= s.x /\ s.x <= video.max_x
        /\ Output!Width = (video.max_x - video.min_x) + 1 /\ DOMAIN s = Fields
    BY <1>1, Pages DEF Framed
  <1>3. CASE c = NL
    <2> DEFINE w == Erased(s, s.x, s.y, s.max_x)
    <2>1. SameFrame(s, w)
      BY <1>1, WritesKeepFrame
    <2>2. video' = [w EXCEPT !.x = s.min_x, !.y = @ + 1]
      BY <1>3 DEF cio_putchar, NL, CR
    <2>3. w.echo = s.echo
      BY <1>2 DEF Erased, Fields
    <2>4. w.cells = Output!Showing([Output!Page EXCEPT ![Output!Line] =
                     [j \in 1..Output!Width |-> IF j < C THEN @[j] ELSE Blank]])
      BY NewlineShown
    <2> HIDE DEF w, s
    <2>5. /\ video'.cells = w.cells /\ video'.echo = video.echo /\ video'.dup = video.dup
          /\ video'.x = video.min_x /\ video'.y = s.y + 1
          /\ video'.min_x = video.min_x /\ video'.max_x = video.max_x
          /\ video'.min_y = video.min_y /\ video'.max_y = video.max_y
      BY <1>1, <1>2, <2>1, <2>2, <2>3 DEF SameFrame, Fields
    <2>6. (video'.x - video'.min_x) + 1 = 1 /\ (video'.y - video'.min_y) + 1 = L + 1
      BY <1>1, <1>2, <2>5
    <2>7. Output!Newline
      BY <2>4, <2>5, <2>6 DEF Output!Newline
    <2>8. QED BY <2>4, <2>5, <2>7
  <1>4. CASE c = CR
    <2>1. video' = [s EXCEPT !.x = s.min_x]
      BY <1>4 DEF cio_putchar, NL, CR
    <2> HIDE DEF s
    <2>2. /\ video'.cells = s.cells /\ video'.echo = video.echo /\ video'.dup = video.dup
          /\ video'.x = video.min_x /\ video'.y = s.y
          /\ video'.min_x = video.min_x /\ video'.max_x = video.max_x
          /\ video'.min_y = video.min_y /\ video'.max_y = video.max_y
      BY <1>1, <1>2, <2>1 DEF Fields
    <2>3. (video'.x - video'.min_x) + 1 = 1 /\ (video'.y - video'.min_y) + 1 = L
      BY <1>1, <1>2, <2>2
    <2>4. Output!CarriageReturn
      BY <1>1, <2>2, <2>3 DEF Output!CarriageReturn
    <2>5. QED BY <1>1, <2>2, <2>4
  <1>5. CASE c # NL /\ c # CR
    <2> DEFINE w == putchar_at(s, s.x, s.y, c)
    <2>1. SameFrame(s, w)
      BY <1>1, WritesKeepFrame
    <2>2. video' = Advanced(w)
      BY <1>5 DEF cio_putchar
    <2>3. w.echo = IF video.dup THEN video.echo \o Output!Echoed(c) ELSE video.echo
      <3>1. ScrollRegion(s) = ScrollRegion(video)
        BY <1>1 DEF ScrollRegion
      <3>2. w.echo = IF s.dup /\ <<s.x, s.y>> \in ScrollRegion(s)
                     THEN s.echo \o (IF ISPRINT(c) THEN <<c>> ELSE Escape(c)) ELSE s.echo
        BY <1>1, <1>2 DEF putchar_at, Fields
      <3>3. QED BY <1>1, <3>1, <3>2, EchoShown
    <2>4. w.cells = Output!Showing([Output!Page EXCEPT ![Output!Line][C] = c])
      BY CharacterShown
    <2>5. w.cells[<<s.x, s.y>>] = c
      <3>1. w.cells = [s.cells EXCEPT ![<<s.x, s.y>>] = c]
        BY <1>1, <1>2 DEF putchar_at, Fields
      <3>2. DOMAIN s.cells = Screen
        BY SettledShown
      <3>3. QED BY <1>1, <3>1, <3>2
    <2> HIDE DEF w, s
    <2>6. /\ video'.cells = w.cells /\ video'.echo = w.echo /\ video'.dup = video.dup
          /\ video'.x = IF s.x + 1 > video.max_x THEN video.min_x ELSE s.x + 1
          /\ video'.y = IF s.x + 1 > video.max_x THEN s.y + 1 ELSE s.y
          /\ video'.min_x = video.min_x /\ video'.max_x = video.max_x
          /\ video'.min_y = video.min_y /\ video'.max_y = video.max_y
      BY <1>1, <1>2, <2>1, <2>2 DEF SameFrame, Advanced, Fields
    <2>7. s.x + 1 > video.max_x <=> C = Output!Width
      BY <1>1, <1>2
    <2>8. /\ (video'.x - video'.min_x) + 1 = IF C = Output!Width THEN 1 ELSE C + 1
          /\ (video'.y - video'.min_y) + 1 = IF C = Output!Width THEN L + 1 ELSE L
      BY <1>1, <1>2, <2>6, <2>7
    <2>9. video.min_x + C - 1 = s.x /\ video.min_y + L - 1 = s.y
      BY <1>1, <1>2
    <2>10. video'.cells[<<video.min_x + C - 1, video.min_y + L - 1>>] = c
      BY <2>5, <2>6, <2>9
    <2>11. Output!Character
      BY <1>5, <2>3, <2>4, <2>6, <2>8, <2>10 DEF Output!Character
    <2>12. QED BY <2>4, <2>6, <2>11
  <1>6. QED BY <1>3, <1>4, <1>5

\* cio_putchar_at() changes one line, in the region or outside it.
LEMMA PutcharAtShown ==
  ASSUME Framed(video), OutInv, NEW x \in Nat, NEW y \in Nat, NEW c \in Nat,
         video' = cio_putchar_at(video, x, y, c)
  PROVE  Output!WriteAt /\ DOMAIN video'.cells = Screen
         /\ video'.cells = [p \in Screen |-> video'.cells[p]]
  <1> DEFINE changed == {p \in DOMAIN video.cells : video'.cells[p] # video.cells[p]}
  <1>1. /\ SameFrame(video, video') /\ DOMAIN video = Fields /\ DOMAIN video.cells = Screen
        /\ video.cells = [p \in Screen |-> video.cells[p]]
    BY WritesKeepFrame DEF Framed, OutInv
  <1>2. /\ video.min_x \in Nat /\ video.max_x \in Nat /\ video.min_y \in Nat
        /\ video.max_y \in Nat /\ video.max_x <= MAX_X
        /\ MAX_X \in Nat
    BY ConsoleAssumption DEF Framed
  <1>3. ASSUME NEW ch, changed \subseteq ch, ch \subseteq Screen, \A p \in ch : p[2] = y,
               ch \subseteq ScrollRegion(video) \/ ch \cap ScrollRegion(video) = {},
               \/ video'.echo = video.echo
               \/ video.dup /\ \E p \in ScrollRegion(video) :
                    video'.echo = video.echo \o Output!Echoed(video'.cells[p])
        PROVE  Output!WriteAt
    <2>1. Output!Region = ScrollRegion(video)
      BY Pages
    <2>2. /\ video'.min_x = video.min_x /\ video'.max_x = video.max_x /\ video'.dup = video.dup
          /\ video'.min_y = video.min_y /\ video'.max_y = video.max_y
          /\ video'.x = video.x /\ video'.y = video.y
      BY <1>1 DEF SameFrame
    <2>3. \A p, q \in changed : p[2] = q[2]
      BY <1>3
    <2>4. changed \subseteq ScrollRegion(video) \/ changed \cap ScrollRegion(video) = {}
      BY <1>3
    <2>5. QED BY <1>3, <2>1, <2>2, <2>3, <2>4 DEF Output!WriteAt
  <1>4. CASE c # NL
    <2>1. video' = putchar_at(video, x, y, c)
      BY <1>4 DEF cio_putchar_at
    <2>2. CASE <<x, y>> \notin Screen
      <3>1. video' = video
        BY <2>1, <2>2 DEF putchar_at
      <3>2. changed = {}
        BY <3>1
      <3>3. Output!WriteAt
        BY <1>3, <3>1, <3>2
      <3>4. QED BY <1>1, <3>1, <3>3
    <2>3. CASE <<x, y>> \in Screen
      <3> DEFINE e == IF video.dup /\ <<x, y>> \in ScrollRegion(video)
                      THEN video.echo \o (IF ISPRINT(c) THEN <<c>> ELSE Escape(c))
                      ELSE video.echo
      <3>1. /\ video'.cells = [video.cells EXCEPT ![<<x, y>>] = c] /\ video'.echo = e
        BY <1>1, <2>1, <2>3 DEF putchar_at, Fields
      <3>2. /\ DOMAIN video'.cells = Screen /\ video'.cells[<<x, y>>] = c
            /\ video'.cells = [p \in Screen |-> video'.cells[p]]
            /\ \A p \in Screen : p # <<x, y>> => video'.cells[p] = video.cells[p]
        BY <1>1, <2>3, <3>1
      <3>3. \/ video'.echo = video.echo
            \/ video.dup /\ \E p \in ScrollRegion(video) :
                 video'.echo = video.echo \o Output!Echoed(video'.cells[p])
        <4>1. CASE video.dup /\ <<x, y>> \in ScrollRegion(video)
          <5>1. video'.echo = video.echo \o Output!Echoed(video'.cells[<<x, y>>])
            BY <3>1, <3>2, <4>1, EchoShown
          <5>2. QED BY <4>1, <5>1
        <4>2. QED BY <3>1, <4>1
      <3>4. changed \subseteq {<<x, y>>} /\ {<<x, y>>} \subseteq Screen
        BY <1>1, <2>3, <3>2
      <3>5. \A p \in {<<x, y>>} : p[2] = y
        OBVIOUS
      <3>6. {<<x, y>>} \subseteq ScrollRegion(video) \/ {<<x, y>>} \cap ScrollRegion(video) = {}
        OBVIOUS
      <3>7. Output!WriteAt
        BY <1>3, <3>3, <3>4, <3>5, <3>6
      <3>8. QED BY <3>2, <3>7
    <2>4. QED BY <2>2, <2>3
  <1>5. CASE c = NL
    <2> DEFINE limit == IF x > video.max_x THEN MAX_X
                        ELSE IF x >= video.min_x THEN video.max_x ELSE video.min_x - 1
               ch == {p \in Screen : p[2] = y /\ p[1] \in x..limit}
    <2>1. video' = Erased(video, x, y, limit)
      BY <1>5 DEF cio_putchar_at
    <2>2. /\ video'.cells = [p \in Screen |-> IF p[2] = y /\ p[1] \in x..limit
                                              THEN Blank ELSE video.cells[p]]
          /\ video'.echo = video.echo
      <3> HIDE DEF limit
      <3>1. QED BY <1>1, <2>1 DEF Erased, Fields
    <2>3. changed \subseteq ch
      <3> HIDE DEF limit
      <3>1. QED BY <1>1, <2>2
    <2>4. ch \subseteq ScrollRegion(video) \/ ch \cap ScrollRegion(video) = {}
      <3>1. ASSUME NEW p \in ch
            PROVE  /\ p = <<p[1], p[2]>> /\ p[1] \in Nat /\ p[2] \in Nat /\ p[2] = y
                   /\ x <= p[1] /\ p[1] <= limit
        <4>1. p \in Screen /\ p[2] = y /\ p[1] \in x..limit
          OBVIOUS
        <4>2. p = <<p[1], p[2]>> /\ p[1] \in Nat /\ p[2] \in Nat
          BY <4>1, Points
        <4>3. limit \in Int
          BY <1>2
        <4> HIDE DEF limit
        <4>4. QED BY <4>1, <4>2, <4>3
      <3>2. ASSUME NEW p
            PROVE  p \in ScrollRegion(video) <=>
                     /\ p = <<p[1], p[2]>> /\ p[1] \in video.min_x..video.max_x
                     /\ p[2] \in video.min_y..video.max_y
        BY DEF ScrollRegion
      <3>3. CASE x \in video.min_x..video.max_x /\ y \in video.min_y..video.max_y
        <4>1. limit = video.max_x
          BY <1>2, <3>3
        <4> HIDE DEF limit
        <4>2. ASSUME NEW p \in ch
              PROVE  p \in ScrollRegion(video)
          <5>1. p[1] \in video.min_x..video.max_x
            <6>1. p[1] \in Nat /\ x <= p[1] /\ p[1] <= video.max_x
              BY <3>1, <4>1
            <6> HIDE DEF ch
            <6>2. QED BY <1>2, <3>3, <6>1
          <5>2. QED BY <3>1, <3>2, <3>3, <5>1
        <4>3. QED BY <4>2
      <3>4. CASE ~(y \in video.min_y..video.max_y)
        BY <3>1, <3>2, <3>4
      <3>5. CASE ~(x \in video.min_x..video.max_x)
        <4>1. x > video.max_x \/ (x < video.min_x /\ limit = video.min_x - 1)
          BY <1>2, <3>5
        <4> HIDE DEF limit
        <4>2. ASSUME NEW p \in ch
              PROVE  p[1] \notin video.min_x..video.max_x
          <5>1. p[1] \in Nat /\ x <= p[1] /\ p[1] <= limit
            BY <3>1
          <5> HIDE DEF ch
          <5>2. QED BY <1>2, <4>1, <5>1
        <4>3. QED BY <3>2, <4>2
      <3>6. QED BY <3>3, <3>4, <3>5
    <2>5. ch \subseteq Screen /\ \A p \in ch : p[2] = y
      OBVIOUS
    <2> HIDE DEF ch, limit
    <2>6. Output!WriteAt
      BY <1>3, <2>2, <2>3, <2>4, <2>5
    <2>7. QED BY <2>2, <2>6
  <1>6. QED BY <1>4, <1>5

LEMMA ScrollRefines ==
  ASSUME Framed(video), OutInv, NEW n \in Nat, video' = cio_scroll(video, n)
  PROVE  Output!Scroll /\ \E pg : video'.cells = Output!Showing(pg)
  <1> DEFINE H == Output!Height
  <1>1. /\ H = (video.max_y - video.min_y) + 1 /\ H \in Nat
        /\ video.max_y \in Nat /\ video.min_y \in Nat /\ video.min_x \in Nat
    BY Pages DEF Framed
  <1>2. video'.cells = Output!Showing(Output!Scrolled(n))
    BY ScrollShown
  <1>3. /\ video'.min_x = video.min_x /\ video'.min_y = video.min_y
        /\ video'.max_x = video.max_x /\ video'.max_y = video.max_y /\ video'.dup = video.dup
        /\ IF n > video.max_y - video.min_y
           THEN video'.x = video.min_x /\ video'.y = video.min_y
           ELSE video'.x = video.x /\ video'.y = video.y
    BY ScrollFrame
  <1>4. video'.echo = video.echo
    BY DEF cio_scroll, cio_clearscroll, Framed, Fields
  <1>5. CASE n > video.max_y - video.min_y
    <2>1. \A i \in 1..H : ~(i + n <= H) /\ ~(i + H <= H)
      BY <1>1, <1>5
    <2>2. Output!Scrolled(H) = Output!Scrolled(n)
      BY <2>1 DEF Output!Scrolled
    <2>3. video'.x - video'.min_x + 1 = 1 /\ video'.y - video'.min_y + 1 = 1
      BY <1>1, <1>3, <1>5
    <2>4. H \in 0..H /\ ~(H < H)
      BY <1>1
    <2> HIDE DEF H
    <2>5. Output!Scroll
      BY <1>2, <1>3, <1>4, <2>2, <2>3, <2>4 DEF Output!Scroll, H
    <2>6. QED BY <1>2, <2>5
  <1>6. CASE ~(n > video.max_y - video.min_y)
    <2>1. n \in 0..H /\ n < H
      BY <1>1, <1>6
    <2>2. Output!Scroll
      BY <1>2, <1>3, <1>4, <1>6, <2>1 DEF Output!Scroll
    <2>3. QED BY <1>2, <2>2
  <1>7. QED BY <1>5, <1>6

LEMMA ClearRefines ==
  ASSUME Framed(video), OutInv,
         video' = cio_clearscroll(video) \/ video' = cio_clearscreen(video)
  PROVE  /\ Output!ClearScroll \/ Output!ClearScreen
         /\ \E d : video'.cells = [p \in Screen |-> IF p \in d THEN Blank ELSE video.cells[p]]
  <1>1. SameFrame(video, video') /\ DOMAIN video = Fields /\ DOMAIN video.cells = Screen
    BY WritesKeepFrame DEF Framed, OutInv
  <1>2. video'.echo = video.echo
    BY <1>1 DEF cio_clearscroll, cio_clearscreen, Fields
  <1>3. CASE video' = cio_clearscroll(video)
    <2>1. video'.cells = [p \in Screen |-> IF p \in ScrollRegion(video) THEN Blank
                                           ELSE video.cells[p]]
      BY <1>1, <1>3 DEF cio_clearscroll, Fields
    <2>2. ASSUME NEW p \in ScrollRegion(video)
          PROVE  Output!BlankPage[(p[2] - video.min_y) + 1][(p[1] - video.min_x) + 1] = Blank
      <3>1. /\ (p[2] - video.min_y) + 1 \in 1..Output!Height
            /\ (p[1] - video.min_x) + 1 \in 1..Output!Width
        BY Pages, RegionPoints
      <3>2. QED BY <3>1 DEF Output!BlankPage, Output!BlankLine
    <2>3. video'.cells = Output!Showing(Output!BlankPage)
      BY <2>1, <2>2, Pages
    <2>4. Output!ClearScroll
      BY <1>1, <1>2, <2>3 DEF Output!ClearScroll, SameFrame
    <2>5. QED BY <2>1, <2>4
  <1>4. CASE video' = cio_clearscreen(video)
    <2>1. video'.cells = [p \in Screen |-> Blank]
      BY <1>1, <1>4 DEF cio_clearscreen, Fields
    <2>2. Output!ClearScreen
      BY <1>1, <1>2, <2>1 DEF Output!ClearScreen, SameFrame
    <2>3. video'.cells = [p \in Screen |-> IF p \in Screen THEN Blank ELSE video.cells[p]]
      BY <2>1
    <2>4. QED BY <2>2, <2>3
  <1>5. QED BY <1>3, <1>4

\* Every step of the console is a step of the specification or none.
LEMMA StepShown ==
  ASSUME Framed(video), OutInv, kbd \in Keyboards, [Next]_vars
  PROVE  [Output!Next]_(Output!vars) /\ OutInv'
  <1> DEFINE Outs == [at : BOOLEAN, fmt : BOOLEAN, x : Nat, y : Nat, str : Seq(Nat)]
  <1>1. out \in Outs
    BY DEF OutInv
  <1>2. ASSUME out' \in Outs, DOMAIN video'.cells = Screen,
               video'.cells = [p \in Screen |-> video'.cells[p]]
        PROVE  OutInv'
    BY <1>2 DEF OutInv
  <1>3. ASSUME NEW pg, video'.cells = Output!Showing(pg), out' \in Outs
        PROVE  OutInv'
    <2>1. DOMAIN video'.cells = Screen /\ video'.cells = [p \in Screen |-> video'.cells[p]]
      BY <1>3, Pages
    <2>2. QED BY <1>2, <1>3, <2>1
  <1>4. ASSUME UNCHANGED video, out' \in Outs
        PROVE  [Output!Next]_(Output!vars) /\ OutInv'
    <2>1. OutInv'
      BY <1>4 DEF OutInv
    <2>2. QED BY <1>4, <2>1 DEF Output!vars
  <1>5. CASE cio_puts \/ cio_printf
    <2>1. \E t \in Seq(Nat) : out' = [NoOutput EXCEPT !.str = t]
      BY <1>5, TextsAssumption DEF cio_puts, cio_printf
    <2>2. out' \in Outs
      <3>1. NoOutput \in Outs
        BY DEF NoOutput
      <3>2. PICK t \in Seq(Nat) : out' = [NoOutput EXCEPT !.str = t]
        BY <2>1
      <3>3. QED BY <3>1, <3>2
    <2>3. QED BY <1>4, <1>5, <2>2 DEF cio_puts, cio_printf
  <1>6. CASE cio_puts_at \/ cio_printf_at
    <2>1. \E t \in Seq(Nat), p \in Screen, b \in BOOLEAN :
            out' = [at |-> TRUE, fmt |-> b, x |-> p[1], y |-> p[2], str |-> t]
      BY <1>6, TextsAssumption DEF cio_puts_at, cio_printf_at, PrintAt
    <2>2. out' \in Outs
      BY <2>1, Points
    <2>3. QED BY <1>4, <1>6, <2>2 DEF cio_puts_at, cio_printf_at, PrintAt
  <1>7. CASE PutNext
    <2>1. /\ out.str \in Seq(Nat) /\ out.str # <<>> /\ video' = cio_putchar(video, Head(out.str))
          /\ out' = [out EXCEPT !.str = Tail(out.str)]
      BY <1>1, <1>7 DEF PutNext
    <2>2. Head(out.str) \in Nat /\ Tail(out.str) \in Seq(Nat)
      BY <2>1
    <2>3. out' \in Outs
      BY <1>1, <2>1, <2>2
    <2>4. QED BY <1>3, <2>1, <2>2, <2>3, PutcharShown DEF Output!Next
  <1>8. CASE PutNextAt
    <2> DEFINE c == Head(out.str)
    <2>1. out.str \in Seq(Nat) /\ out.str # <<>> /\ out.x \in Nat /\ out.y \in Nat
      BY <1>1, <1>8 DEF PutNextAt
    <2>2. c \in Nat /\ Tail(out.str) \in Seq(Nat) /\ video.min_x \in Nat
      BY SMTT(30), <2>1 DEF Framed
    <2>3. CASE out' = NoOutput /\ UNCHANGED video
      <3>1. out' \in Outs
        BY <2>3 DEF NoOutput
      <3>2. QED BY <1>4, <2>3, <3>1
    <2>4. CASE /\ video' = cio_putchar_at(video, out.x, out.y, c)
               /\ out' = [out EXCEPT
                    !.str = Tail(@),
                    !.x = IF out.fmt /\ c \in {NL, CR} THEN video.min_x ELSE @ + 1,
                    !.y = IF out.fmt /\ c = NL THEN @ + 1 ELSE @]
      <3> HIDE DEF c
      <3>1. out' \in Outs
        <4> DEFINE nx == IF out.fmt /\ c \in {NL, CR} THEN video.min_x ELSE out.x + 1
                   ny == IF out.fmt /\ c = NL THEN out.y + 1 ELSE out.y
        <4>1. nx \in Nat /\ ny \in Nat
          BY <2>1, <2>2
        <4>2. out' = [out EXCEPT !.str = Tail(out.str), !.x = nx, !.y = ny]
          BY <2>4
        <4> HIDE DEF nx, ny
        <4>3. QED BY <1>1, <2>2, <4>1, <4>2
      <3>2. /\ Output!WriteAt /\ DOMAIN video'.cells = Screen
            /\ video'.cells = [p \in Screen |-> video'.cells[p]]
        BY <2>1, <2>2, <2>4, PutcharAtShown
      <3>3. QED BY <1>2, <3>1, <3>2 DEF Output!Next
    <2>5. QED BY <1>8, <2>3, <2>4 DEF PutNextAt
  <1>9. CASE SetScroll
    <2>1. PICK r \in Regions : video' = cio_setscroll(video, r)
      BY <1>9 DEF SetScroll
    <2>2. /\ video'.x = video'.min_x /\ video'.y = video'.min_y
          /\ video'.cells = video.cells /\ video'.dup = video.dup /\ video'.echo = video.echo
      BY <2>1 DEF cio_setscroll, Framed, Fields
    <2>3. video'.min_x \in Nat /\ video'.min_y \in Nat
      <3>1. Framed(video')
        BY <2>1, SetScrollFrame
      <3>2. QED BY <3>1 DEF Framed
    <2>4. video'.x - video'.min_x + 1 = 1 /\ video'.y - video'.min_y + 1 = 1
      BY <2>2, <2>3
    <2>5. Output!SetScroll
      BY <2>2, <2>4 DEF Output!SetScroll
    <2>6. OutInv'
      BY <1>9, <2>2 DEF OutInv, SetScroll
    <2>7. QED BY <2>5, <2>6 DEF Output!Next
  <1>10. CASE MoveTo
    <2>1. PICK p \in Screen : video' = cio_moveto(video, p[1], p[2])
      BY <1>10 DEF MoveTo
    <2>2. /\ Framed(video') /\ video'.min_x = video.min_x /\ video'.min_y = video.min_y
          /\ video'.max_x = video.max_x /\ video'.max_y = video.max_y
          /\ video'.cells = video.cells /\ video'.echo = video.echo
          /\ video'.dup = video.dup /\ video'.y <= video.max_y
      BY <2>1, Points, MoveToFrame
    <2>3. /\ video'.x - video'.min_x + 1 \in 1..Output!Width
          /\ video'.y - video'.min_y + 1 \in 1..Output!Height
      BY <2>2, Pages DEF Framed
    <2>4. Output!MoveTo
      BY <2>2, <2>3 DEF Output!MoveTo
    <2>5. OutInv'
      BY <1>10, <2>2 DEF OutInv, MoveTo
    <2>6. QED BY <2>4, <2>5 DEF Output!Next
  <1>11. CASE Scroll
    <2>1. PICK n \in Nat : video' = cio_scroll(video, n)
      BY <1>11, ConsoleAssumption DEF Scroll
    <2>2. out' \in Outs
      BY <1>1, <1>11 DEF Scroll
    <2>3. QED BY <1>3, <2>1, <2>2, ScrollRefines DEF Output!Next
  <1>12. CASE Clear
    <2>1. /\ Output!ClearScroll \/ Output!ClearScreen
          /\ \E d : video'.cells = [p \in Screen |-> IF p \in d THEN Blank ELSE video.cells[p]]
      BY <1>12, ClearRefines DEF Clear
    <2>2. DOMAIN video'.cells = Screen /\ video'.cells = [p \in Screen |-> video'.cells[p]]
      BY <2>1
    <2>3. out' \in Outs
      BY <1>1, <1>12 DEF Clear
    <2>4. QED BY <1>2, <2>1, <2>2, <2>3 DEF Output!Next
  <1>13. CASE cio_opt_set \/ cio_opt_clear
    <2>1. UNCHANGED out /\ \E b : video' = [video EXCEPT !.dup = b]
      BY <1>13 DEF cio_opt_set, cio_opt_clear
    <2>2. /\ video'.min_x = video.min_x /\ video'.min_y = video.min_y
          /\ video'.max_x = video.max_x /\ video'.max_y = video.max_y
          /\ video'.cells = video.cells /\ video'.echo = video.echo
          /\ video'.x = video.x /\ video'.y = video.y
      BY <2>1 DEF Framed, Fields
    <2>3. Output!SetOption
      BY <2>2 DEF Output!SetOption
    <2>4. OutInv'
      BY <2>1, <2>2 DEF OutInv
    <2>5. QED BY <2>3, <2>4 DEF Output!Next
  <1>14. CASE cio_getchar
    <2> DEFINE c == kbd.buf[kbd.next_char]
    <2>1. c \in Nat
      BY KeyTaken
    <2>2. UNCHANGED out /\ (UNCHANGED video \/ video' = cio_putchar(video, c))
      BY <1>14 DEF cio_getchar
    <2>3. out' \in Outs
      BY <1>1, <2>2
    <2> HIDE DEF c
    <2>4. CASE UNCHANGED video
      BY <1>4, <2>3, <2>4
    <2>5. CASE video' = cio_putchar(video, c)
      BY <1>3, <2>1, <2>3, <2>5, PutcharShown DEF Output!Next
    <2>6. QED BY <2>2, <2>4, <2>5
  <1>15. CASE keyboard_isr \/ Poll \/ sys_read \/ UNCHANGED vars
    <2>1. UNCHANGED <<video, out>>
      BY <1>15 DEF keyboard_isr, Poll, Press, sys_read, vars
    <2>2. QED BY <1>1, <1>4, <2>1
  <1>16. QED BY <1>5, <1>6, <1>7, <1>8, <1>9, <1>10, <1>11, <1>12, <1>13, <1>14, <1>15 DEF Next

\* What cio.h promises of the output, but for the two promises that
\* ClearScrollHomes and NewlinesEchoed state, is what cio.c does, for a screen
\* and regions of any size: a character at a time, with its delayed scrolling, is
\* text appended to a page.
THEOREM ConsoleImplementsSpec == Spec => ImplementsConsoleSpec
  <1>1. ASSUME Init
        PROVE  Output!Init /\ OutInv
    BY <1>1 DEF Init, Output!Init, OutInv, NoOutput
  <1>2. Init => Framed(video) /\ KeyboardInv
    BY InitFrame, InitKeyboard DEF KeyboardInv
  <1>3. KeyboardInv /\ [Next]_vars => KeyboardInv'
    BY NextKeyboard DEF KeyboardInv
  <1>4. Framed(video) /\ OutInv /\ KeyboardInv /\ [Next]_vars
          => [Output!Next]_(Output!vars) /\ OutInv'
    BY StepShown DEF KeyboardInv
  <1>5. QED BY <1>1, <1>2, <1>3, <1>4, NextFrame, PTL
            DEF Spec, ImplementsConsoleSpec, Output!Spec
=============================================================================
