--------------------------- MODULE ConsoleProofs ---------------------------
(***************************************************************************)
(* Facts about the data of the console, for queues of every length and     *)
(* screens of every size.  The queue macros: a push appends to the         *)
(* contents, a pop takes their head, and empty and full mean what they     *)
(* say; all the arithmetic of the masked indices is confined to the first  *)
(* lemmas.  send(): it keeps the position on the screen, and what          *)
(* kernel_main does for the backspace key takes back the echo of a         *)
(* character.                                                              *)
(***************************************************************************)
EXTENDS TtyQueue, VgaText, SequenceTheorems, TLAPS

-----------------------------------------------------------------------------
(* The queue macros. *)

(* Masking, on the range the macros use it on: one length up or down.      *)
LEMMA MaskValue ==
  ASSUME NEW i \in Int, -TTYQ_BUF_LEN <= i, i < 2 * TTYQ_BUF_LEN
  PROVE  /\ Mask(i) \in Slot
         /\ i < 0 => Mask(i) = i + TTYQ_BUF_LEN
         /\ 0 <= i /\ i < TTYQ_BUF_LEN => Mask(i) = i
         /\ TTYQ_BUF_LEN <= i => Mask(i) = i - TTYQ_BUF_LEN
<1>1. CASE i < 0
  BY <1>1, QueueAssumption DEF Mask, Slot
<1>2. CASE 0 <= i /\ i < TTYQ_BUF_LEN
  BY <1>2, QueueAssumption DEF Mask, Slot
<1>3. CASE TTYQ_BUF_LEN <= i
  BY <1>3, QueueAssumption DEF Mask, Slot
<1>4. QED
  BY <1>1, <1>2, <1>3, QueueAssumption

(* The slot k places after slot t. *)
LEMMA MaskSum ==
  ASSUME NEW t \in Slot, NEW k \in 0 .. Capacity
  PROVE  Mask(t + k) = IF t + k < TTYQ_BUF_LEN THEN t + k ELSE t + k - TTYQ_BUF_LEN
BY MaskValue, QueueAssumption DEF Slot, Capacity

(* The number of characters as the distance from the tail to the head.     *)
LEMMA CharsValue ==
  ASSUME NEW q \in Queue
  PROVE  /\ TTYQ_CHARS(q) = IF q.head >= q.tail
                              THEN q.head - q.tail
                              ELSE q.head - q.tail + TTYQ_BUF_LEN
         /\ TTYQ_CHARS(q) \in 0 .. Capacity
         /\ TTYQ_LEFT(q) = Capacity - TTYQ_CHARS(q)
<1>1. /\ q.head \in Slot /\ q.tail \in Slot
      /\ TTYQ_BUF_LEN \in Nat \ {0}
  BY QueueAssumption DEF Queue
<1>2. /\ q.head - q.tail < 0 => TTYQ_CHARS(q) = q.head - q.tail + TTYQ_BUF_LEN
      /\ q.head - q.tail >= 0 => TTYQ_CHARS(q) = q.head - q.tail
  BY <1>1, MaskValue DEF TTYQ_CHARS, Slot
<1>3. /\ q.tail - q.head - 1 < 0 => TTYQ_LEFT(q) = q.tail - q.head - 1 + TTYQ_BUF_LEN
      /\ q.tail - q.head - 1 >= 0 => TTYQ_LEFT(q) = q.tail - q.head - 1
  BY <1>1, MaskValue DEF TTYQ_LEFT, Slot
<1>4. QED
  BY <1>1, <1>2, <1>3 DEF Slot, Capacity

(* The contents are a sequence of characters, within the capacity, and the *)
(* tests for an empty and for a full queue are tests of their length.      *)
LEMMA ContentsProperties ==
  ASSUME NEW q \in Queue
  PROVE  /\ Contents(q) \in Seq(Char)
         /\ Len(Contents(q)) = TTYQ_CHARS(q)
         /\ Len(Contents(q)) <= Capacity
         /\ TTYQ_EMPTY(q) <=> Contents(q) = << >>
         /\ TTYQ_FULL(q) <=> Len(Contents(q)) = Capacity
<1>1. /\ q.head \in Slot /\ q.tail \in Slot /\ q.buf \in [Slot -> Char]
      /\ TTYQ_BUF_LEN \in Nat \ {0}
  BY QueueAssumption DEF Queue
<1>2. TTYQ_CHARS(q) \in 0 .. Capacity
  BY CharsValue
<1>3. ASSUME NEW i \in 1 .. TTYQ_CHARS(q)
      PROVE  q.buf[Mask(q.tail + (i - 1))] \in Char
  <2>1. Mask(q.tail + (i - 1)) \in Slot
    BY <1>1, <1>2, MaskValue DEF Slot, Capacity
  <2>2. QED
    BY <2>1, <1>1
<1>4. Contents(q) \in [1 .. TTYQ_CHARS(q) -> Char]
  BY <1>3 DEF Contents
<1>5. /\ Contents(q) \in Seq(Char)
      /\ Len(Contents(q)) = TTYQ_CHARS(q)
  BY <1>2, <1>4
<1>6. TTYQ_EMPTY(q) <=> TTYQ_CHARS(q) = 0
  BY <1>1, CharsValue DEF TTYQ_EMPTY, Slot
<1>7. TTYQ_FULL(q) <=> TTYQ_CHARS(q) = Capacity
  BY <1>1, <1>2, CharsValue DEF TTYQ_FULL, Capacity
<1>8. QED
  BY <1>2, <1>5, <1>6, <1>7, EmptySeq DEF Capacity

(* The fields of a queue after a push, one at a time. *)
LEMMA PushFields ==
  ASSUME NEW q \in Queue, NEW c \in Char
  PROVE  /\ TTYQ_PUSH(q, c) \in Queue
         /\ TTYQ_PUSH(q, c).head = TTYQ_INC(q.head)
         /\ TTYQ_PUSH(q, c).tail = q.tail
         /\ TTYQ_PUSH(q, c).buf = [q.buf EXCEPT ![q.head] = c]
<1>1. TTYQ_INC(q.head) \in Slot
  BY MaskValue, QueueAssumption DEF Queue, Slot, TTYQ_INC
<1>2. QED
  BY <1>1 DEF TTYQ_PUSH, Queue

(* Pushing onto a queue with room appends to its contents. *)
LEMMA PushContents ==
  ASSUME NEW q \in Queue, NEW c \in Char, ~TTYQ_FULL(q)
  PROVE  Contents(TTYQ_PUSH(q, c)) = Append(Contents(q), c)
<1> DEFINE p == TTYQ_PUSH(q, c)
           n == TTYQ_CHARS(q)
<1>1. /\ q.head \in Slot /\ q.tail \in Slot /\ q.buf \in [Slot -> Char]
      /\ TTYQ_BUF_LEN \in Nat \ {0}
  BY QueueAssumption DEF Queue
<1>2. TTYQ_INC(q.head) = IF q.head = TTYQ_BUF_LEN - 1 THEN 0 ELSE q.head + 1
  BY <1>1, MaskValue DEF TTYQ_INC, Slot
<1>3. /\ p \in Queue
      /\ p.head = TTYQ_INC(q.head)
      /\ p.tail = q.tail
      /\ p.buf = [q.buf EXCEPT ![q.head] = c]
  BY PushFields
<1>4. /\ n = IF q.head >= q.tail THEN q.head - q.tail ELSE q.head - q.tail + TTYQ_BUF_LEN
      /\ n \in 0 .. Capacity
      /\ TTYQ_LEFT(q) = Capacity - n
  BY CharsValue
<1>5. n \in 0 .. Capacity - 1
  BY <1>1, <1>4 DEF TTYQ_FULL, Capacity
<1>6. TTYQ_CHARS(p) = n + 1
  <2>1. TTYQ_CHARS(p) = IF p.head >= p.tail THEN p.head - p.tail ELSE p.head - p.tail + TTYQ_BUF_LEN
    BY <1>3, CharsValue
  <2> HIDE DEF p, n
  <2>2. q.head \in 0 .. TTYQ_BUF_LEN - 1 /\ q.tail \in 0 .. TTYQ_BUF_LEN - 1
    BY <1>1 DEF Slot
  <2>3. CASE q.head = TTYQ_BUF_LEN - 1
    <3>1. p.head = 0
      BY <1>1, <1>2, <1>3, <2>3
    <3>2. n = TTYQ_BUF_LEN - 1 - q.tail
      BY <1>1, <1>4, <2>2, <2>3
    <3>3. QED
      BY <1>1, <1>3, <1>5, <2>1, <2>2, <3>1, <3>2 DEF Capacity
  <2>4. CASE q.head # TTYQ_BUF_LEN - 1
    <3>1. p.head = q.head + 1
      BY <1>1, <1>2, <1>3, <2>4
    <3>2. QED
      BY <1>1, <1>3, <1>4, <1>5, <2>1, <2>2, <2>4, <3>1 DEF Capacity
  <2>5. QED
    BY <2>3, <2>4
<1>7. ASSUME NEW i \in 1 .. n + 1
      PROVE  p.buf[Mask(q.tail + (i - 1))] = IF i = n + 1 THEN c ELSE q.buf[Mask(q.tail + (i - 1))]
  <2> HIDE DEF p, n
  <2>1. /\ Mask(q.tail + (i - 1)) \in Slot
        /\ Mask(q.tail + (i - 1)) = IF q.tail + (i - 1) < TTYQ_BUF_LEN
                                      THEN q.tail + (i - 1)
                                      ELSE q.tail + (i - 1) - TTYQ_BUF_LEN
    BY <1>1, <1>5, MaskValue DEF Slot, Capacity
  <2>2. Mask(q.tail + (i - 1)) = q.head <=> i = n + 1
    <3>1. q.head \in 0 .. TTYQ_BUF_LEN - 1 /\ q.tail \in 0 .. TTYQ_BUF_LEN - 1
      BY <1>1 DEF Slot
    <3>2. i \in Int /\ 1 <= i /\ i <= n + 1 /\ n \in Int /\ n <= TTYQ_BUF_LEN - 2
      BY <1>1, <1>5 DEF Capacity
    <3>3. CASE q.head >= q.tail
      BY <1>1, <1>4, <2>1, <3>1, <3>2, <3>3
    <3>4. CASE q.head < q.tail
      BY <1>1, <1>4, <2>1, <3>1, <3>2, <3>4
    <3>5. QED
      BY <3>1, <3>3, <3>4
  <2>3. QED
    BY <1>1, <1>3, <2>1, <2>2
<1>8. Contents(p) = [i \in 1 .. n + 1 |-> IF i = n + 1 THEN c ELSE q.buf[Mask(q.tail + (i - 1))]]
  <2> HIDE DEF p, n
  <2>1. QED
    BY <1>3, <1>6, <1>7 DEF Contents
<1>9. Append(Contents(q), c) = [i \in 1 .. n + 1 |-> IF i = n + 1 THEN c ELSE q.buf[Mask(q.tail + (i - 1))]]
  <2>1. /\ Contents(q) \in Seq(Char)
        /\ Len(Contents(q)) = n
    BY ContentsProperties
  <2>2. \A i \in 1 .. n : Contents(q)[i] = q.buf[Mask(q.tail + (i - 1))]
    BY DEF Contents
  <2> HIDE DEF p, n
  <2>3. /\ Append(Contents(q), c) \in Seq(Char)
        /\ Len(Append(Contents(q), c)) = n + 1
        /\ \A i \in 1 .. n : Append(Contents(q), c)[i] = Contents(q)[i]
        /\ Append(Contents(q), c)[n + 1] = c
    BY <2>1, AppendProperties
  <2>4. Append(Contents(q), c) = [i \in 1 .. n + 1 |-> Append(Contents(q), c)[i]]
    BY <2>3, LenProperties
  <2>5. QED
    BY <1>5, <2>2, <2>3, <2>4
<1>10. QED
  BY <1>8, <1>9

(* The fields of a queue after a pop. *)
LEMMA PopFields ==
  ASSUME NEW q \in Queue
  PROVE  /\ PopAdvance(q) \in Queue
         /\ PopAdvance(q).head = q.head
         /\ PopAdvance(q).tail = TTYQ_INC(q.tail)
         /\ PopAdvance(q).buf = q.buf
<1>1. TTYQ_INC(q.tail) \in Slot
  BY MaskValue, QueueAssumption DEF Queue, Slot, TTYQ_INC
<1>2. QED
  BY <1>1 DEF PopAdvance, Queue

(* Popping a queue that is not empty takes the head of its contents. *)
LEMMA PopContents ==
  ASSUME NEW q \in Queue, ~TTYQ_EMPTY(q)
  PROVE  /\ PopLoad(q) \in Char
         /\ Contents(q) # << >>
         /\ PopLoad(q) = Head(Contents(q))
         /\ Contents(PopAdvance(q)) = Tail(Contents(q))
<1> DEFINE p == PopAdvance(q)
           n == TTYQ_CHARS(q)
<1>1. /\ q.head \in Slot /\ q.tail \in Slot /\ q.buf \in [Slot -> Char]
      /\ TTYQ_BUF_LEN \in Nat \ {0}
  BY QueueAssumption DEF Queue
<1>2. TTYQ_INC(q.tail) = IF q.tail = TTYQ_BUF_LEN - 1 THEN 0 ELSE q.tail + 1
  BY <1>1, MaskValue DEF TTYQ_INC, Slot
<1>3. /\ p \in Queue
      /\ p.head = q.head
      /\ p.tail = TTYQ_INC(q.tail)
      /\ p.buf = q.buf
  BY PopFields
<1>4. /\ n = IF q.head >= q.tail THEN q.head - q.tail ELSE q.head - q.tail + TTYQ_BUF_LEN
      /\ n \in 0 .. Capacity
  BY CharsValue
<1>5. /\ Contents(q) \in Seq(Char)
      /\ Contents(q) # << >>
      /\ Len(Contents(q)) = n
  BY ContentsProperties
<1>6. n \in 1 .. Capacity
  <2> HIDE DEF n
  <2>1. QED
    BY <1>1, <1>4 DEF TTYQ_EMPTY, Slot, Capacity
<1>7. TTYQ_CHARS(p) = n - 1
  <2>1. TTYQ_CHARS(p) = IF p.head >= p.tail THEN p.head - p.tail ELSE p.head - p.tail + TTYQ_BUF_LEN
    BY <1>3, CharsValue
  <2> HIDE DEF p, n
  <2>2. CASE q.tail # TTYQ_BUF_LEN - 1
    <3>1. p.head = q.head /\ p.tail = q.tail + 1
      BY <1>2, <1>3, <2>2
    <3>2. /\ q.head \in Int /\ q.tail \in Int /\ TTYQ_BUF_LEN \in Int
          /\ n = IF q.head >= q.tail THEN q.head - q.tail ELSE q.head - q.tail + TTYQ_BUF_LEN
          /\ n >= 1
      BY <1>1, <1>4, <1>6 DEF Slot
    <3>3. n < TTYQ_BUF_LEN
      BY <1>1, <1>6 DEF Capacity
    <3> QED
      BY <2>1, <3>1, <3>2, <3>3
  <2>3. CASE q.tail = TTYQ_BUF_LEN - 1
    <3>1. p.head = q.head /\ p.tail = 0
      BY <1>2, <1>3, <2>3
    <3>2. q.head \in Int /\ 0 <= q.head /\ q.head <= q.tail /\ TTYQ_BUF_LEN \in Int
      BY <1>1, <2>3 DEF Slot
    <3>3. n = IF q.head = q.tail THEN 0 ELSE q.head + 1
      BY <1>4, <2>3, <3>2
    <3> QED
      BY <1>6, <2>1, <3>1, <3>2, <3>3
  <2>4. QED
    BY <2>2, <2>3
<1>8. \A i \in 1 .. n : Contents(q)[i] = q.buf[Mask(q.tail + (i - 1))]
  BY DEF Contents
<1>9. Head(Contents(q)) = PopLoad(q)
  <2> HIDE DEF n
  <2>1. Contents(q)[1] = q.buf[Mask(q.tail + (1 - 1))]
    BY <1>6, <1>8
  <2>2. Mask(q.tail + (1 - 1)) = q.tail
    BY <1>1, MaskValue DEF Slot
  <2>3. QED
    BY <1>5, <2>1, <2>2 DEF PopLoad
<1>10. ASSUME NEW i \in 1 .. n - 1
      PROVE  Mask(TTYQ_INC(q.tail) + (i - 1)) = Mask(q.tail + ((i + 1) - 1))
  <2> HIDE DEF n
  <2>1. Mask(q.tail + i) = IF q.tail + i < TTYQ_BUF_LEN
                                         THEN q.tail + i
                                         ELSE q.tail + i - TTYQ_BUF_LEN
    BY <1>1, <1>6, MaskSum DEF Capacity
  <2>2. Mask(TTYQ_INC(q.tail) + (i - 1)) = IF TTYQ_INC(q.tail) + (i - 1) < TTYQ_BUF_LEN
                                             THEN TTYQ_INC(q.tail) + (i - 1)
                                             ELSE (TTYQ_INC(q.tail) + (i - 1)) - TTYQ_BUF_LEN
    <3> DEFINE j == TTYQ_INC(q.tail) + (i - 1)
    <3>1. j \in Int /\ 0 <= j /\ j < 2 * TTYQ_BUF_LEN
      BY <1>1, <1>2, <1>6 DEF Slot, Capacity
    <3> HIDE DEF j
    <3>2. Mask(j) = IF j < TTYQ_BUF_LEN THEN j ELSE j - TTYQ_BUF_LEN
      BY <1>1, <3>1, MaskValue
    <3> QED
      BY <3>2 DEF j
  <2>3. (i + 1) - 1 = i
    OBVIOUS
  <2>4. QED
    BY <1>1, <1>2, <1>6, <2>1, <2>2, <2>3 DEF Slot, Capacity
<1>11. Contents(p) = [i \in 1 .. n - 1 |-> q.buf[Mask(q.tail + ((i + 1) - 1))]]
  <2> HIDE DEF p, n
  <2>1. QED
    BY <1>3, <1>7, <1>10 DEF Contents
<1>12. Tail(Contents(q)) = [i \in 1 .. n - 1 |-> q.buf[Mask(q.tail + ((i + 1) - 1))]]
  <2> HIDE DEF n
  <2>1. /\ Tail(Contents(q)) \in Seq(Char)
        /\ Len(Tail(Contents(q))) = n - 1
        /\ \A i \in 1 .. n - 1 : Tail(Contents(q))[i] = Contents(q)[i + 1]
    BY <1>5, <1>6, HeadTailProperties
  <2>2. Tail(Contents(q)) = [i \in 1 .. n - 1 |-> Tail(Contents(q))[i]]
    BY <2>1, LenProperties
  <2>3. QED
    BY <1>6, <1>8, <2>1, <2>2
<1>13. PopLoad(q) \in Char
  BY <1>1 DEF PopLoad
<1>14. QED
  BY <1>5, <1>9, <1>11, <1>12, <1>13

(* A zeroed queue is empty. *)
LEMMA ZeroQueueEmpty == ZeroQueue \in Queue /\ Contents(ZeroQueue) = << >>
<1>1. ZeroQueue \in Queue
  BY QueueAssumption DEF ZeroQueue, Queue, Slot
<1>2. TTYQ_EMPTY(ZeroQueue)
  BY DEF TTYQ_EMPTY, ZeroQueue
<1>3. QED
  BY <1>1, <1>2, ContentsProperties

(* A queue has room for at least one character. *)
LEMMA EmptyNotFull ==
  ASSUME NEW q \in Queue, TTYQ_EMPTY(q)
  PROVE  ~TTYQ_FULL(q)
<1>1. Contents(q) = << >> /\ (TTYQ_FULL(q) <=> Len(Contents(q)) = Capacity)
  BY ContentsProperties
<1>2. Capacity # 0
  BY QueueAssumption DEF Capacity
<1>3. QED
  BY <1>1, <1>2

-----------------------------------------------------------------------------
(* send(). *)

(* A position on the screen is a cell, and the last one belongs to the     *)
(* last position alone.                                                    *)
LEMMA IndexInCell ==
  ASSUME NEW x \in 0 .. width - 1, NEW y \in 0 .. height - 1
  PROVE  /\ Index(x, y) \in Cell
         /\ Index(x, y) = width * height - 1 <=> x = width - 1 /\ y = height - 1
<1>1. width \in Nat /\ height \in Nat /\ width > 0 /\ height > 0
  BY ScreenAssumption
<1>2. y * width \in Nat /\ (height - 1 - y) * width \in Nat
  BY <1>1
<1>3. width * height - 1 - (y * width + x) = (height - 1 - y) * width + (width - 1 - x)
  BY <1>1
<1>4. y # height - 1 => (height - 1 - y) * width > 0
  BY <1>1
<1>5. y = height - 1 => (height - 1 - y) * width = 0
  BY <1>1
<1>6. QED
  BY <1>1, <1>2, <1>3, <1>4, <1>5 DEF Index, Cell

(* The switch of send(), one case at a time. *)
LEMMA DrawCases ==
  ASSUME NEW s, NEW ch
  PROVE  /\ ch \in {BEL, ESC} => Draw(s, ch) = s
         /\ ch = BS => Draw(s, ch) = StepBack(s)
         /\ ch \in {FF, VT} => Draw(s, ch) = [s EXCEPT !.posy = @ + 1]
         /\ ch = NL => Draw(s, ch) = [blank_line(s, s.posx, s.posy) EXCEPT !.posx = width]
         /\ ch = CR => Draw(s, ch) = [clear_line(s, s.posy) EXCEPT !.posx = 0]
         /\ ch \notin {BEL, ESC, BS, FF, VT, NL, CR} =>
              Draw(s, ch) = [put(s, s.posx, s.posy, ch) EXCEPT !.posx = @ + 1]
<1> DEFINE back == StepBack(s)
           down == [s EXCEPT !.posy = @ + 1]
           line == [blank_line(s, s.posx, s.posy) EXCEPT !.posx = width]
           home == [clear_line(s, s.posy) EXCEPT !.posx = 0]
           next == [put(s, s.posx, s.posy, ch) EXCEPT !.posx = @ + 1]
<1>1. Draw(s, ch) = CASE ch \in {BEL, ESC} -> s
                      [] ch = BS           -> back
                      [] ch \in {FF, VT}   -> down
                      [] ch = NL           -> line
                      [] ch = CR           -> home
                      [] OTHER             -> next
  BY DEF Draw
<1> HIDE DEF back, down, line, home, next
<1>2. /\ BS \notin {BEL, ESC}
      /\ FF \notin {BEL, ESC, BS} /\ VT \notin {BEL, ESC, BS}
      /\ NL \notin {BEL, ESC, BS, FF, VT}
      /\ CR \notin {BEL, ESC, BS, FF, VT, NL}
  BY DEF BEL, ESC, BS, FF, VT, NL, CR
<1>3. /\ ch \in {BEL, ESC} => Draw(s, ch) = s
      /\ ch = BS => Draw(s, ch) = back
      /\ ch \in {FF, VT} => Draw(s, ch) = down
      /\ ch = NL => Draw(s, ch) = line
      /\ ch = CR => Draw(s, ch) = home
      /\ ch \notin {BEL, ESC, BS, FF, VT, NL, CR} => Draw(s, ch) = next
  BY <1>1, <1>2
<1>4. QED
  BY <1>3 DEF back, down, line, home, next

(* A screen is the record of its three fields. *)
LEMMA ScreenFields ==
  ASSUME NEW s \in Screen
  PROVE  /\ s = [vidmem |-> s.vidmem, posx |-> s.posx, posy |-> s.posy]
         /\ s.vidmem \in [Cell -> Glyph]
         /\ s.posx \in 0 .. width - 1
         /\ s.posy \in 0 .. height - 1
BY DEF Screen

(* A glyph goes to the cell at the position, which then moves on by one. *)
LEMMA DrawGlyph ==
  ASSUME NEW s \in Screen, NEW c \in Glyph
  PROVE  Draw(s, c) = [vidmem |-> [s.vidmem EXCEPT ![Position(s)] = c],
                       posx |-> s.posx + 1, posy |-> s.posy]
<1>1. c \notin {BEL, ESC, BS, FF, VT, NL, CR}
  BY ScreenAssumption DEF Control
<1>2. Draw(s, c) = [put(s, s.posx, s.posy, c) EXCEPT !.posx = @ + 1]
  BY <1>1, DrawCases
<1>3. put(s, s.posx, s.posy, c) = [s EXCEPT !.vidmem = [s.vidmem EXCEPT ![Position(s)] = c]]
  BY DEF put, Position
<1> DEFINE m == [s.vidmem EXCEPT ![Position(s)] = c]
<1> HIDE DEF m
<1>4. put(s, s.posx, s.posy, c) = [vidmem |-> m, posx |-> s.posx, posy |-> s.posy]
  BY <1>3, ScreenFields DEF m
<1>5. QED
  BY <1>2, <1>4 DEF m

(* The two steps of send() that set both coordinates. *)
LEMMA WrapRow ==
  ASSUME NEW r, NEW m, NEW x \in Int, NEW y \in Int, x >= width,
         r = [vidmem |-> m, posx |-> x, posy |-> y]
  PROVE  Wrap(r) = [vidmem |-> m, posx |-> 0, posy |-> y + 1]
<1>1. Wrap(r) = [r EXCEPT !.posx = 0, !.posy = r.posy + 1]
  BY DEF Wrap
<1>2. r.posy + 1 = y + 1
  OBVIOUS
<1>3. PICK p : p = [r EXCEPT !.posx = 0]
  OBVIOUS
<1>4. p = [vidmem |-> m, posx |-> 0, posy |-> y]
  BY <1>3
<1>5. [p EXCEPT !.posy = y + 1] = [vidmem |-> m, posx |-> 0, posy |-> y + 1]
  BY <1>4
<1>6. QED
  BY <1>1, <1>2, <1>3, <1>5

LEMMA StepUp ==
  ASSUME NEW r, NEW m, NEW y \in Int, y > 0,
         r = [vidmem |-> m, posx |-> 0, posy |-> y]
  PROVE  StepBack(r) = [vidmem |-> m, posx |-> width - 1, posy |-> y - 1]
<1>1. r.posx = 0 /\ r.posy = y
  OBVIOUS
<1>2. StepBack(r) = [r EXCEPT !.posx = width - 1, !.posy = y - 1]
  BY <1>1 DEF StepBack
<1>3. PICK p : p = [r EXCEPT !.posx = width - 1]
  OBVIOUS
<1>4. p = [vidmem |-> m, posx |-> width - 1, posy |-> y]
  BY <1>3
<1>5. [p EXCEPT !.posy = y - 1] = [vidmem |-> m, posx |-> width - 1, posy |-> y - 1]
  BY <1>4
<1>6. QED
  BY <1>2, <1>3, <1>5

(* The position between the switch and the two tests that end send().      *)
Drawn ==
  [vidmem : [Cell -> Glyph], posx : 0 .. width, posy : 0 .. height]

LEMMA DrawDrawn ==
  ASSUME NEW s \in Screen, NEW ch \in Glyph \cup Control, ~DividesByZero(ch)
  PROVE  /\ Draw(s, ch) \in Drawn
         /\ Draw(s, ch).posy = height => Draw(s, ch).posx < width
<1>1. /\ width \in Nat \ {0} /\ height \in Nat \ {0} /\ Blank \in Glyph
  BY ScreenAssumption
<1>2. /\ s.vidmem \in [Cell -> Glyph] /\ s.posx \in 0 .. width - 1 /\ s.posy \in 0 .. height - 1
      /\ s = [vidmem |-> s.vidmem, posx |-> s.posx, posy |-> s.posy]
  BY ScreenFields
<1>3. ASSUME NEW x \in 0 .. width - 1
      PROVE  \E m \in [Cell -> Glyph] :
               blank_line(s, x, s.posy) = [vidmem |-> m, posx |-> s.posx, posy |-> s.posy]
  <2> DEFINE m == [i \in Cell |->
        IF i \in Index(x, s.posy) .. Index(width - 1, s.posy) THEN Blank ELSE s.vidmem[i]]
  <2>1. m \in [Cell -> Glyph]
    BY <1>1, <1>2
  <2>2. blank_line(s, x, s.posy) = [s EXCEPT !.vidmem = m]
    BY DEF blank_line
  <2> HIDE DEF m
  <2>3. QED
    BY <1>2, <2>1, <2>2
<1>4. CASE ch \in {BEL, ESC}
  <2>1. Draw(s, ch) = s
    BY <1>4, DrawCases
  <2>2. QED
    BY <1>1, <1>2, <2>1 DEF Drawn
<1>5. CASE ch = BS
  <2>1. Draw(s, ch) = StepBack(s)
    BY <1>5, DrawCases
  <2>2. CASE s.posx > 0
    <3>1. StepBack(s) = [vidmem |-> s.vidmem, posx |-> s.posx - 1, posy |-> s.posy]
      BY <1>2, <2>2 DEF StepBack
    <3>2. QED
      BY <1>1, <1>2, <2>1, <2>2, <3>1 DEF Drawn
  <2>3. CASE s.posx = 0 /\ s.posy > 0
    <3>0. ~(s.posx > 0)
      BY <2>3
    <3>1. StepBack(s) = [s EXCEPT !.posx = width - 1, !.posy = @ - 1]
      BY <2>3, <3>0 DEF StepBack
    <3>2. StepBack(s) = [vidmem |-> s.vidmem, posx |-> width - 1, posy |-> s.posy - 1]
      BY <1>2, <3>1
    <3>3. QED
      BY <1>1, <1>2, <2>1, <2>3, <3>2 DEF Drawn
  <2>4. CASE s.posx = 0 /\ s.posy = 0
    <3>1. StepBack(s) = s
      BY <1>2, <2>4 DEF StepBack
    <3>2. QED
      BY <1>1, <1>2, <2>1, <3>1 DEF Drawn
  <2>5. QED
    BY <1>2, <2>2, <2>3, <2>4
<1>6. CASE ch \in {FF, VT}
  <2>1. Draw(s, ch) = [s EXCEPT !.posy = @ + 1]
    BY <1>6, DrawCases
  <2>2. Draw(s, ch) = [vidmem |-> s.vidmem, posx |-> s.posx, posy |-> s.posy + 1]
    BY <1>2, <2>1
  <2>3. QED
    BY <1>1, <1>2, <2>2 DEF Drawn
<1>7. CASE ch = NL
  <2>1. Draw(s, ch) = [blank_line(s, s.posx, s.posy) EXCEPT !.posx = width]
    BY <1>7, DrawCases
  <2>2. PICK m \in [Cell -> Glyph] :
          blank_line(s, s.posx, s.posy) = [vidmem |-> m, posx |-> s.posx, posy |-> s.posy]
    BY <1>2, <1>3
  <2>3. Draw(s, ch) = [vidmem |-> m, posx |-> width, posy |-> s.posy]
    BY <2>1, <2>2
  <2>4. QED
    BY <1>1, <1>2, <2>3 DEF Drawn
<1>8. CASE ch = CR
  <2>1. Draw(s, ch) = [blank_line(s, 0, s.posy) EXCEPT !.posx = 0]
    BY <1>8, DrawCases DEF clear_line
  <2>2. PICK m \in [Cell -> Glyph] :
          blank_line(s, 0, s.posy) = [vidmem |-> m, posx |-> s.posx, posy |-> s.posy]
    BY <1>1, <1>3
  <2>3. Draw(s, ch) = [vidmem |-> m, posx |-> 0, posy |-> s.posy]
    BY <2>1, <2>2
  <2>4. QED
    BY <1>1, <1>2, <2>3 DEF Drawn
<1>9. CASE ch \notin {BEL, ESC, BS, FF, VT, NL, CR}
  <2>1. ch \in Glyph
    BY <1>9 DEF Control, DividesByZero, tabwidth
  <2> DEFINE m == [s.vidmem EXCEPT ![Position(s)] = ch]
  <2>2. m \in [Cell -> Glyph]
    BY <1>2, <2>1
  <2>3. Draw(s, ch) = [vidmem |-> m, posx |-> s.posx + 1, posy |-> s.posy]
    BY <2>1, DrawGlyph
  <2> HIDE DEF m
  <2>4. QED
    BY <1>1, <1>2, <2>2, <2>3 DEF Drawn
<1>10. QED
  BY <1>4, <1>5, <1>6, <1>7, <1>8, <1>9

(* Rows that move up are rows of glyphs. *)
LEMMA ScrollUpType ==
  ASSUME NEW m \in [Cell -> Glyph]
  PROVE  ScrollUp(m) \in [Cell -> Glyph]
BY ScreenAssumption DEF ScrollUp

(* Whatever character send() is given, but for the tab, the position stays *)
(* on the screen, so that the next character goes to the video memory.     *)
THEOREM SendScreen ==
  ASSUME NEW s \in Screen, NEW ch \in Glyph \cup Control, ~DividesByZero(ch)
  PROVE  send(s, ch) \in Screen
<1>1. width \in Nat \ {0} /\ height \in Nat \ {0}
  BY ScreenAssumption
<1>2. PICK m \in [Cell -> Glyph], x \in 0 .. width, y \in 0 .. height :
        /\ Draw(s, ch) = [vidmem |-> m, posx |-> x, posy |-> y]
        /\ y = height => x < width
  <2>1. Draw(s, ch) \in Drawn /\ (Draw(s, ch).posy = height => Draw(s, ch).posx < width)
    BY DrawDrawn
  <2>2. QED
    BY <2>1 DEF Drawn
<1>3. PICK u \in 0 .. width - 1, v \in 0 .. height :
        Wrap(Draw(s, ch)) = [vidmem |-> m, posx |-> u, posy |-> v]
  <2>1. CASE x >= width
    <3>1. Wrap(Draw(s, ch)) = [vidmem |-> m, posx |-> 0, posy |-> y + 1]
      BY <1>2, <2>1, WrapRow
    <3>2. y + 1 \in 0 .. height /\ 0 \in 0 .. width - 1
      BY <1>1, <1>2, <2>1
    <3>3. QED
      BY <3>1, <3>2
  <2>2. CASE x < width
    <3>1. Wrap(Draw(s, ch)) = [vidmem |-> m, posx |-> x, posy |-> y]
      BY <1>1, <1>2, <2>2 DEF Wrap
    <3>2. x \in 0 .. width - 1
      BY <1>1, <2>2
    <3>3. QED
      BY <3>1, <3>2
  <2>3. QED
    BY <1>1, <2>1, <2>2
<1>4. CASE v >= height
  <2>1. send(s, ch) = [vidmem |-> ScrollUp(m), posx |-> 0, posy |-> height - 1]
    BY <1>3, <1>4 DEF send, Scroll
  <2>2. QED
    BY <1>1, <2>1, ScrollUpType DEF Screen
<1>5. CASE v < height
  <2>1. send(s, ch) = [vidmem |-> m, posx |-> u, posy |-> v]
    BY <1>1, <1>3, <1>5 DEF send, Scroll
  <2>2. v \in 0 .. height - 1
    BY <1>1, <1>5
  <2>3. QED
    BY <1>1, <2>1, <2>2 DEF Screen
<1>6. QED
  BY <1>1, <1>4, <1>5

-----------------------------------------------------------------------------
(* A screen with the position (x, y). *)
At(m, x, y) == [vidmem |-> m, posx |-> x, posy |-> y]

(* The video memory with c in the cell of (x, y). *)
Written(m, x, y, c) == [m EXCEPT ![Index(x, y)] = c]

(* The three ways in which a glyph advances the position. *)
LEMMA SendGlyph ==
  ASSUME NEW m \in [Cell -> Glyph], NEW x \in 0 .. width - 1, NEW y \in 0 .. height - 1,
         NEW c \in Glyph
  PROVE  /\ x < width - 1 =>
              send(At(m, x, y), c) = At(Written(m, x, y, c), x + 1, y)
         /\ x = width - 1 /\ y < height - 1 =>
              send(At(m, x, y), c) = At(Written(m, x, y, c), 0, y + 1)
         /\ x = width - 1 /\ y = height - 1 =>
              send(At(m, x, y), c) = At(ScrollUp(Written(m, x, y, c)), 0, height - 1)
<1> DEFINE s == At(m, x, y)
           w == Written(m, x, y, c)
<1>1. width \in Nat \ {0} /\ height \in Nat \ {0}
  BY ScreenAssumption
<1>2. /\ s \in Screen /\ Position(s) = Index(x, y)
      /\ s.vidmem = m /\ s.posx = x /\ s.posy = y
  BY DEF Screen, Position, At
<1>3. Draw(s, c) = [vidmem |-> w, posx |-> x + 1, posy |-> y]
  BY <1>2, DrawGlyph DEF Written
<1> HIDE DEF s, w
<1>4. x < width - 1 => send(s, c) = [vidmem |-> w, posx |-> x + 1, posy |-> y]
  BY <1>1, <1>3 DEF send, Wrap, Scroll
<1>5. x = width - 1 => Wrap(Draw(s, c)) = [vidmem |-> w, posx |-> 0, posy |-> y + 1]
  BY <1>1, <1>3, WrapRow
<1>6. x = width - 1 /\ y < height - 1 =>
        send(s, c) = [vidmem |-> w, posx |-> 0, posy |-> y + 1]
  BY <1>1, <1>5 DEF send, Scroll
<1>7. x = width - 1 /\ y = height - 1 =>
        send(s, c) = [vidmem |-> ScrollUp(w), posx |-> 0, posy |-> height - 1]
  BY <1>1, <1>5 DEF send, Scroll
<1>8. QED
  BY <1>4, <1>6, <1>7 DEF s, w, At

(* The two ways in which a backspace takes it back. *)
LEMMA SendBack ==
  ASSUME NEW m \in [Cell -> Glyph], NEW x \in 0 .. width - 1, NEW y \in 0 .. height - 1
  PROVE  /\ x < width - 1 => send(At(m, x + 1, y), BS) = At(m, x, y)
         /\ y < height - 1 => send(At(m, 0, y + 1), BS) = At(m, width - 1, y)
<1>1. width \in Nat \ {0} /\ height \in Nat \ {0}
  BY ScreenAssumption
<1>2. ASSUME x < width - 1
      PROVE  send(At(m, x + 1, y), BS) = At(m, x, y)
  <2>1. StepBack(At(m, x + 1, y)) = [vidmem |-> m, posx |-> (x + 1) - 1, posy |-> y]
    BY <1>2 DEF StepBack, At
  <2>2. Draw(At(m, x + 1, y), BS) = [vidmem |-> m, posx |-> x, posy |-> y]
    BY <2>1, DrawCases
  <2>3. QED
    BY <1>1, <1>2, <2>2 DEF send, Wrap, Scroll, At
<1>3. ASSUME y < height - 1
      PROVE  send(At(m, 0, y + 1), BS) = At(m, width - 1, y)
  <2>1. StepBack(At(m, 0, y + 1)) = [vidmem |-> m, posx |-> width - 1, posy |-> (y + 1) - 1]
    BY StepUp DEF At
  <2>2. Draw(At(m, 0, y + 1), BS) = [vidmem |-> m, posx |-> width - 1, posy |-> y]
    BY <2>1, DrawCases
  <2>3. QED
    BY <1>1, <1>3, <2>2 DEF send, Wrap, Scroll, At
<1>4. QED
  BY <1>2, <1>3

(* Scrolling commutes with blanking the last cell. *)
LEMMA ScrollBlank ==
  ASSUME NEW m \in [Cell -> Glyph], NEW c \in Glyph, height > 1
  PROVE  LET I == Index(width - 1, height - 1)
             J == Index(width - 1, height - 2)
         IN  [ScrollUp([m EXCEPT ![I] = c]) EXCEPT ![J] = Blank]
               = ScrollUp([m EXCEPT ![I] = Blank])
<1> DEFINE I == Index(width - 1, height - 1)
           J == Index(width - 1, height - 2)
<1>1. width \in Nat \ {0} /\ height \in Nat \ {0} /\ Blank \in Glyph
  BY ScreenAssumption
<1>2. I \in Cell /\ J \in Cell
  BY <1>1, IndexInCell
<1>3. J + width = I
  BY <1>1 DEF Index
<1>4. \A i \in Cell : i \in Int
  BY <1>1 DEF Cell
<1> HIDE DEF I, J
<1>5. ASSUME NEW i \in Cell
      PROVE  [ScrollUp([m EXCEPT ![I] = c]) EXCEPT ![J] = Blank][i]
               = ScrollUp([m EXCEPT ![I] = Blank])[i]
  <2>1. CASE i = J
    BY <1>2, <1>3, <2>1 DEF ScrollUp
  <2>2. CASE i # J
    <3>1. i + width # I
      BY <1>1, <1>2, <1>3, <1>4, <2>2
    <3>2. QED
      BY <1>2, <2>2, <3>1 DEF ScrollUp
  <2>3. QED
    BY <2>1, <2>2
<1>6. [ScrollUp([m EXCEPT ![I] = c]) EXCEPT ![J] = Blank]
        = ScrollUp([m EXCEPT ![I] = Blank])
  BY <1>5 DEF ScrollUp
<1>7. QED
  BY <1>6 DEF I, J

(* The backspace key undoes the echo of every character, wherever it was   *)
(* echoed.                                                                 *)
THEOREM BackspaceErases ==
  ASSUME NEW s \in Screen, NEW c \in Glyph, height > 1
  PROVE  ErasesEcho(s, c)
<1>1. width \in Nat \ {0} /\ height \in Nat \ {0} /\ Blank \in Glyph
  BY ScreenAssumption
<1>2. PICK m \in [Cell -> Glyph], x \in 0 .. width - 1, y \in 0 .. height - 1 :
        s = [vidmem |-> m, posx |-> x, posy |-> y]
  BY ScreenFields
<1> DEFINE w == Written(m, x, y, c)
           e == Written(m, x, y, Blank)
           before == put(s, s.posx, s.posy, Blank)
           erased == send(send(send(send(s, c), BS), Blank), BS)
<1>3. Index(x, y) \in Cell /\ (Index(x, y) = width * height - 1 <=> x = width - 1 /\ y = height - 1)
  BY IndexInCell
<1>4. Position(s) < width * height - 1 <=> ~(x = width - 1 /\ y = height - 1)
  BY <1>1, <1>2, <1>3 DEF Position, Cell
<1>5. w \in [Cell -> Glyph] /\ e \in [Cell -> Glyph] /\ Written(w, x, y, Blank) = e
  BY <1>1, <1>3 DEF Written
<1>6. before = At(e, x, y)
  <2>1. before = [s EXCEPT !.vidmem = e]
    BY <1>2 DEF put, Written
  <2> HIDE DEF e
  <2>2. QED
    BY <1>2, <2>1 DEF At
<1>7. s = At(m, x, y)
  BY <1>2 DEF At
<1> HIDE DEF w, e, before
<1>8. CASE x < width - 1
  <2>1. send(At(m, x, y), c) = At(w, x + 1, y)
    BY <1>8, SendGlyph DEF w
  <2>2. send(At(w, x + 1, y), BS) = At(w, x, y)
    BY <1>5, <1>8, SendBack
  <2>3. send(At(w, x, y), Blank) = At(e, x + 1, y)
    <3>1. send(At(w, x, y), Blank) = At(Written(w, x, y, Blank), x + 1, y)
      BY <1>1, <1>5, <1>8, SendGlyph
    <3>2. QED
      BY <1>5, <3>1
  <2>4. send(At(e, x + 1, y), BS) = At(e, x, y)
    BY <1>5, <1>8, SendBack
  <2>5. erased = before
    BY <1>6, <1>7, <2>1, <2>2, <2>3, <2>4
  <2>6. Position(s) < width * height - 1
    BY <1>4, <1>8, <1>1
  <2>7. QED
    BY <2>5, <2>6 DEF ErasesEcho, before
<1>9. CASE x = width - 1 /\ y < height - 1
  <2>1. send(At(m, x, y), c) = At(w, 0, y + 1)
    BY <1>9, SendGlyph DEF w
  <2>2. send(At(w, 0, y + 1), BS) = At(w, x, y)
    BY <1>5, <1>9, SendBack
  <2>3. send(At(w, x, y), Blank) = At(e, 0, y + 1)
    <3>1. send(At(w, x, y), Blank) = At(Written(w, x, y, Blank), 0, y + 1)
      BY <1>1, <1>5, <1>9, SendGlyph
    <3>2. QED
      BY <1>5, <3>1
  <2>4. send(At(e, 0, y + 1), BS) = At(e, x, y)
    BY <1>5, <1>9, SendBack
  <2>5. erased = before
    BY <1>6, <1>7, <2>1, <2>2, <2>3, <2>4
  <2>6. Position(s) < width * height - 1
    BY <1>1, <1>4, <1>9
  <2>7. QED
    BY <2>5, <2>6 DEF ErasesEcho, before
<1>10. CASE x = width - 1 /\ y = height - 1
  <2> DEFINE up == y - 1
             d == ScrollUp(w)
             f == ScrollUp(e)
  <2>1. d \in [Cell -> Glyph] /\ f \in [Cell -> Glyph]
    BY <1>5, ScrollUpType
  <2>2. Written(d, x, up, Blank) = f
    <3>1. up = height - 2
      BY <1>1, <1>10
    <3>2. [ScrollUp([m EXCEPT ![Index(width - 1, height - 1)] = c])
             EXCEPT ![Index(width - 1, height - 2)] = Blank]
            = ScrollUp([m EXCEPT ![Index(width - 1, height - 1)] = Blank])
      BY ScrollBlank
    <3> HIDE DEF up
    <3>3. QED
      BY <1>10, <3>1, <3>2 DEF w, e, Written
  <2>3. up \in 0 .. height - 1 /\ up < height - 1 /\ y = up + 1
    BY <1>1, <1>10
  <2> HIDE DEF d, f, up
  <2>4. send(At(m, x, y), c) = At(d, 0, y)
    <3>1. send(At(m, x, y), c) = At(ScrollUp(w), 0, height - 1)
      BY <1>10, SendGlyph DEF w
    <3>2. QED
      BY <1>10, <3>1 DEF d
  <2>5. send(At(d, 0, up + 1), BS) = At(d, x, up)
    BY <1>10, <2>1, <2>3, SendBack
  <2>6. send(At(d, x, up), Blank) = At(f, 0, up + 1)
    <3>1. send(At(d, x, up), Blank) = At(Written(d, x, up, Blank), 0, up + 1)
      BY <1>1, <1>10, <2>1, <2>3, SendGlyph
    <3>2. QED
      BY <2>2, <3>1
  <2>7. send(At(f, 0, up + 1), BS) = At(f, x, up)
    BY <1>10, <2>1, <2>3, SendBack
  <2>8. erased = At(f, x, up)
    BY <1>7, <2>3, <2>4, <2>5, <2>6, <2>7
  <2>9. ~(Position(s) < width * height - 1)
    BY <1>4, <1>10
  <2>10. before.vidmem = e /\ before.posy = y
    BY <1>6 DEF At
  <2>11. PICK b : b = [before EXCEPT !.vidmem = f]
    OBVIOUS
  <2>12. b = [vidmem |-> f, posx |-> x, posy |-> y]
    BY <1>6, <2>11 DEF At
  <2>13. [b EXCEPT !.posy = up] = At(f, x, up)
    BY <2>12 DEF At
  <2>14. [before EXCEPT !.vidmem = ScrollUp(before.vidmem), !.posy = before.posy - 1] = At(f, x, up)
    BY <2>10, <2>11, <2>13 DEF f, up
  <2>15. QED
    BY <2>8, <2>9, <2>14 DEF ErasesEcho, before
<1>11. QED
  BY <1>1, <1>8, <1>9, <1>10

-----------------------------------------------------------------------------
(* The cells from k behind the position on are blank. *)
BlankFrom(s, k) == \A i \in Cell : i >= Position(s) + k => s.vidmem[i] = Blank

(* The position is known when the fields are. *)
LEMMA BlankAt ==
  ASSUME NEW m, NEW x \in Int, NEW y \in Int, NEW k \in Int, NEW p \in Int, p = Index(x, y),
         \A i \in Cell : i >= p + k => m[i] = Blank
  PROVE  BlankFrom(At(m, x, y), k)
<1>1. Position(At(m, x, y)) = p /\ At(m, x, y).vidmem = m
  BY DEF Position, At
<1> QED
  BY <1>1 DEF BlankFrom

(* A glyph takes the place of the first cell, and a blank leaves it blank. *)
LEMMA GlyphBlank ==
  ASSUME NEW s \in Screen, NEW c \in Glyph, BlankFrom(s, 1)
  PROVE  BlankFrom(send(s, c), 0) /\ (c = Blank => BlankFrom(send(s, c), -1))
<1>1. width \in Nat \ {0} /\ height \in Nat \ {0} /\ Blank \in Glyph
  BY ScreenAssumption
<1>2. PICK m \in [Cell -> Glyph], x \in 0 .. width - 1, y \in 0 .. height - 1 :
        s = [vidmem |-> m, posx |-> x, posy |-> y]
  BY ScreenFields
<1> DEFINE I == Index(x, y)
           w == Written(m, x, y, c)
<1>3. I \in Cell /\ (I = width * height - 1 <=> x = width - 1 /\ y = height - 1)
  BY IndexInCell
<1>4. \A i \in Cell : i \in Int /\ i < width * height
  BY <1>1 DEF Cell
<1>5. w[I] = c /\ w \in [Cell -> Glyph]
  BY <1>3 DEF Written
<1>6. \A i \in Cell : i >= I + 1 => w[i] = Blank
  <2>1. \A i \in Cell : i >= I + 1 => m[i] = Blank
    BY <1>2 DEF BlankFrom, Position
  <2>2. \A i \in Cell : i # I => w[i] = m[i]
    BY <1>3 DEF Written
  <2> HIDE DEF I, w
  <2> QED
    BY <1>3, <1>4, <2>1, <2>2
<1>7. s = At(m, x, y)
  BY <1>2 DEF At
<1>8. /\ x < width - 1 => Index(x + 1, y) = I + 1
      /\ x = width - 1 => Index(0, y + 1) = I + 1
      /\ I \in Int /\ y * width \in Int /\ (y + 1) * width = y * width + width
  BY <1>1 DEF Index
<1> HIDE DEF I, w
<1>9. \A i \in Cell : /\ i >= I + 1 + 0 => w[i] = Blank
                      /\ c = Blank => (i >= I + 1 + (-1) => w[i] = Blank)
  BY <1>3, <1>4, <1>5, <1>6, <1>8
<1>10. CASE x < width - 1
  <2>1. send(s, c) = At(w, x + 1, y)
    BY <1>7, <1>10, SendGlyph DEF w
  <2>2. x + 1 \in Int /\ y \in Int /\ I + 1 \in Int /\ I + 1 = Index(x + 1, y)
    BY <1>1, <1>8, <1>10
  <2>3. BlankFrom(At(w, x + 1, y), 0)
    BY <1>9, <2>2, BlankAt
  <2>4. c = Blank => BlankFrom(At(w, x + 1, y), -1)
    BY <1>9, <2>2, BlankAt
  <2> QED
    BY <2>1, <2>3, <2>4
<1>11. CASE x = width - 1 /\ y < height - 1
  <2>1. send(s, c) = At(w, 0, y + 1)
    BY <1>7, <1>11, SendGlyph DEF w
  <2>2. y + 1 \in Int /\ I + 1 \in Int /\ I + 1 = Index(0, y + 1)
    BY <1>1, <1>8, <1>11
  <2>3. BlankFrom(At(w, 0, y + 1), 0)
    BY <1>9, <2>2, BlankAt
  <2>4. c = Blank => BlankFrom(At(w, 0, y + 1), -1)
    BY <1>9, <2>2, BlankAt
  <2> QED
    BY <2>1, <2>3, <2>4
<1>12. CASE x = width - 1 /\ y = height - 1
  <2> DEFINE up == ScrollUp(w)
             p == Index(0, height - 1)
  <2>1. send(s, c) = At(up, 0, height - 1)
    BY <1>7, <1>12, SendGlyph DEF w
  <2>2. p \in Int /\ p + width = width * height /\ I = width * height - 1
    BY <1>1, <1>3, <1>12 DEF Index
  <2>3. \A i \in Cell : up[i] = IF i + width \in Cell THEN w[i + width] ELSE Blank
    BY DEF ScrollUp
  <2> HIDE DEF up, p
  <2>4. \A i \in Cell : i >= p + 0 => up[i] = Blank
    BY <1>1, <1>4, <2>2, <2>3
  <2>5. ASSUME c = Blank, NEW i \in Cell, i >= p + (-1) PROVE up[i] = Blank
    <3>1. i + width \in Cell => i + width = I
      BY <1>1, <1>4, <2>2, <2>5
    <3> QED
      BY <1>5, <2>3, <2>5, <3>1
  <2>6. height - 1 \in Int /\ 0 \in Int /\ -1 \in Int /\ p = Index(0, height - 1)
    BY <1>1 DEF p
  <2>7. BlankFrom(At(up, 0, height - 1), 0)
    BY <2>2, <2>4, <2>6, BlankAt
  <2>8. c = Blank => BlankFrom(At(up, 0, height - 1), -1)
    BY <2>2, <2>5, <2>6, BlankAt
  <2> QED
    BY <2>1, <2>7, <2>8
<1> QED
  BY <1>1, <1>10, <1>11, <1>12

(* A backspace steps back over a cell, if there is one. *)
LEMMA BackBlank ==
  ASSUME NEW s \in Screen, NEW k \in Int, BlankFrom(s, k)
  PROVE  BlankFrom(send(s, BS), k + 1)
<1>1. width \in Nat \ {0} /\ height \in Nat \ {0}
  BY ScreenAssumption
<1>2. PICK m \in [Cell -> Glyph], x \in 0 .. width - 1, y \in 0 .. height - 1 :
        s = At(m, x, y)
  BY ScreenFields DEF At
<1> DEFINE p == Index(x, y)
<1>3. \A i \in Cell : i >= p + k => m[i] = Blank
  BY <1>2 DEF BlankFrom, Position, At
<1>4. p \in Int /\ \A i \in Cell : i \in Int
  BY <1>1 DEF Index, Cell
<1>5. CASE x > 0
  <2>1. send(At(m, (x - 1) + 1, y), BS) = At(m, x - 1, y)
    <3>1. x - 1 \in 0 .. width - 1 /\ x - 1 < width - 1
      BY <1>1, <1>5
    <3> QED
      BY <3>1, SendBack
  <2>2. send(s, BS) = At(m, x - 1, y)
    <3>1. (x - 1) + 1 = x
      OBVIOUS
    <3> QED
      BY <1>2, <2>1, <3>1
  <2>3. p - 1 = Index(x - 1, y) /\ p - 1 \in Int /\ x - 1 \in Int /\ y \in Int
    BY <1>1, <1>4 DEF Index
  <2> HIDE DEF p
  <2>4. \A i \in Cell : i >= (p - 1) + (k + 1) => m[i] = Blank
    BY <1>3, <1>4
  <2>5. BlankFrom(At(m, x - 1, y), k + 1)
    BY <2>3, <2>4, BlankAt
  <2> QED
    BY <2>2, <2>5
<1>6. CASE x = 0 /\ y > 0
  <2>1. send(At(m, 0, (y - 1) + 1), BS) = At(m, width - 1, y - 1)
    <3>1. y - 1 \in 0 .. height - 1 /\ y - 1 < height - 1 /\ 0 \in 0 .. width - 1
      BY <1>1, <1>6
    <3> QED
      BY <3>1, SendBack
  <2>2. send(s, BS) = At(m, width - 1, y - 1)
    <3>1. (y - 1) + 1 = y
      OBVIOUS
    <3> QED
      BY <1>2, <1>6, <2>1, <3>1
  <2>3. p - 1 = Index(width - 1, y - 1) /\ p - 1 \in Int /\ width - 1 \in Int /\ y - 1 \in Int
    BY <1>1, <1>4, <1>6 DEF Index
  <2> HIDE DEF p
  <2>4. \A i \in Cell : i >= (p - 1) + (k + 1) => m[i] = Blank
    BY <1>3, <1>4
  <2>5. BlankFrom(At(m, width - 1, y - 1), k + 1)
    BY <2>3, <2>4, BlankAt
  <2> QED
    BY <2>2, <2>5
<1>7. CASE x = 0 /\ y = 0
  <2>1. send(s, BS) = At(m, 0, 0)
    <3>1. StepBack(s) = At(m, 0, 0)
      BY <1>2, <1>7 DEF StepBack, At
    <3>2. Draw(s, BS) = At(m, 0, 0)
      BY <3>1, DrawCases
    <3> QED
      BY <1>1, <3>2 DEF send, Wrap, Scroll, At
  <2>2. p = Index(0, 0)
    BY <1>7
  <2> HIDE DEF p
  <2>3. \A i \in Cell : i >= p + (k + 1) => m[i] = Blank
    BY <1>3, <1>4
  <2>4. BlankFrom(At(m, 0, 0), k + 1)
    BY <1>4, <2>2, <2>3, BlankAt
  <2> QED
    BY <2>1, <2>4
<1> QED
  BY <1>1, <1>5, <1>6, <1>7

(* The row from column x on is blanked. *)
RowBlanked(m, x, y) ==
  [i \in Cell |-> IF i \in Index(x, y) .. Index(width - 1, y) THEN Blank ELSE m[i]]

(* A new line goes to the next row. *)
LEMMA SendNewLine ==
  ASSUME NEW m \in [Cell -> Glyph], NEW x \in 0 .. width - 1, NEW y \in 0 .. height - 1
  PROVE  /\ y < height - 1 => send(At(m, x, y), NL) = At(RowBlanked(m, x, y), 0, y + 1)
         /\ y = height - 1 =>
              send(At(m, x, y), NL) = At(ScrollUp(RowBlanked(m, x, y)), 0, height - 1)
<1> DEFINE s == At(m, x, y)
           b == RowBlanked(m, x, y)
<1>1. width \in Nat \ {0} /\ height \in Nat \ {0}
  BY ScreenAssumption
<1>2. s = [vidmem |-> m, posx |-> x, posy |-> y]
  BY DEF At
<1>3. Draw(s, NL) = [vidmem |-> b, posx |-> width, posy |-> y]
  <2> HIDE DEF s
  <2>1. blank_line(s, s.posx, s.posy) = [s EXCEPT !.vidmem = b]
    BY <1>2 DEF blank_line, RowBlanked
  <2>2. Draw(s, NL) = [blank_line(s, s.posx, s.posy) EXCEPT !.posx = width]
    BY DrawCases
  <2> HIDE DEF b
  <2>3. [s EXCEPT !.vidmem = b] = [vidmem |-> b, posx |-> x, posy |-> y]
    BY <1>2
  <2> QED
    BY <2>1, <2>2, <2>3
<1> HIDE DEF s, b
<1>4. Wrap(Draw(s, NL)) = [vidmem |-> b, posx |-> 0, posy |-> y + 1]
  BY <1>1, <1>3, WrapRow
<1>5. y < height - 1 => send(s, NL) = At(b, 0, y + 1)
  BY <1>1, <1>4 DEF send, Scroll, At
<1>6. y = height - 1 => send(s, NL) = At(ScrollUp(b), 0, height - 1)
  BY <1>1, <1>4 DEF send, Scroll, At
<1> QED
  BY <1>5, <1>6 DEF s, b

(* It keeps the cells behind the position blank. *)
LEMMA NewLineBlank ==
  ASSUME NEW s \in Screen, BlankFrom(s, 0)
  PROVE  BlankFrom(send(s, NL), 0)
<1>1. width \in Nat \ {0} /\ height \in Nat \ {0} /\ Blank \in Glyph
  BY ScreenAssumption
<1>2. PICK m \in [Cell -> Glyph], x \in 0 .. width - 1, y \in 0 .. height - 1 :
        s = [vidmem |-> m, posx |-> x, posy |-> y]
  BY ScreenFields
<1> DEFINE b == [i \in Cell |-> IF i \in Index(x, y) .. Index(width - 1, y) THEN Blank ELSE m[i]]
           p == Index(0, y + 1)
<1>3. \A i \in Cell : i >= Index(x, y) => m[i] = Blank
  <2>1. Index(x, y) + 0 = Index(x, y)
    BY <1>1 DEF Index
  <2> QED
    BY <1>2, <2>1 DEF BlankFrom, Position
<1>4. /\ p \in Int /\ p > Index(x, y) /\ Index(x, y) \in Int
      /\ \A i \in Cell : i \in Int /\ i < width * height
      /\ y = height - 1 => p = width * height /\ Index(0, height - 1) + width = width * height
      /\ Index(0, height - 1) \in Int
  <2>1. (y + 1) * width = y * width + width
    BY <1>1
  <2> QED
    BY <1>1, <2>1 DEF Index, Cell
<1>5. \A i \in Cell : i >= p => b[i] = Blank
  <2>1. \A i \in Cell : b[i] = IF i \in Index(x, y) .. Index(width - 1, y) THEN Blank ELSE m[i]
    OBVIOUS
  <2> HIDE DEF b, p
  <2> QED
    BY <1>3, <1>4, <2>1
<1> HIDE DEF b
<1>6. s = At(m, x, y) /\ b = RowBlanked(m, x, y)
  BY <1>2 DEF At, RowBlanked, b
<1>7. /\ y < height - 1 => send(s, NL) = At(b, 0, y + 1)
      /\ y = height - 1 => send(s, NL) = At(ScrollUp(b), 0, height - 1)
  BY <1>6, SendNewLine
<1>8. CASE y < height - 1
  <2>1. send(s, NL) = At(b, 0, y + 1)
    BY <1>7, <1>8
  <2>2. \A i \in Cell : i >= p + 0 => b[i] = Blank
    BY <1>4, <1>5
  <2>3. BlankFrom(At(b, 0, y + 1), 0)
    <3>1. y + 1 \in Int /\ 0 \in Int
      BY <1>1
    <3> QED
      BY <1>4, <2>2, <3>1, BlankAt
  <2> QED
    BY <2>1, <2>3
<1>9. CASE y = height - 1
  <2> DEFINE up == ScrollUp(b)
             q == Index(0, height - 1)
  <2>1. send(s, NL) = At(up, 0, height - 1)
    BY <1>7, <1>9
  <2>2. \A i \in Cell : up[i] = IF i + width \in Cell THEN b[i + width] ELSE Blank
    BY DEF ScrollUp
  <2> HIDE DEF up, p
  <2>3. q \in Int /\ q + width = width * height
    BY <1>4, <1>9
  <2>4. height - 1 \in Int /\ 0 \in Int /\ q = Index(0, height - 1)
    BY <1>1
  <2> HIDE DEF q
  <2>5. \A i \in Cell : i >= q + 0 => up[i] = Blank
    BY <1>1, <1>4, <2>2, <2>3
  <2>6. BlankFrom(At(up, 0, height - 1), 0)
    BY <2>3, <2>4, <2>5, BlankAt
  <2> QED
    BY <2>1, <2>6
<1> QED
  BY <1>1, <1>8, <1>9

-----------------------------------------------------------------------------
(* The text before the position moves with it: the nearest cell has the    *)
(* glyph just written, and the others what was one cell nearer.            *)
LEMMA GlyphMovesText ==
  ASSUME NEW s \in Screen, NEW c \in Glyph, NEW n \in Nat \ {0},
         n <= Position(send(s, c))
  PROVE  /\ n <= Position(s) + 1
         /\ send(s, c).vidmem[Position(send(s, c)) - n]
              = IF n = 1 THEN c ELSE s.vidmem[Position(s) + 1 - n]
<1>1. width \in Nat \ {0} /\ height \in Nat \ {0}
  BY ScreenAssumption
<1>2. PICK m \in [Cell -> Glyph], x \in 0 .. width - 1, y \in 0 .. height - 1 :
        s = At(m, x, y)
  BY ScreenFields DEF At
<1> DEFINE I == Index(x, y)
           w == Written(m, x, y, c)
<1>3. I \in Cell /\ (I = width * height - 1 <=> x = width - 1 /\ y = height - 1)
  BY IndexInCell
<1>4. \A i \in Cell : w[i] = IF i = I THEN c ELSE m[i]
  BY <1>3 DEF Written
<1>5. Position(s) = I /\ s.vidmem = m
  BY <1>2 DEF Position, At
<1>6. /\ x < width - 1 => Index(x + 1, y) = I + 1
      /\ x = width - 1 => Index(0, y + 1) = I + 1
      /\ Cell = 0 .. width * height - 1 /\ width * height \in Nat
      /\ Index(0, height - 1) + width = width * height
      /\ Index(0, height - 1) \in Nat
  <2>1. /\ (y + 1) * width = y * width + width /\ y * width \in Int
        /\ (height - 1) * width = height * width - width
    BY <1>1
  <2>2. (height - 1) * width \in Nat
    BY <1>1
  <2> QED
    BY <1>1, <2>1, <2>2 DEF Index, Cell
<1> HIDE DEF I, w
<1>7. ASSUME NEW v, NEW p \in Nat, Position(send(s, c)) = p, send(s, c).vidmem = v, p <= I + 1,
             p - n \in Cell => v[p - n] = w[I + 1 - n]
      PROVE  /\ n <= Position(s) + 1
             /\ send(s, c).vidmem[Position(send(s, c)) - n]
                  = IF n = 1 THEN c ELSE s.vidmem[Position(s) + 1 - n]
  <2>1. n <= p /\ p - n \in Cell /\ I + 1 - n \in Cell /\ I \in Int
    BY <1>3, <1>6, <1>7
  <2>2. v[p - n] = IF n = 1 THEN c ELSE m[I + 1 - n]
    BY <1>4, <1>7, <2>1
  <2> QED
    BY <1>5, <1>6, <1>7, <2>1, <2>2
<1>8. CASE x < width - 1
  <2>1. send(s, c) = At(w, x + 1, y)
    BY <1>2, <1>8, SendGlyph DEF w
  <2>2. Position(send(s, c)) = I + 1 /\ send(s, c).vidmem = w
    BY <1>6, <1>8, <2>1 DEF At, Position
  <2>3. I + 1 \in Nat /\ I + 1 <= I + 1 /\ ((I + 1) - n \in Cell => w[(I + 1) - n] = w[I + 1 - n])
    BY <1>3, <1>6
  <2> DEFINE p == I + 1
  <2>4. p \in Nat /\ p <= I + 1 /\ (p - n \in Cell => w[p - n] = w[I + 1 - n])
    BY <2>3
  <2>5. Position(send(s, c)) = p /\ send(s, c).vidmem = w
    BY <2>2
  <2> HIDE DEF p
  <2> QED
    BY <1>7, <2>4, <2>5
<1>9. CASE x = width - 1 /\ y < height - 1
  <2>1. send(s, c) = At(w, 0, y + 1)
    BY <1>2, <1>9, SendGlyph DEF w
  <2>2. Position(send(s, c)) = I + 1 /\ send(s, c).vidmem = w
    BY <1>6, <1>9, <2>1 DEF At, Position
  <2>3. I + 1 \in Nat /\ I + 1 <= I + 1 /\ ((I + 1) - n \in Cell => w[(I + 1) - n] = w[I + 1 - n])
    BY <1>3, <1>6
  <2> DEFINE p == I + 1
  <2>4. p \in Nat /\ p <= I + 1 /\ (p - n \in Cell => w[p - n] = w[I + 1 - n])
    BY <2>3
  <2>5. Position(send(s, c)) = p /\ send(s, c).vidmem = w
    BY <2>2
  <2> HIDE DEF p
  <2> QED
    BY <1>7, <2>4, <2>5
<1>10. CASE x = width - 1 /\ y = height - 1
  <2> DEFINE up == ScrollUp(w)
             p == Index(0, height - 1)
  <2>1. send(s, c) = At(up, 0, height - 1)
    BY <1>2, <1>10, SendGlyph DEF w
  <2>2. Position(send(s, c)) = p /\ send(s, c).vidmem = up
    BY <2>1 DEF At, Position
  <2>3. p \in Nat /\ p + width = I + 1
    BY <1>3, <1>6, <1>10
  <2>4. \A i \in Cell : up[i] = IF i + width \in Cell THEN w[i + width] ELSE Blank
    BY DEF ScrollUp
  <2> HIDE DEF up, p
  <2>5. p - n \in Cell => up[p - n] = w[I + 1 - n]
    <3>1. SUFFICES ASSUME p - n \in Cell PROVE up[p - n] = w[I + 1 - n]
      OBVIOUS
    <3>2. (p - n) + width = I + 1 - n /\ I + 1 - n \in Cell
      BY <1>1, <1>3, <1>6, <2>3, <3>1
    <3> QED
      BY <2>4, <3>1, <3>2
  <2>6. p <= I + 1
    BY <1>1, <2>3
  <2> QED
    BY <1>7, <2>2, <2>3, <2>5, <2>6
<1> QED
  BY <1>1, <1>8, <1>9, <1>10
=============================================================================
