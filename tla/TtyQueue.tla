------------------------------ MODULE TtyQueue ------------------------------
(***************************************************************************)
(* The character queue of kernel/include/kernel/tty.h: a ring buffer with  *)
(* a head (next slot to fill) and a tail (next slot to empty), manipulated *)
(* by macros.  One slot always stays free, so that head = tail means empty.*)
(*                                                                         *)
(* The macros mask with TTYQ_BUF_LEN - 1.  The length is a power of two    *)
(* (512), so that masking is the remainder modulo the length, also of a    *)
(* 32-bit difference that wrapped around below zero.                       *)
(***************************************************************************)
EXTENDS Integers, Sequences

CONSTANTS
  TTYQ_BUF_LEN,   (* Number of slots; 512 in the code.                     *)
  Char,           (* The characters a queue can hold.                      *)
  NUL             (* '\0', the content of a slot nobody has written.       *)

ASSUME QueueAssumption ==
  /\ TTYQ_BUF_LEN \in Nat \ {0, 1}
  /\ NUL \in Char

Slot == 0 .. TTYQ_BUF_LEN - 1

Mask(i) == i % TTYQ_BUF_LEN

(* struct tty_queue. *)
Queue == [head : Slot, tail : Slot, buf : [Slot -> Char]]

(* A static queue starts zeroed. *)
ZeroQueue == [head |-> 0, tail |-> 0, buf |-> [s \in Slot |-> NUL]]

(* Mistake: the index is not masked. *)
TTYQ_INC_unmasked(i) == i + 1

TTYQ_INC(i) == Mask(i + 1)

TTYQ_DEC(i) == Mask(i - 1)

TTYQ_EMPTY(q) == q.head = q.tail

(* Mistake: the free slot is forgotten, so that empty looks like full. *)
TTYQ_LEFT_without_gap(q) == Mask(q.tail - q.head)

TTYQ_LEFT(q) == Mask(q.tail - q.head - 1)

TTYQ_LAST(q) == q.buf[Mask(q.head - 1)]

TTYQ_FULL(q) == TTYQ_LEFT(q) = 0

TTYQ_CHARS(q) == Mask(q.head - q.tail)

(* Mistake: the head is advanced before the store. *)
TTYQ_PUSH_swapped(q, c) ==
  [q EXCEPT !.head = TTYQ_INC(q.head), !.buf[TTYQ_INC(q.head)] = c]

(* Store at the head, then advance it.  The macro does not test for room.  *)
TTYQ_PUSH(q, c) ==
  [q EXCEPT !.buf[q.head] = c, !.head = TTYQ_INC(q.head)]

(* The two memory accesses of TTYQ_POP: load at the tail, then advance it. *)
PopLoad(q) == q.buf[q.tail]

PopAdvance(q) == [q EXCEPT !.tail = TTYQ_INC(q.tail)]

-----------------------------------------------------------------------------
(* What a queue holds, oldest character first. *)
Contents(q) ==
  [i \in 1 .. TTYQ_CHARS(q) |-> q.buf[Mask(q.tail + (i - 1))]]

Capacity == TTYQ_BUF_LEN - 1
=============================================================================
