------------------------------ MODULE TtyInput ------------------------------
(***************************************************************************)
(* The input side of the tty layer: tty_read (kernel/tty.c) run by the     *)
(* kernel's only thread, the read hooks of the three drivers, and the      *)
(* keyboard interrupt that fills the queue of the VGA console behind the   *)
(* reader's back (vgatm_keyboard_handler).                                 *)
(*                                                                         *)
(* The interrupt gates clear IF, so that the handler runs as one step; the *)
(* reader can be interrupted between any two accesses to a shared queue,   *)
(* and each of its steps makes at most one.                                *)
(***************************************************************************)
EXTENDS TtyQueue

CONSTANTS
  Ttys,           (* The tty numbers tty_read is called with.              *)
  Nums,           (* The values of its argument num.                       *)
  MaxBacklog      (* Bound: keys pressed and not yet consumed, counting    *)
                  (* those the current call has already stored.            *)

ASSUME InputAssumption ==
  /\ Ttys \subseteq Nat
  /\ Nums \subseteq Nat
  /\ MaxBacklog \in Nat

VARIABLES
  arrived, (* The character each driver has received last: the keysym of    *)
           (* the event, or the receiver register of the UART.             *)
  rq,     (* The read_q of each device.                                    *)
  pc,     (* Where the reader is in tty_read.                              *)
  dev,    (* The device of the current or last call.                       *)
  num,    (* The number of characters that call asks for.                  *)
  ch,     (* The local variable of the draining loop.                      *)
  buf,    (* What the call has stored so far; its length is nr.            *)
  rv      (* What the last call returned.                                  *)

vars == <<arrived, rq, pc, dev, num, ch, buf, rv>>

Devices == {"null_tty", "tty_serial", "tty_vgatm"}

(* The tty_devices table, in the order of registration; tty numbers count  *)
(* from 0.                                                                 *)
tty_devices == <<"null_tty", "tty_serial", "tty_vgatm">>

num_tty_devices == Len(tty_devices)

(* Mistake: the serial driver is registered as asynchronous. *)
async_serial(d) == d # "null_tty"

(* The field async: is the queue filled from interrupts? *)
async(d) == d = "tty_vgatm"

ENODEV == 2
EIO == 4

PCs == {"idle", "outer", "spin", "hook", "hooked", "drain", "advance"}

Init ==
  /\ arrived = [d \in Devices |-> NUL]
  /\ rq = [d \in Devices |-> ZeroQueue]
  /\ pc = "idle"
  /\ dev = "null_tty"
  /\ num = 0
  /\ ch = NUL
  /\ buf = << >>
  /\ rv = 0

-----------------------------------------------------------------------------
(* Calls of tty_read. *)

CallUnknown(tty) ==
  /\ pc = "idle"
  /\ tty >= num_tty_devices
  /\ rv' = -ENODEV
  /\ UNCHANGED <<arrived, rq, pc, dev, num, ch, buf>>

Call(tty, n) ==
  /\ pc = "idle"
  /\ tty < num_tty_devices
  /\ dev' = tty_devices[tty + 1]
  /\ num' = n
  /\ buf' = << >>
  /\ pc' = "outer"
  /\ UNCHANGED <<arrived, rq, ch, rv>>

(* while (nr < num): return, or see whether there is something to drain.   *)
Return ==
  /\ pc = "outer"
  /\ Len(buf) >= num
  /\ rv' = Len(buf)
  /\ pc' = "idle"
  /\ UNCHANGED <<arrived, rq, dev, num, ch, buf>>

Examine ==
  /\ pc = "outer"
  /\ Len(buf) < num
  /\ pc' = IF TTYQ_EMPTY(rq[dev])
             THEN IF async(dev) THEN "spin" ELSE "hook"
             ELSE "drain"
  /\ UNCHANGED <<arrived, rq, dev, num, ch, buf, rv>>

(* The busy wait for the interrupt handler of an asynchronous device. *)
SpinEnd ==
  /\ pc = "spin"
  /\ ~TTYQ_EMPTY(rq[dev])
  /\ pc' = "drain"
  /\ UNCHANGED <<arrived, rq, dev, num, ch, buf, rv>>

(* Mistake: the sign of the loop's condition; nothing is filled. *)
NullFilled_nothing(q) == q

(* What null_read makes of a queue: it fills the free slots with '\0'. *)
NullFilled(q) ==
  [q EXCEPT !.head = Mask(q.head + TTYQ_LEFT(q)),
            !.buf  = [s \in Slot |->
              IF Mask(s - q.head) \in 0 .. TTYQ_LEFT(q) - 1 THEN NUL ELSE q.buf[s]]]

NullRead ==
  /\ pc = "hook"
  /\ dev = "null_tty"
  /\ rq' = [rq EXCEPT ![dev] = NullFilled(@)]
  /\ pc' = "hooked"
  /\ UNCHANGED <<arrived, dev, num, ch, buf, rv>>

(* serial_read: polls the UART until it has received a character. *)
SerialRead(c) ==
  /\ pc = "hook"
  /\ dev = "tty_serial"
  /\ arrived' = [arrived EXCEPT ![dev] = c]
  /\ rq' = IF TTYQ_FULL(rq[dev])
             THEN rq
             ELSE [rq EXCEPT ![dev] = TTYQ_PUSH(@, c)]
  /\ pc' = "hooked"
  /\ UNCHANGED <<dev, num, ch, buf, rv>>

AfterHook ==
  /\ pc = "hooked"
  /\ IF TTYQ_EMPTY(rq[dev])
       THEN rv' = -EIO /\ pc' = "idle"
       ELSE pc' = "drain" /\ UNCHANGED rv
  /\ UNCHANGED <<arrived, rq, dev, num, ch, buf>>

(* while (!TTYQ_EMPTY(dev->read_q)): the inner loop, which does not look   *)
(* at num.                                                                 *)
DrainEnd ==
  /\ pc = "drain"
  /\ TTYQ_EMPTY(rq[dev])
  /\ pc' = "outer"
  /\ UNCHANGED <<arrived, rq, dev, num, ch, buf, rv>>

DrainLoad ==
  /\ pc = "drain"
  /\ ~TTYQ_EMPTY(rq[dev])
  /\ ch' = PopLoad(rq[dev])
  /\ pc' = "advance"
  /\ UNCHANGED <<arrived, rq, dev, num, buf, rv>>

(* The second half of TTYQ_POP and buf[nr++] = ch, a private store. *)
DrainAdvance ==
  /\ pc = "advance"
  /\ rq' = [rq EXCEPT ![dev] = PopAdvance(@)]
  /\ buf' = Append(buf, ch)
  /\ pc' = "drain"
  /\ UNCHANGED <<arrived, dev, num, ch, rv>>

-----------------------------------------------------------------------------
(* The keyboard interrupt. *)

Backlog == (IF dev = "tty_vgatm" THEN Len(buf) ELSE 0) + TTYQ_CHARS(rq["tty_vgatm"])

(* Mistake: the handler does not test for room. *)
KeyPress_unchecked(c) ==
  /\ Backlog < MaxBacklog
  /\ arrived' = [arrived EXCEPT !["tty_vgatm"] = c]
  /\ rq' = [rq EXCEPT !["tty_vgatm"] = TTYQ_PUSH(@, c)]
  /\ UNCHANGED <<pc, dev, num, ch, buf, rv>>

(* vgatm_keyboard_handler for the press of a key with character c; when    *)
(* the queue is full the key is lost.                                      *)
KeyPress(c) ==
  /\ Backlog < MaxBacklog
  /\ arrived' = [arrived EXCEPT !["tty_vgatm"] = c]
  /\ LET q == rq["tty_vgatm"]
     IN  rq' = IF TTYQ_FULL(q) THEN rq ELSE [rq EXCEPT !["tty_vgatm"] = TTYQ_PUSH(q, c)]
  /\ UNCHANGED <<pc, dev, num, ch, buf, rv>>

-----------------------------------------------------------------------------
Reader ==
  \/ Return \/ Examine \/ SpinEnd \/ NullRead \/ AfterHook
  \/ DrainEnd \/ DrainLoad \/ DrainAdvance

Next ==
  \/ \E tty \in Ttys : CallUnknown(tty)
  \/ \E tty \in Ttys, n \in Nums : Call(tty, n)
  \/ Reader
  \/ \E c \in Char : SerialRead(c)
  \/ \E c \in Char : KeyPress(c)

Spec == Init /\ [][Next]_vars

(* The processor always returns from an interrupt to the reader, the far   *)
(* end of the serial line keeps sending, and keys keep being pressed.      *)
Fairness ==
  /\ WF_vars(Reader)
  /\ WF_vars(\E c \in Char : SerialRead(c))
  /\ WF_vars(\E c \in Char : KeyPress(c))

FairSpec == Spec /\ Fairness

-----------------------------------------------------------------------------
TypeOK ==
  /\ arrived \in [Devices -> Char]
  /\ rq \in [Devices -> Queue]
  /\ pc \in PCs
  /\ dev \in Devices
  /\ num \in Nat
  /\ ch \in Char
  /\ buf \in Seq(Char)
  /\ rv \in Int

Delivered(d) == IF dev = d THEN buf ELSE << >>

VgaFifo == INSTANCE CharFifo
  WITH in   <- arrived["tty_vgatm"],
       fifo <- Contents(rq["tty_vgatm"]),
       out  <- Delivered("tty_vgatm")

SerialFifo == INSTANCE CharFifo
  WITH in   <- arrived["tty_serial"],
       fifo <- Contents(rq["tty_serial"]),
       out  <- Delivered("tty_serial")

(* Whatever the moment at which the keyboard interrupt hits tty_read, the  *)
(* characters it accepted reach the caller's buffer once each, unchanged   *)
(* and in order, and at most TTYQ_BUF_LEN - 1 of them wait.                *)
VgaIsFifo == VgaFifo!Spec

(* The same holds of the serial line, whose queue tty_read fills by        *)
(* calling the driver's read hook itself.                                  *)
SerialIsFifo == SerialFifo!Spec

(* The -EIO of tty_read is never returned: no driver's read hook comes     *)
(* back with an empty queue.                                               *)
NeverEIO == rv # -EIO

(* A call always returns, also one that waits for a key: the busy wait     *)
(* notices the interrupt handler's push.                                   *)
ReadReturns == (pc # "idle") ~> (pc = "idle")

(* A call stores at most the num characters its caller made room for, as   *)
(* kernel_main takes for granted (it passes one char and num = 1).         *)
ReadWithinBuffer == Len(buf) <= num
=============================================================================
