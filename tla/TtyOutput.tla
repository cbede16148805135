----------------------------- MODULE TtyOutput -----------------------------
(***************************************************************************)
(* The output side of the tty layer: tty_write (kernel/tty.c), which cuts  *)
(* the caller's buffer into chunks that fit the write queue of a device,   *)
(* and the write hooks of the three drivers, which empty the queue into    *)
(* nothing, into the UART and onto the screen.                             *)
(*                                                                         *)
(* No interrupt handler touches a write queue while tty_write runs on it,  *)
(* so that a step here is an iteration of a loop.  The one other actor is  *)
(* the UART, which takes its time to transmit.                             *)
(***************************************************************************)
EXTENDS TtyQueue, VgaText

CONSTANTS
  Calls           (* What tty_write is called with: a number and a buffer. *)

ASSUME OutputAssumption ==
  /\ Calls \subseteq Nat \X Seq(Char)
  /\ Char \subseteq Glyph \cup Control
  /\ NUL \in Glyph

VARIABLES
  wq,         (* The write_q of each device.                               *)
  pc,         (* Where the writer is in tty_write.                         *)
  dev,        (* The device of the current or last call.                   *)
  buf,        (* The argument of that call.                                *)
  nw,         (* How much of buf has been queued.                          *)
  ch,         (* The local variable of the write hooks.                    *)
  sent,       (* What the device has been given in that call.              *)
  rv,         (* What the last call returned.                              *)
  screen,     (* The video memory and the position in it.                  *)
  cursor,     (* The cursor register of the CRT controller.                *)
  thre        (* Is the UART's transmitter holding register empty?         *)

vars == <<wq, pc, dev, buf, nw, ch, sent, rv, screen, cursor, thre>>

Devices == {"null_tty", "tty_serial", "tty_vgatm"}

tty_devices == <<"null_tty", "tty_serial", "tty_vgatm">>

num_tty_devices == Len(tty_devices)

ENODEV == 2

PCs == {"idle", "outer", "fill", "hook", "send", "fault", "wait"}

Init ==
  /\ wq = [d \in Devices |-> ZeroQueue]
  /\ pc = "idle"
  /\ dev = "null_tty"
  /\ buf = << >>
  /\ nw = 0
  /\ ch = NUL
  /\ sent = << >>
  /\ rv = 0
  /\ screen = ClearScreen
  /\ cursor = 0
  /\ thre = TRUE

-----------------------------------------------------------------------------
CallUnknown(tty) ==
  /\ pc = "idle"
  /\ tty >= num_tty_devices
  /\ rv' = -ENODEV
  /\ UNCHANGED <<wq, pc, dev, buf, nw, ch, sent, screen, cursor, thre>>

Call(tty, s) ==
  /\ pc = "idle"
  /\ tty < num_tty_devices
  /\ dev' = tty_devices[tty + 1]
  /\ buf' = s
  /\ nw' = 0
  /\ sent' = << >>
  /\ pc' = "outer"
  /\ UNCHANGED <<wq, ch, rv, screen, cursor, thre>>

(* Mistake: off by one. *)
Return_early ==
  /\ pc = "outer"
  /\ nw + 1 >= Len(buf)
  /\ rv' = nw
  /\ pc' = "idle"
  /\ UNCHANGED <<wq, dev, buf, nw, ch, sent, screen, cursor, thre>>

Return ==
  /\ pc = "outer"
  /\ nw >= Len(buf)
  /\ rv' = nw
  /\ pc' = "idle"
  /\ UNCHANGED <<wq, dev, buf, nw, ch, sent, screen, cursor, thre>>

Chunk ==
  /\ pc = "outer"
  /\ nw < Len(buf)
  /\ pc' = "fill"
  /\ UNCHANGED <<wq, dev, buf, nw, ch, sent, rv, screen, cursor, thre>>

(* Mistake: the queue may be full. *)
MoreFits_unchecked == nw < Len(buf)

MoreFits == nw < Len(buf) /\ ~TTYQ_FULL(wq[dev])

Fill ==
  /\ pc = "fill"
  /\ MoreFits
  /\ wq' = [wq EXCEPT ![dev] = TTYQ_PUSH(@, buf[nw + 1])]
  /\ nw' = nw + 1
  /\ UNCHANGED <<pc, dev, buf, ch, sent, rv, screen, cursor, thre>>

FillEnd ==
  /\ pc = "fill"
  /\ ~MoreFits
  /\ pc' = "hook"
  /\ UNCHANGED <<wq, dev, buf, nw, ch, sent, rv, screen, cursor, thre>>

-----------------------------------------------------------------------------
(* The write hooks: while (!TTYQ_EMPTY(dev->write_q)). *)

Pop == wq' = [wq EXCEPT ![dev] = PopAdvance(@)] /\ ch' = PopLoad(wq[dev])

Hook(d) == pc = "hook" /\ dev = d /\ ~TTYQ_EMPTY(wq[d])

(* null_write. *)
NullTake ==
  /\ Hook("null_tty")
  /\ Pop
  /\ sent' = Append(sent, ch')
  /\ UNCHANGED <<pc, dev, buf, nw, rv, screen, cursor, thre>>

(* serial_write, and the poll in serial_send before its outb. *)
SerialTake ==
  /\ Hook("tty_serial")
  /\ Pop
  /\ pc' = "send"
  /\ UNCHANGED <<dev, buf, nw, sent, rv, screen, cursor, thre>>

(* Mistake: the poll waits for the bit to be clear. *)
SerialSend_inverted ==
  /\ pc = "send"
  /\ ~thre
  /\ sent' = Append(sent, ch)
  /\ pc' = "hook"
  /\ UNCHANGED <<wq, dev, buf, nw, ch, rv, screen, cursor, thre>>

SerialSend ==
  /\ pc = "send"
  /\ thre
  /\ thre' = FALSE
  /\ sent' = Append(sent, ch)
  /\ pc' = "hook"
  /\ UNCHANGED <<wq, dev, buf, nw, ch, rv, screen, cursor>>

(* vgatm_write.  A division by zero never gets past its instruction: the   *)
(* handler of the exception returns to it.                                 *)
VgaTake ==
  /\ Hook("tty_vgatm")
  /\ Pop
  /\ IF DividesByZero(ch')
       THEN pc' = "fault" /\ UNCHANGED <<sent, screen>>
       ELSE /\ screen' = send(screen, ch')
            /\ sent' = Append(sent, ch')
            /\ UNCHANGED pc
  /\ UNCHANGED <<dev, buf, nw, rv, cursor, thre>>

(* Mistake: the cursor is not updated. *)
HookEnd_without_cursor ==
  /\ pc = "hook"
  /\ TTYQ_EMPTY(wq[dev])
  /\ pc' = "wait"
  /\ UNCHANGED <<wq, dev, buf, nw, ch, sent, rv, screen, cursor, thre>>

(* Mistake: the hook may return before the queue is empty. *)
HookEnd_early ==
  /\ pc = "hook"
  /\ pc' = "wait"
  /\ UNCHANGED <<wq, dev, buf, nw, ch, sent, rv, screen, cursor, thre>>

HookEnd ==
  /\ pc = "hook"
  /\ TTYQ_EMPTY(wq[dev])
  /\ cursor' = IF dev = "tty_vgatm" THEN CursorRegister(screen) ELSE cursor
  /\ pc' = "wait"
  /\ UNCHANGED <<wq, dev, buf, nw, ch, sent, rv, screen, thre>>

(* while (TTYQ_FULL(dev->write_q)); *)
WaitEnd ==
  /\ pc = "wait"
  /\ ~TTYQ_FULL(wq[dev])
  /\ pc' = "outer"
  /\ UNCHANGED <<wq, dev, buf, nw, ch, sent, rv, screen, cursor, thre>>

(* The UART has moved the character on to its shift register. *)
UartTransmits ==
  /\ ~thre
  /\ thre' = TRUE
  /\ UNCHANGED <<wq, pc, dev, buf, nw, ch, sent, rv, screen, cursor>>

-----------------------------------------------------------------------------
Writer ==
  \/ Return \/ Chunk \/ Fill \/ FillEnd
  \/ NullTake \/ SerialTake \/ SerialSend \/ VgaTake \/ HookEnd \/ WaitEnd

Next ==
  \/ \E call \in Calls : CallUnknown(call[1]) \/ Call(call[1], call[2])
  \/ Writer
  \/ UartTransmits

Spec == Init /\ [][Next]_vars

(* The processor goes on, and so does the serial line. *)
FairSpec == Spec /\ WF_vars(Writer) /\ WF_vars(UartTransmits)

-----------------------------------------------------------------------------
TypeOK ==
  /\ wq \in [Devices -> Queue]
  /\ pc \in PCs
  /\ dev \in Devices
  /\ buf \in Seq(Char)
  /\ nw \in 0 .. Len(buf)
  /\ ch \in Char
  /\ sent \in Seq(Char)
  /\ rv \in Int
  /\ screen \in Screen
  /\ cursor \in Nat
  /\ thre \in BOOLEAN

(* What a hook has popped and not passed on. *)
Held == IF pc = "send" THEN <<ch>> ELSE << >>

(* At every step of a write, what the device was given, what a hook holds  *)
(* and what is still queued make up the part of the buffer counted by nw:  *)
(* chunking loses, repeats and reorders nothing, wherever head and tail    *)
(* happen to be in the ring.                                               *)
InTransit ==
  pc # "fault" => sent \o Held \o Contents(wq[dev]) = SubSeq(buf, 1, nw)

(* A write returns the length of the buffer after the device has been      *)
(* given all of it, and leaves nothing behind in any queue.                *)
WriteDelivers ==
  pc = "idle" =>
    /\ rv >= 0 => rv = Len(buf) /\ sent = buf
    /\ \A d \in Devices : TTYQ_EMPTY(wq[d])

(* The busy wait for room in the queue, which nobody would end, never      *)
(* waits.                                                                  *)
NeverSpins == pc = "wait" => ~TTYQ_FULL(wq[dev])

(* A write returns once the UART keeps transmitting.                       *)
WriteReturns == (pc # "idle") ~> (pc = "idle")

(* The last n characters of sent. *)
LastSent(n) == SubSeq(sent, Len(sent) - n + 1, Len(sent))

(* Text stays readable across wrapped lines and scrolling: the run of      *)
(* visible characters written last is found, in order, in the cells before *)
(* the cursor.                                                             *)
TextIsShown ==
  dev = "tty_vgatm" =>
    \A n \in 1 .. Len(sent) :
      LastSent(n) \in Seq(Glyph) /\ n <= Position(screen) =>
        \A k \in 1 .. n : screen.vidmem[Position(screen) - n + k - 1] = LastSent(n)[k]

(* On a screen of two lines or more the backspace key undoes the echo of   *)
(* any character, across the end of a line and of the screen.              *)
RubOut == height > 1 => \A c \in Glyph : ErasesEcho(screen, c)

(* When a write to the screen returns, the hardware cursor is where the    *)
(* next character will appear.                                             *)
CursorShown ==
  pc = "idle" /\ dev = "tty_vgatm" => cursor = Position(screen)
=============================================================================
