--------------------------- MODULE TtyInputProofs ---------------------------
(***************************************************************************)
(* Proofs about TtyInput, for every queue length, character set, and       *)
(* choice of calls: type correctness, the inductive invariant of tty_read, *)
(* and the refinement of CharFifo by the two queues that carry input.      *)
(***************************************************************************)
EXTENDS TtyInput, ConsoleProofs

(* Where the reader is tells what it knows about the queue of its device.  *)
(* Between the two halves of a pop the character it has loaded is still    *)
(* the one at the tail: the interrupt handler only moves the head.         *)
ReaderKnows ==
  /\ pc = "spin" => async(dev)
  /\ pc \in {"hook", "hooked"} => ~async(dev)
  /\ pc = "hooked" => ~TTYQ_EMPTY(rq[dev])
  /\ pc = "advance" => ~TTYQ_EMPTY(rq[dev]) /\ ch = PopLoad(rq[dev])

(* The hook of a synchronous device finds its queue empty, which is what   *)
(* gives the characters it pushes their room: the drain stops at an empty  *)
(* queue and not at num.                                                   *)
HookFindsRoom ==
  \A d \in Devices :
    ~async(d) /\ (pc \in {"idle", "outer", "hook"} \/ dev # d) => TTYQ_EMPTY(rq[d])

(* The inductive invariant. *)
IInv ==
  /\ TypeOK
  /\ ReaderKnows
  /\ HookFindsRoom
  /\ NeverEIO

-----------------------------------------------------------------------------
(* A push into a queue with room keeps its oldest character in place. *)
LEMMA PushKeepsTail ==
  ASSUME NEW q \in Queue, NEW c \in Char, ~TTYQ_FULL(q)
  PROVE  /\ TTYQ_PUSH(q, c) \in Queue
         /\ ~TTYQ_EMPTY(TTYQ_PUSH(q, c))
         /\ ~TTYQ_EMPTY(q) => PopLoad(TTYQ_PUSH(q, c)) = PopLoad(q)
<1>1. /\ TTYQ_PUSH(q, c) \in Queue
      /\ TTYQ_PUSH(q, c).tail = q.tail
      /\ TTYQ_PUSH(q, c).buf = [q.buf EXCEPT ![q.head] = c]
  BY PushFields
<1>2. ~TTYQ_EMPTY(TTYQ_PUSH(q, c))
  <2>1. Contents(TTYQ_PUSH(q, c)) = Append(Contents(q), c)
    BY PushContents
  <2>2. Append(Contents(q), c) # << >>
    BY ContentsProperties, AppendProperties
  <2>3. QED
    BY <1>1, <2>1, <2>2, ContentsProperties
<1>3. ASSUME ~TTYQ_EMPTY(q)
      PROVE  PopLoad(TTYQ_PUSH(q, c)) = PopLoad(q)
  <2>1. q.tail \in Slot /\ q.head # q.tail /\ q.buf \in [Slot -> Char]
    BY <1>3 DEF Queue, TTYQ_EMPTY
  <2>2. QED
    BY <1>1, <2>1 DEF PopLoad
<1>4. QED
  BY <1>1, <1>2, <1>3

(* Filling an empty queue leaves it well formed and not empty. *)
LEMMA NullFilledQueue ==
  ASSUME NEW q \in Queue, TTYQ_EMPTY(q)
  PROVE  NullFilled(q) \in Queue /\ ~TTYQ_EMPTY(NullFilled(q))
<1>1. /\ q.head \in Slot /\ q.tail = q.head /\ q.buf \in [Slot -> Char]
      /\ TTYQ_BUF_LEN \in Nat /\ TTYQ_BUF_LEN > 1 /\ NUL \in Char
  BY QueueAssumption DEF Queue, TTYQ_EMPTY
<1>2. TTYQ_LEFT(q) = TTYQ_BUF_LEN - 1
  <2>1. /\ TTYQ_CHARS(q) = IF q.head >= q.tail THEN q.head - q.tail
                                                ELSE q.head - q.tail + TTYQ_BUF_LEN
        /\ TTYQ_LEFT(q) = Capacity - TTYQ_CHARS(q)
    BY CharsValue
  <2>2. TTYQ_CHARS(q) = 0
    BY <1>1, <2>1 DEF Slot
  <2>3. QED
    BY <1>1, <2>1, <2>2 DEF Capacity
<1>3. /\ Mask(q.head + TTYQ_LEFT(q)) \in Slot
      /\ Mask(q.head + TTYQ_LEFT(q)) # q.head
  <2>1. q.head + TTYQ_LEFT(q) \in Int /\ q.head + TTYQ_LEFT(q) < 2 * TTYQ_BUF_LEN
    BY <1>1, <1>2 DEF Slot
  <2>2. Mask(q.head + TTYQ_LEFT(q)) \in Slot
    BY <1>1, <1>2, <2>1, MaskValue DEF Slot
  <2>3. Mask(q.head + TTYQ_LEFT(q)) =
          IF q.head + TTYQ_LEFT(q) < TTYQ_BUF_LEN
            THEN q.head + TTYQ_LEFT(q)
            ELSE q.head + TTYQ_LEFT(q) - TTYQ_BUF_LEN
    BY <1>1, <1>2, MaskSum DEF Capacity
  <2>4. QED
    BY <1>1, <1>2, <2>2, <2>3 DEF Slot
<1>4. [s \in Slot |-> IF Mask(s - q.head) \in 0 .. TTYQ_LEFT(q) - 1 THEN NUL ELSE q.buf[s]]
        \in [Slot -> Char]
  BY <1>1
<1>5. /\ NullFilled(q) \in Queue
      /\ NullFilled(q).head = Mask(q.head + TTYQ_LEFT(q))
      /\ NullFilled(q).tail = q.tail
  BY <1>3, <1>4 DEF NullFilled, Queue
<1>6. QED
  BY <1>1, <1>3, <1>5 DEF TTYQ_EMPTY
-----------------------------------------------------------------------------
LEMMA InitInv == Init => IInv
<1> SUFFICES ASSUME Init PROVE IInv
  OBVIOUS
<1>1. \A d \in Devices : rq[d] = ZeroQueue
  BY DEF Init
<1>2. ZeroQueue \in Queue /\ TTYQ_EMPTY(ZeroQueue)
  BY ZeroQueueEmpty DEF TTYQ_EMPTY, ZeroQueue
<1>3. TypeOK
  BY <1>2, QueueAssumption, EmptySeq DEF Init, TypeOK, Devices, PCs
<1>4. ReaderKnows /\ HookFindsRoom /\ NeverEIO
  BY <1>1, <1>2 DEF Init, ReaderKnows, HookFindsRoom, NeverEIO, EIO
<1>5. QED
  BY <1>3, <1>4 DEF IInv

(* Every action keeps the invariant. *)
LEMMA NextInv == IInv /\ [Next]_vars => IInv'
<1> SUFFICES ASSUME IInv, [Next]_vars PROVE IInv'
  OBVIOUS
<1>0. /\ arrived \in [Devices -> Char] /\ rq \in [Devices -> Queue]
      /\ pc \in PCs /\ dev \in Devices /\ num \in Nat /\ ch \in Char /\ buf \in Seq(Char) /\ rv \in Int
  BY DEF IInv, TypeOK
<1>1. ASSUME NEW tty \in Ttys, CallUnknown(tty)
      PROVE  IInv'
  BY <1>1, <1>0 DEF CallUnknown, IInv, TypeOK, ReaderKnows, HookFindsRoom, NeverEIO,
                    EIO, ENODEV, PCs
<1>2. ASSUME NEW tty \in Ttys, NEW n \in Nums, Call(tty, n)
      PROVE  IInv'
  <2>1. tty \in 0 .. 2 /\ n \in Nat
    BY <1>2, InputAssumption DEF Call, num_tty_devices, tty_devices
  <2>2. tty_devices[tty + 1] \in Devices
    BY <2>1 DEF tty_devices, Devices
  <2>3. TypeOK'
    BY <1>2, <1>0, <2>1, <2>2, EmptySeq DEF Call, TypeOK, PCs
  <2>4. QED
    BY <1>2, <2>3 DEF Call, IInv, ReaderKnows, HookFindsRoom, NeverEIO
<1>3. CASE Return
  <2>1. Len(buf) \in Nat
    BY <1>0
  <2>2. TypeOK'
    BY <1>3, <1>0, <2>1 DEF Return, TypeOK, PCs
  <2>3. QED
    BY <1>3, <2>1, <2>2 DEF Return, IInv, ReaderKnows, HookFindsRoom, NeverEIO, EIO
<1>4. CASE Examine
  <2>1. TypeOK'
    BY <1>4, <1>0 DEF Examine, TypeOK, PCs
  <2>2. QED
    BY <1>4, <2>1 DEF Examine, IInv, ReaderKnows, HookFindsRoom, NeverEIO
<1>5. CASE SpinEnd
  <2>1. TypeOK'
    BY <1>5, <1>0 DEF SpinEnd, TypeOK, PCs
  <2>2. QED
    BY <1>5, <2>1 DEF SpinEnd, IInv, ReaderKnows, HookFindsRoom, NeverEIO
<1>6. CASE NullRead
  <2>1. TTYQ_EMPTY(rq[dev]) /\ ~async(dev)
    BY <1>6, <1>0 DEF NullRead, IInv, ReaderKnows, HookFindsRoom
  <2>2. NullFilled(rq[dev]) \in Queue /\ ~TTYQ_EMPTY(NullFilled(rq[dev]))
    BY <1>0, <2>1, NullFilledQueue
  <2>3. /\ rq'[dev] = NullFilled(rq[dev])
        /\ \A d \in Devices \ {dev} : rq'[d] = rq[d]
    BY <1>6, <1>0 DEF NullRead
  <2>4. TypeOK'
    BY <1>6, <1>0, <2>2 DEF NullRead, TypeOK, PCs
  <2>5. QED
    BY <1>6, <2>1, <2>2, <2>3, <2>4
       DEF NullRead, IInv, ReaderKnows, HookFindsRoom, NeverEIO
<1>7. ASSUME NEW c \in Char, SerialRead(c)
      PROVE  IInv'
  <2>1. TTYQ_EMPTY(rq[dev]) /\ ~async(dev)
    BY <1>7, <1>0 DEF SerialRead, IInv, ReaderKnows, HookFindsRoom
  <2>2. ~TTYQ_FULL(rq[dev])
    BY <1>0, <2>1, EmptyNotFull
  <2>3. TTYQ_PUSH(rq[dev], c) \in Queue /\ ~TTYQ_EMPTY(TTYQ_PUSH(rq[dev], c))
    BY <1>0, <2>2, PushKeepsTail
  <2>4. /\ rq' = [rq EXCEPT ![dev] = TTYQ_PUSH(rq[dev], c)]
        /\ rq'[dev] = TTYQ_PUSH(rq[dev], c)
        /\ \A d \in Devices \ {dev} : rq'[d] = rq[d]
        /\ arrived' \in [Devices -> Char]
    BY <1>7, <1>0, <2>2 DEF SerialRead
  <2>5. TypeOK'
    BY <1>7, <1>0, <2>3, <2>4 DEF SerialRead, TypeOK, PCs
  <2>6. QED
    BY <1>7, <2>1, <2>3, <2>4, <2>5
       DEF SerialRead, IInv, ReaderKnows, HookFindsRoom, NeverEIO
<1>8. CASE AfterHook
  <2>1. TypeOK' /\ ~TTYQ_EMPTY(rq[dev])
    BY <1>8, <1>0 DEF AfterHook, TypeOK, PCs, IInv, ReaderKnows
  <2>2. QED
    BY <1>8, <2>1 DEF AfterHook, IInv, ReaderKnows, HookFindsRoom, NeverEIO
<1>9. CASE DrainEnd
  <2>1. TypeOK'
    BY <1>9, <1>0 DEF DrainEnd, TypeOK, PCs
  <2>2. QED
    BY <1>9, <2>1 DEF DrainEnd, IInv, ReaderKnows, HookFindsRoom, NeverEIO
<1>10. CASE DrainLoad
  <2>1. PopLoad(rq[dev]) \in Char
    BY <1>10, <1>0, PopContents DEF DrainLoad
  <2>2. TypeOK'
    BY <1>10, <1>0, <2>1 DEF DrainLoad, TypeOK, PCs
  <2>3. QED
    BY <1>10, <2>2 DEF DrainLoad, IInv, ReaderKnows, HookFindsRoom, NeverEIO
<1>11. CASE DrainAdvance
  <2>1. PopAdvance(rq[dev]) \in Queue
    BY <1>0, PopFields
  <2>2. TypeOK'
    BY <1>11, <1>0, <2>1, AppendProperties DEF DrainAdvance, TypeOK, PCs
  <2>3. QED
    BY <1>11, <1>0, <2>2 DEF DrainAdvance, IInv, ReaderKnows, HookFindsRoom, NeverEIO
<1>12. ASSUME NEW c \in Char, KeyPress(c)
       PROVE  IInv'
  <2> DEFINE vga == "tty_vgatm"
  <2>1. vga \in Devices /\ async(vga) /\ arrived' \in [Devices -> Char]
    BY <1>0, <1>12 DEF Devices, async, KeyPress
  <2>2. CASE TTYQ_FULL(rq[vga])
    BY <1>12, <2>1, <2>2 DEF KeyPress, IInv, TypeOK, ReaderKnows, HookFindsRoom, NeverEIO
  <2>3. CASE ~TTYQ_FULL(rq[vga])
    <3>1. /\ TTYQ_PUSH(rq[vga], c) \in Queue
          /\ ~TTYQ_EMPTY(TTYQ_PUSH(rq[vga], c))
          /\ ~TTYQ_EMPTY(rq[vga]) => PopLoad(TTYQ_PUSH(rq[vga], c)) = PopLoad(rq[vga])
      BY <1>0, <2>1, <2>3, PushKeepsTail
    <3>2. /\ rq' = [rq EXCEPT ![vga] = TTYQ_PUSH(rq[vga], c)]
          /\ UNCHANGED <<pc, dev, num, ch, buf, rv>>
      BY <1>12, <2>3 DEF KeyPress
    <3>3. /\ rq'[vga] = TTYQ_PUSH(rq[vga], c)
          /\ \A d \in Devices \ {vga} : rq'[d] = rq[d]
      BY <1>0, <2>1, <3>2
    <3>4. TypeOK'
      BY <1>0, <2>1, <3>1, <3>2 DEF TypeOK
    <3>5. ReaderKnows'
      BY <1>0, <3>1, <3>2, <3>3 DEF ReaderKnows, IInv
    <3>6. HookFindsRoom'
      BY <2>1, <3>2, <3>3 DEF HookFindsRoom, IInv
    <3>7. QED
      BY <3>2, <3>4, <3>5, <3>6 DEF IInv, NeverEIO
  <2>4. QED
    BY <2>2, <2>3
<1>13. CASE UNCHANGED vars
  BY <1>13 DEF vars, IInv, TypeOK, ReaderKnows, HookFindsRoom, NeverEIO
<1>14. QED
  BY <1>1, <1>2, <1>3, <1>4, <1>5, <1>6, <1>7, <1>8, <1>9, <1>10, <1>11, <1>12, <1>13
     DEF Next, Reader

(* The invariant holds in every reachable state. *)
THEOREM Invariant == Spec => []IInv
<1>1. QED
  BY InitInv, NextInv, PTL DEF Spec

(* The state of tty_read and of the three queues is always of its type. *)
THEOREM TypeCorrect == Spec => []TypeOK
<1>1. IInv => TypeOK
  BY DEF IInv
<1>2. QED
  BY <1>1, Invariant, PTL

(* The error path of tty_read is dead code with the three drivers.         *)
THEOREM EIOIsNeverReturned == Spec => []NeverEIO
<1>1. IInv => NeverEIO
  BY DEF IInv
<1>2. QED
  BY <1>1, Invariant, PTL

-----------------------------------------------------------------------------
(* Steps that leave the queue of device d alone, seen through the mapping: *)
(* they hand out nothing, or begin a call.                                 *)
LEMMA ReaderSteps ==
  ASSUME IInv, NEW d \in Devices,
         \/ \E tty \in Ttys : CallUnknown(tty)
         \/ \E tty \in Ttys, n \in Nums : Call(tty, n)
         \/ Return \/ Examine \/ SpinEnd \/ AfterHook \/ DrainEnd \/ DrainLoad
         \/ UNCHANGED vars
  PROVE  /\ arrived' = arrived
         /\ Contents(rq'[d]) = Contents(rq[d])
         /\ Delivered(d)' = Delivered(d) \/ Delivered(d)' = << >>
<1>1. arrived' = arrived /\ rq' = rq
  BY DEF CallUnknown, Call, Return, Examine, SpinEnd, AfterHook, DrainEnd, DrainLoad, vars
<1>2. (dev' = dev /\ buf' = buf) \/ buf' = << >>
  BY DEF CallUnknown, Call, Return, Examine, SpinEnd, AfterHook, DrainEnd, DrainLoad, vars
<1>3. QED
  BY <1>1, <1>2 DEF Delivered

(* The second half of a pop takes the head of the contents of its device's *)
(* queue and is invisible at the others.                                   *)
LEMMA DrainSteps ==
  ASSUME IInv, NEW d \in Devices, DrainAdvance
  PROVE  /\ arrived' = arrived
         /\ IF d = dev
           THEN /\ Contents(rq[d]) # << >>
                /\ Delivered(d)' = Append(Delivered(d), Head(Contents(rq[d])))
                /\ Contents(rq'[d]) = Tail(Contents(rq[d]))
           ELSE /\ Contents(rq'[d]) = Contents(rq[d])
                /\ Delivered(d)' = Delivered(d)
<1>1. /\ rq \in [Devices -> Queue] /\ dev \in Devices
      /\ ~TTYQ_EMPTY(rq[dev]) /\ ch = PopLoad(rq[dev])
  BY DEF IInv, TypeOK, ReaderKnows, DrainAdvance
<1>2. /\ rq' = [rq EXCEPT ![dev] = PopAdvance(rq[dev])] /\ buf' = Append(buf, ch) /\ dev' = dev
      /\ arrived' = arrived
  BY DEF DrainAdvance
<1>3. CASE d = dev
  <2>1. /\ Contents(rq[d]) # << >>
        /\ ch = Head(Contents(rq[d]))
        /\ Contents(PopAdvance(rq[d])) = Tail(Contents(rq[d]))
    BY <1>1, <1>3, PopContents
  <2>2. rq'[d] = PopAdvance(rq[d])
    BY <1>1, <1>2, <1>3
  <2>3. Delivered(d) = buf /\ Delivered(d)' = buf'
    BY <1>2, <1>3 DEF Delivered
  <2>4. QED
    BY <1>2, <1>3, <2>1, <2>2, <2>3
<1>4. CASE d # dev
  BY <1>1, <1>2, <1>4 DEF Delivered
<1>5. QED
  BY <1>2, <1>3, <1>4

(* A driver's push of c into the queue of device d, which discards c when  *)
(* the queue is full, is a Put of the abstract channel.                    *)
LEMMA DriverSteps ==
  ASSUME IInv, NEW d \in Devices, NEW c \in Char,
         rq' = IF TTYQ_FULL(rq[d]) THEN rq ELSE [rq EXCEPT ![d] = TTYQ_PUSH(rq[d], c)]
  PROVE  /\ \A e \in Devices \ {d} : rq'[e] = rq[e]
         /\ Contents(rq'[d]) = IF Len(Contents(rq[d])) < Capacity
                                  THEN Append(Contents(rq[d]), c)
                                  ELSE Contents(rq[d])
<1>1. rq \in [Devices -> Queue] /\ rq[d] \in Queue
  BY DEF IInv, TypeOK
<1>2. CASE TTYQ_FULL(rq[d])
  <2>1. Len(Contents(rq[d])) = Capacity /\ Capacity \in Nat
    BY <1>1, <1>2, ContentsProperties, QueueAssumption DEF Capacity
  <2>2. rq' = rq
    BY <1>2
  <2>3. QED
    BY <2>1, <2>2
<1>3. CASE ~TTYQ_FULL(rq[d])
  <2>1. rq'[d] = TTYQ_PUSH(rq[d], c) /\ \A e \in Devices \ {d} : rq'[e] = rq[e]
    BY <1>1, <1>3
  <2>2. Contents(TTYQ_PUSH(rq[d], c)) = Append(Contents(rq[d]), c)
    BY <1>1, <1>3, PushContents
  <2>3. /\ Len(Contents(rq[d])) <= Capacity
        /\ Len(Contents(rq[d])) # Capacity
        /\ Len(Contents(rq[d])) \in Nat
    BY <1>1, <1>3, ContentsProperties
  <2>4. Capacity \in Nat
    BY QueueAssumption DEF Capacity
  <2>5. Len(Contents(rq[d])) < Capacity
    BY <2>3, <2>4
  <2>6. Contents(rq'[d]) = Append(Contents(rq[d]), c)
    BY <2>1, <2>2
  <2>7. QED
    BY <2>1, <2>5, <2>6
<1>4. QED
  BY <1>2, <1>3

(* The VGA console's queue, filled by the keyboard interrupt between any   *)
(* two steps of tty_read, is a bounded FIFO channel to the reader.         *)
THEOREM VgaQueueIsFifo == Spec => VgaIsFifo
<1> DEFINE vga == "tty_vgatm"
<1>0. vga \in Devices /\ async(vga)
  BY DEF Devices, async
<1>1. Init => VgaFifo!Init
  <2> SUFFICES ASSUME Init PROVE VgaFifo!Init
    OBVIOUS
  <2>1. rq[vga] = ZeroQueue /\ buf = << >> /\ arrived[vga] \in Char
    BY <1>0, QueueAssumption DEF Init
  <2>2. QED
    BY <2>1, ZeroQueueEmpty DEF VgaFifo!Init, Delivered
<1>2. IInv /\ [Next]_vars => [VgaFifo!Next]_VgaFifo!vars
  <2> SUFFICES ASSUME IInv, [Next]_vars
               PROVE  VgaFifo!Next \/ UNCHANGED VgaFifo!vars
    BY DEF VgaFifo!vars
  <2>1. CASE \/ \E tty \in Ttys : CallUnknown(tty)
             \/ \E tty \in Ttys, n \in Nums : Call(tty, n)
             \/ Return \/ Examine \/ SpinEnd \/ AfterHook \/ DrainEnd \/ DrainLoad
             \/ UNCHANGED vars
    BY <1>0, <2>1, ReaderSteps DEF VgaFifo!Next, VgaFifo!NewCall, VgaFifo!vars
  <2>2. CASE NullRead
    BY <2>2, <1>0 DEF NullRead, Delivered, VgaFifo!vars, IInv, TypeOK
  <2>3. ASSUME NEW c \in Char, SerialRead(c)
        PROVE  UNCHANGED VgaFifo!vars
    BY <2>3, <1>0 DEF SerialRead, Delivered, VgaFifo!vars, IInv, TypeOK
  <2>4. CASE DrainAdvance
    BY <1>0, <2>4, DrainSteps DEF VgaFifo!Next, VgaFifo!Get, VgaFifo!vars
  <2>5. ASSUME NEW c \in Char, KeyPress(c)
        PROVE  VgaFifo!Put(c)
    <3>1. /\ rq' = IF TTYQ_FULL(rq[vga]) THEN rq ELSE [rq EXCEPT ![vga] = TTYQ_PUSH(rq[vga], c)]
          /\ Delivered(vga)' = Delivered(vga)
          /\ arrived'[vga] = c
      BY <1>0, <2>5 DEF KeyPress, Delivered, IInv, TypeOK
    <3>2. Contents(rq'[vga]) = IF Len(Contents(rq[vga])) < Capacity
                                THEN Append(Contents(rq[vga]), c)
                                ELSE Contents(rq[vga])
      BY <1>0, <3>1, DriverSteps
    <3>3. QED
      BY <3>1, <3>2 DEF VgaFifo!Put
  <2>6. QED
    BY <2>1, <2>2, <2>3, <2>4, <2>5 DEF Next, Reader, VgaFifo!Next
<1>3. QED
  BY <1>1, <1>2, Invariant, PTL DEF Spec, VgaIsFifo, VgaFifo!Spec

(* So is the serial line's queue, filled by the read hook that tty_read    *)
(* calls when it finds the queue empty.                                    *)
THEOREM SerialQueueIsFifo == Spec => SerialIsFifo
<1> DEFINE ser == "tty_serial"
<1>0. ser \in Devices
  BY DEF Devices
<1>1. Init => SerialFifo!Init
  <2> SUFFICES ASSUME Init PROVE SerialFifo!Init
    OBVIOUS
  <2>1. rq[ser] = ZeroQueue /\ buf = << >> /\ arrived[ser] \in Char
    BY <1>0, QueueAssumption DEF Init
  <2>2. QED
    BY <2>1, ZeroQueueEmpty DEF SerialFifo!Init, Delivered
<1>2. IInv /\ [Next]_vars => [SerialFifo!Next]_SerialFifo!vars
  <2> SUFFICES ASSUME IInv, [Next]_vars
               PROVE  SerialFifo!Next \/ UNCHANGED SerialFifo!vars
    BY DEF SerialFifo!vars
  <2>1. CASE \/ \E tty \in Ttys : CallUnknown(tty)
             \/ \E tty \in Ttys, n \in Nums : Call(tty, n)
             \/ Return \/ Examine \/ SpinEnd \/ AfterHook \/ DrainEnd \/ DrainLoad
             \/ UNCHANGED vars
    BY <1>0, <2>1, ReaderSteps DEF SerialFifo!Next, SerialFifo!NewCall, SerialFifo!vars
  <2>2. CASE NullRead
    BY <2>2, <1>0 DEF NullRead, Delivered, SerialFifo!vars, IInv, TypeOK
  <2>3. ASSUME NEW c \in Char, SerialRead(c)
        PROVE  SerialFifo!Put(c)
    <3>1. /\ rq' = IF TTYQ_FULL(rq[ser]) THEN rq ELSE [rq EXCEPT ![ser] = TTYQ_PUSH(rq[ser], c)]
          /\ Delivered(ser)' = Delivered(ser)
          /\ arrived'[ser] = c
      BY <2>3, <1>0 DEF SerialRead, Delivered, IInv, TypeOK
    <3>2. Contents(rq'[ser]) = IF Len(Contents(rq[ser])) < Capacity
                                THEN Append(Contents(rq[ser]), c)
                                ELSE Contents(rq[ser])
      BY <1>0, <3>1, DriverSteps
    <3>3. QED
      BY <3>1, <3>2 DEF SerialFifo!Put
  <2>4. CASE DrainAdvance
    BY <1>0, <2>4, DrainSteps DEF SerialFifo!Next, SerialFifo!Get, SerialFifo!vars
  <2>5. ASSUME NEW c \in Char, KeyPress(c)
        PROVE  UNCHANGED SerialFifo!vars
    BY <2>5, <1>0 DEF KeyPress, Delivered, SerialFifo!vars, IInv, TypeOK
  <2>6. QED
    BY <2>1, <2>2, <2>3, <2>4, <2>5 DEF Next, Reader, SerialFifo!Next
<1>3. QED
  BY <1>1, <1>2, Invariant, PTL DEF Spec, SerialIsFifo, SerialFifo!Spec
=============================================================================
