---------------------------- MODULE AtkbdProofs ----------------------------
(***************************************************************************)
(* Theorems about the keyboard and the mouse at work, for every set of     *)
(* keys and every pace of the user, also one who uses both at once.        *)
(***************************************************************************)
EXTENDS Atkbd, SequenceTheorems, TLAPS

(* The invariant needs no strengthening: a handler polls from "first" on,  *)
(* and when it stops the byte it has taken has left the buffer empty, or   *)
(* another one has come in with a request of its own.                      *)
LEMMA NextWakeup == NoLostWakeup /\ [Next]_vars => NoLostWakeup'
<1> SUFFICES ASSUME NoLostWakeup, [Next]_vars
             PROVE  NoLostWakeup'
  OBVIOUS
<1>1. ASSUME NEW k \in Keys, Press(k) \/ LetGo(k)
      PROVE  NoLostWakeup'
  BY <1>1 DEF NoLostWakeup, Press, LetGo, buffer, keyboardVars, mouseVars
<1>2. CASE Transfer
  BY <1>2 DEF NoLostWakeup, Transfer, buffer, keyboardVars, mouseVars
<1>3. CASE MoveMouse
  BY <1>3 DEF NoLostWakeup, MoveMouse, buffer, keyboardVars, mouseVars
<1>4. CASE TransferMouse
  BY <1>4 DEF NoLostWakeup, TransferMouse, buffer, keyboardVars, mouseVars
<1>5. CASE MouseInterrupt
  BY <1>5 DEF NoLostWakeup, MouseInterrupt, buffer, keyboardVars, mouseVars
<1>6. CASE ReceiveMouse
  BY <1>6 DEF NoLostWakeup, ReceiveMouse, buffer, keyboardVars, mouseVars
<1>7. CASE PrintMovement
  BY <1>7 DEF NoLostWakeup, PrintMovement, buffer, keyboardVars, mouseVars
<1>8. CASE Interrupt
  BY <1>8 DEF NoLostWakeup, Interrupt, buffer, keyboardVars, mouseVars
<1>9. CASE TimeOut
  BY <1>9 DEF NoLostWakeup, TimeOut, buffer, keyboardVars, mouseVars
<1>10. CASE Receive
  BY <1>10 DEF NoLostWakeup, Receive, buffer, keyboardVars, mouseVars
<1>11. CASE KeyEvent
  BY <1>11 DEF NoLostWakeup, KeyEvent, buffer, keyboardVars, mouseVars
<1>12. CASE UNCHANGED vars
  BY <1>12 DEF NoLostWakeup, vars, buffer, keyboardVars, mouseVars
<1> QED
  BY <1>1, <1>2, <1>3, <1>4, <1>5, <1>6, <1>7, <1>8, <1>9, <1>10, <1>11, <1>12
     DEF Next, Handler, Sending

(* A byte in the 8042 is being read or its interrupt is still to come, at  *)
(* whatever moments bytes arrive while the handler polls.                  *)
THEOREM ByteHasInterrupt == Spec => []NoLostWakeup
<1>1. Init => NoLostWakeup
  BY DEF Init, NoLostWakeup
<1> QED
  BY <1>1, NextWakeup, PTL DEF Spec

-----------------------------------------------------------------------------
(* The invariant behind MouseInStep. *)

(* Of two devices used in turn one is quiet, and no byte of it waits. *)
Separate ==
  \/ KeyboardQuiet /\ (obf # << >> => aux)
  \/ MouseQuiet /\ (obf # << >> => ~aux)

Bytes == {Packet[1], Packet[2], Packet[3]}

(* How many bytes of a packet the handler has read, and the 8042 has. *)
Taken ==
  CASE pc = "data1" -> 1
    [] pc = "data2" -> 2
    [] pc = "print" -> 3
    [] OTHER        -> 0

Waiting == IF obf # << >> /\ aux THEN 1 ELSE 0

(* Every byte is the one that is due. *)
Due(n) == Packet[(n % 3) + 1]

InStep ==
  /\ data \in Seq(Bytes)
  /\ mouse_wire \in Seq(Bytes)
  /\ Len(data) = Taken
  /\ \A i \in 1 .. Len(data) : data[i] = Due(i - 1)
  /\ obf # << >> /\ aux => obf = <<Due(Taken)>>
  /\ \A i \in 1 .. Len(mouse_wire) : mouse_wire[i] = Due(Taken + Waiting + i - 1)
  /\ (Taken + Waiting + Len(mouse_wire)) % 3 = 0

Separated == NoLostWakeup /\ Separate

LEMMA NextSeparate ==
  ASSUME ~BothHands
  PROVE  Separated /\ [Next]_vars => Separate'
<1> SUFFICES ASSUME NoLostWakeup, Separate, [Next]_vars PROVE Separate'
  BY DEF Separated
<1> USE DEF KeyboardQuiet, MouseQuiet, Separate
<1>1. ASSUME NEW k \in Keys, Press(k) \/ LetGo(k)
      PROVE  Separate'
  <2>1. /\ MouseQuiet /\ UNCHANGED <<obf, aux, irr, pc, mouse_wire, mouse_irr>>
    BY <1>1 DEF Press, LetGo, buffer, mouseVars
  <2>2. obf # << >> => ~aux
    BY <2>1 DEF NoLostWakeup
  <2> QED
    BY <2>1, <2>2
<1>2. CASE MoveMouse
  <2>1. /\ KeyboardQuiet /\ UNCHANGED <<obf, aux, irr, pc, pending, wire>>
    BY <1>2 DEF MoveMouse, buffer, keyboardVars
  <2>2. obf # << >> => aux
    BY <2>1 DEF NoLostWakeup
  <2> QED
    BY <2>1, <2>2
<1>3. CASE Transfer
  BY <1>3 DEF Transfer, mouseVars
<1>4. CASE TransferMouse
  BY <1>4 DEF TransferMouse, keyboardVars
<1>5. CASE Interrupt
  BY <1>5 DEF Interrupt, buffer, mouseVars
<1>6. CASE TimeOut
  BY <1>6 DEF TimeOut, buffer, keyboardVars, mouseVars
<1>7. CASE Receive
  BY <1>7 DEF Receive, mouseVars
<1>8. CASE KeyEvent
  BY <1>8 DEF KeyEvent, buffer, mouseVars
<1>9. CASE MouseInterrupt
  BY <1>9 DEF MouseInterrupt, buffer, keyboardVars
<1>10. CASE ReceiveMouse
  BY <1>10 DEF ReceiveMouse, keyboardVars
<1>11. CASE PrintMovement
  BY <1>11 DEF PrintMovement, buffer, keyboardVars
<1>12. CASE UNCHANGED vars
  BY <1>12 DEF vars, buffer, keyboardVars, mouseVars
<1> QED
  BY <1>1, <1>2, <1>3, <1>4, <1>5, <1>6, <1>7, <1>8, <1>9, <1>10, <1>11, <1>12
     DEF Next, Handler, Sending

(* A step that moves none of the mouse's bytes. *)
LEMMA SameBytes ==
  ASSUME InStep, UNCHANGED <<data, mouse_wire>>, Taken' = Taken, Waiting' = Waiting,
         obf' # << >> /\ aux' => obf' = obf /\ aux' = aux
  PROVE  InStep'
<1>1. obf' # << >> /\ aux' => obf' = <<Due(Taken)>>
  BY DEF InStep
<1>2. /\ data' \in Seq(Bytes) /\ mouse_wire' \in Seq(Bytes) /\ Len(data') = Taken
      /\ \A i \in 1 .. Len(data') : data'[i] = Due(i - 1)
      /\ \A i \in 1 .. Len(mouse_wire') : mouse_wire'[i] = Due(Taken + Waiting + i - 1)
      /\ (Taken + Waiting + Len(mouse_wire')) % 3 = 0
  BY DEF InStep
<1> QED
  BY <1>1, <1>2, Zenon DEF InStep, Due

LEMMA PacketBytes ==
  /\ Packet \in Seq(Bytes) /\ Len(Packet) = 3
  /\ \A n \in Nat : Due(n) \in Bytes
  /\ \A n \in Nat, j \in 1 .. 3 : n % 3 = 0 => Due(n + j - 1) = Packet[j]
<1>1. Packet = <<Packet[1], Packet[2], Packet[3]>> /\ Len(Packet) = 3
  BY DEF Packet
<1>2. Packet[1] \in Bytes /\ Packet[2] \in Bytes /\ Packet[3] \in Bytes
  BY DEF Bytes
<1>3. ASSUME NEW a \in Bytes, NEW b \in Bytes, NEW c \in Bytes PROVE <<a, b, c>> \in Seq(Bytes)
  OBVIOUS
<1>4. \A n \in Nat : n % 3 = 0 \/ n % 3 = 1 \/ n % 3 = 2
  OBVIOUS
<1>5. \A n \in Nat : Due(n) \in Bytes
  <2> SUFFICES ASSUME NEW n \in Nat PROVE Packet[(n % 3) + 1] \in Bytes
    BY DEF Due
  <2>1. (n % 3) + 1 = 1 \/ (n % 3) + 1 = 2 \/ (n % 3) + 1 = 3
    BY <1>4
  <2> QED
    BY <1>2, <2>1
<1>6. \A n \in Nat, j \in 1 .. 3 : n % 3 = 0 => Due(n + j - 1) = Packet[j]
  <2> SUFFICES ASSUME NEW n \in Nat, NEW j \in 1 .. 3, n % 3 = 0
               PROVE  Packet[((n + j - 1) % 3) + 1] = Packet[j]
    BY DEF Due
  <2>1. ((n + j - 1) % 3) + 1 = j
    OBVIOUS
  <2> QED
    BY <2>1
<1> QED
  BY <1>1, <1>2, <1>3, <1>5, <1>6

(* The mouse sends a packet, the 8042 takes a byte of it. *)
LEMMA MouseSends ==
  ASSUME InStep, MoveMouse \/ TransferMouse
  PROVE  InStep'
<1>0. /\ data \in Seq(Bytes) /\ mouse_wire \in Seq(Bytes) /\ Len(data) = Taken
      /\ \A i \in 1 .. Len(data) : data[i] = Due(i - 1)
      /\ \A i \in 1 .. Len(mouse_wire) : mouse_wire[i] = Due(Taken + Waiting + i - 1)
      /\ (Taken + Waiting + Len(mouse_wire)) % 3 = 0
  BY DEF InStep
<1>1. Taken \in 0 .. 3 /\ Waiting \in 0 .. 1 /\ Len(mouse_wire) \in Nat
  BY <1>0, LenProperties DEF Taken, Waiting
<1>2. CASE MoveMouse
  <2>1. /\ mouse_wire' = mouse_wire \o Packet /\ UNCHANGED <<obf, aux, pc, data>>
    BY <1>2 DEF MoveMouse, buffer
  <2>2. Taken' = Taken /\ Waiting' = Waiting
    BY <2>1 DEF Taken, Waiting
  <2> DEFINE len == Len(mouse_wire)
             more == mouse_wire \o Packet
             n == Taken + Waiting
  <2>3. /\ more \in Seq(Bytes) /\ Len(more) = len + 3
        /\ \A i \in 1 .. len + 3 : more[i] = IF i <= len THEN mouse_wire[i] ELSE Packet[i - len]
    <3>1. Packet \in Seq(Bytes) /\ Len(Packet) = 3
      BY PacketBytes
    <3> HIDE DEF len, more, n
    <3>2. \A s, u \in Seq(Bytes) :
            /\ s \o u \in Seq(Bytes) /\ Len(s \o u) = Len(s) + Len(u)
            /\ \A i \in 1 .. Len(s) + Len(u) : (s \o u)[i] = IF i <= Len(s) THEN s[i] ELSE u[i - Len(s)]
      BY ConcatProperties
    <3>3. /\ more \in Seq(Bytes) /\ Len(more) = Len(mouse_wire) + Len(Packet)
          /\ \A i \in 1 .. Len(mouse_wire) + Len(Packet) :
               more[i] = IF i <= Len(mouse_wire) THEN mouse_wire[i] ELSE Packet[i - Len(mouse_wire)]
      BY <1>0, <3>1, <3>2, Zenon DEF more
    <3> QED
      BY <3>1, <3>3, Zenon DEF len
  <2>4. /\ n \in Nat /\ len \in Nat /\ (n + len) % 3 = 0
        /\ \A i \in 1 .. len : mouse_wire[i] = Due(n + i - 1)
    BY <1>0, <1>1
  <2> HIDE DEF len, more, n
  <2>5. ASSUME NEW i \in 1 .. Len(more) PROVE more[i] = Due(n + i - 1)
    <3>1. CASE i <= len
      BY <2>3, <2>4, <2>5, <3>1
    <3>2. CASE i > len
      <4>1. i - len \in 1 .. 3 /\ (n + len) + (i - len) - 1 = n + i - 1 /\ n + len \in Nat
        BY <2>3, <2>4, <2>5, <3>2
      <4>2. Due((n + len) + (i - len) - 1) = Packet[i - len]
        BY <2>4, <4>1, PacketBytes
      <4> QED
        BY <2>3, <2>4, <2>5, <3>2, <4>1, <4>2
    <3> QED
      BY <2>3, <2>4, <2>5, <3>1, <3>2
  <2>6. (n + Len(more)) % 3 = 0
    BY <2>3, <2>4
  <2>7. /\ mouse_wire' \in Seq(Bytes)
        /\ \A i \in 1 .. Len(mouse_wire') : mouse_wire'[i] = Due(Taken + Waiting + i - 1)
        /\ (Taken + Waiting + Len(mouse_wire')) % 3 = 0
    BY <2>1, <2>3, <2>5, <2>6 DEF more, n
  <2>8. obf' # << >> /\ aux' => obf' = <<Due(Taken)>>
    BY <2>1 DEF InStep
  <2>9. /\ data' \in Seq(Bytes) /\ Len(data') = Taken
        /\ \A i \in 1 .. Len(data') : data'[i] = Due(i - 1)
    BY <1>0, <2>1
  <2> QED
    BY <2>2, <2>7, <2>8, <2>9, Zenon DEF InStep, Due
<1>3. CASE TransferMouse
  <2>1. /\ mouse_wire # << >> /\ obf = << >> /\ obf' = <<Head(mouse_wire)>> /\ aux' = TRUE
        /\ mouse_wire' = Tail(mouse_wire) /\ UNCHANGED <<pc, data>>
    BY <1>3 DEF TransferMouse
  <2>2. Taken' = Taken /\ Waiting' = 1 /\ Waiting = 0
    BY <2>1 DEF Taken, Waiting
  <2> DEFINE len == Len(mouse_wire)
             rest == Tail(mouse_wire)
             n == Taken
  <2>3. /\ rest \in Seq(Bytes) /\ Len(rest) = len - 1 /\ Head(mouse_wire) = mouse_wire[1]
        /\ \A i \in 1 .. Len(rest) : rest[i] = mouse_wire[i + 1]
    BY <1>0, <2>1, HeadTailProperties
  <2>4. /\ n \in Nat /\ len \in Nat \ {0} /\ (n + len) % 3 = 0
        /\ \A i \in 1 .. len : mouse_wire[i] = Due(n + i - 1)
    BY <1>0, <1>1, <2>1, <2>2, EmptySeq
  <2> HIDE DEF len, rest, n
  <2>5. \A i \in 1 .. Len(rest) : rest[i] = Due(n + 1 + i - 1)
    <3>1. ASSUME NEW i \in 1 .. Len(rest) PROVE rest[i] = Due(n + 1 + i - 1)
      <4>1. i + 1 \in 1 .. len /\ n + (i + 1) - 1 = n + 1 + i - 1
        BY <2>3, <2>4, <3>1
      <4> QED
        BY <2>3, <2>4, <3>1, <4>1
    <3> QED
      BY <3>1
  <2>6. (n + 1 + Len(rest)) % 3 = 0
    BY <2>3, <2>4
  <2>7. obf' = <<Due(n)>>
    <3>1. 1 \in 1 .. len /\ n + 1 - 1 = n
      BY <2>4
    <3> QED
      BY <2>1, <2>3, <2>4, <3>1
  <2>8. /\ mouse_wire' \in Seq(Bytes) /\ obf' = <<Due(Taken)>>
        /\ \A i \in 1 .. Len(mouse_wire') : mouse_wire'[i] = Due(Taken + 1 + i - 1)
        /\ (Taken + 1 + Len(mouse_wire')) % 3 = 0
    BY <2>1, <2>3, <2>5, <2>6, <2>7 DEF rest, n
  <2>9. /\ data' \in Seq(Bytes) /\ Len(data') = Taken
        /\ \A i \in 1 .. Len(data') : data'[i] = Due(i - 1)
    BY <1>0, <2>1
  <2> QED
    BY <2>2, <2>8, <2>9, Zenon DEF InStep, Due
<1> QED
  BY <1>2, <1>3

(* The handler of the mouse takes a byte. *)
LEMMA MouseByte ==
  ASSUME InStep, Separate, ReceiveMouse
  PROVE  InStep'
<1>1. /\ pc \in {"data0", "data1", "data2"} /\ obf # << >> /\ aux
      /\ obf' = << >> /\ data' = data \o obf /\ mouse_wire' = mouse_wire
      /\ pc' = CASE pc = "data0" -> "data1" [] pc = "data1" -> "data2" [] OTHER -> "print"
  BY DEF ReceiveMouse, Separate, MouseQuiet
<1>2. Taken \in 0 .. 2 /\ Taken' = Taken + 1 /\ Waiting = 1 /\ Waiting' = 0
  BY <1>1 DEF Taken, Waiting
<1>3. /\ data \in Seq(Bytes) /\ mouse_wire \in Seq(Bytes) /\ Len(data) = Taken
      /\ \A i \in 1 .. Len(data) : data[i] = Due(i - 1)
      /\ obf = <<Due(Taken)>>
      /\ \A i \in 1 .. Len(mouse_wire) : mouse_wire[i] = Due(Taken + Waiting + i - 1)
      /\ (Taken + Waiting + Len(mouse_wire)) % 3 = 0
  BY <1>1 DEF InStep
<1> DEFINE n == Taken
           b == Due(n)
           more == Append(data, b)
<1>4. b \in Bytes
  BY <1>2, PacketBytes
<1>5. data' = more
  BY <1>1, <1>3, <1>4, AppendIsConcat
<1>6. /\ more \in Seq(Bytes) /\ Len(more) = n + 1 /\ more[n + 1] = b
      /\ \A i \in 1 .. n : more[i] = data[i]
  BY <1>3, <1>4, AppendProperties
<1>7. n \in 0 .. 2 /\ \A i \in 1 .. n : data[i] = Due(i - 1)
  BY <1>2, <1>3
<1>8. \A i \in 1 .. Len(more) : more[i] = Due(i - 1)
  <2> HIDE DEF n, more
  <2>1. (n + 1) - 1 = n
    BY <1>7
  <2> QED
    BY <1>6, <1>7, <2>1
<1>9. /\ data' \in Seq(Bytes) /\ Len(data') = Taken + 1
      /\ \A i \in 1 .. Len(data') : data'[i] = Due(i - 1)
  BY <1>5, <1>6, <1>8
<1>10. /\ mouse_wire' \in Seq(Bytes)
       /\ \A i \in 1 .. Len(mouse_wire') : mouse_wire'[i] = Due(Taken + 1 + 0 + i - 1)
       /\ (Taken + 1 + 0 + Len(mouse_wire')) % 3 = 0
  <2>1. Taken + 1 + 0 = Taken + Waiting
    BY <1>2
  <2> QED
    BY <1>1, <1>3, <2>1
<1> QED
  BY <1>1, <1>2, <1>9, <1>10, Zenon DEF InStep, Due

(* The handler prints what it has, and the next packet is due. *)
LEMMA MousePrints ==
  ASSUME InStep, PrintMovement
  PROVE  InStep'
<1>1. /\ pc = "print" /\ pc' = "returned" /\ data' = << >> /\ UNCHANGED <<obf, aux, mouse_wire>>
  BY DEF PrintMovement, buffer
<1>2. Taken = 3 /\ Taken' = 0 /\ Waiting' = Waiting /\ Waiting \in Nat
  BY <1>1 DEF Taken, Waiting
<1>3. \A n \in Nat : (3 + n) % 3 = n % 3 /\ Due(3 + n) = Due(n)
  <2>1. \A n \in Nat : (3 + n) % 3 = n % 3
    OBVIOUS
  <2> QED
    BY <2>1 DEF Due
<1>4. /\ mouse_wire \in Seq(Bytes) /\ Len(mouse_wire) \in Nat
      /\ obf # << >> /\ aux => obf = <<Due(3)>>
      /\ \A i \in 1 .. Len(mouse_wire) : mouse_wire[i] = Due(3 + Waiting + i - 1)
      /\ (3 + Waiting + Len(mouse_wire)) % 3 = 0
  BY <1>2, LenProperties DEF InStep
<1>5. Due(3) = Due(0)
  <2>1. 3 + 0 = 3 /\ 0 \in Nat
    OBVIOUS
  <2> QED
    BY <1>3, <2>1
<1>6. \A i \in 1 .. Len(mouse_wire) : mouse_wire[i] = Due(0 + Waiting + i - 1)
  <2> SUFFICES ASSUME NEW i \in 1 .. Len(mouse_wire)
               PROVE  mouse_wire[i] = Due(0 + Waiting + i - 1)
    OBVIOUS
  <2>1. 0 + Waiting + i - 1 \in Nat /\ 3 + (0 + Waiting + i - 1) = 3 + Waiting + i - 1
    BY <1>2, <1>4
  <2> QED
    BY <1>3, <1>4, <2>1
<1>7. (0 + Waiting + Len(mouse_wire)) % 3 = 0
  <2>1. 0 + Waiting + Len(mouse_wire) \in Nat
        /\ 3 + (0 + Waiting + Len(mouse_wire)) = 3 + Waiting + Len(mouse_wire)
    BY <1>2, <1>4
  <2> QED
    BY <1>3, <1>4, <2>1
<1>8. /\ data' \in Seq(Bytes) /\ Len(data') = 0 /\ \A i \in 1 .. Len(data') : data'[i] = Due(i - 1)
  BY <1>1
<1>9. /\ mouse_wire' \in Seq(Bytes)
      /\ obf' # << >> /\ aux' => obf' = <<Due(0)>>
      /\ \A i \in 1 .. Len(mouse_wire') : mouse_wire'[i] = Due(0 + Waiting + i - 1)
      /\ (0 + Waiting + Len(mouse_wire')) % 3 = 0
  BY <1>1, <1>4, <1>5, <1>6, <1>7
<1> QED
  BY <1>2, <1>8, <1>9, Zenon DEF InStep, Due

LEMMA NextInStep == Separate /\ InStep /\ [Next]_vars => InStep'
<1> SUFFICES ASSUME Separate, InStep, [Next]_vars PROVE InStep'
  OBVIOUS
<1>1. CASE MoveMouse \/ TransferMouse
  BY <1>1, MouseSends
<1>2. CASE ReceiveMouse
  BY <1>2, MouseByte
<1>3. CASE PrintMovement
  BY <1>3, MousePrints
<1>4. CASE Receive
  <2>1. /\ pc \in {"first", "more"} /\ pc' \in {"more", "received"} /\ UNCHANGED <<data, mouse_wire>>
        /\ obf' = << >> /\ ~(obf # << >> /\ aux)
    BY <1>4 DEF Receive, mouseVars, Separate, KeyboardQuiet
  <2>2. Taken' = Taken /\ Waiting' = Waiting
    BY <2>1 DEF Taken, Waiting
  <2> QED
    BY <2>1, <2>2, SameBytes
<1>5. CASE Transfer
  <2>1. obf = << >> /\ aux' = FALSE /\ UNCHANGED <<pc, data, mouse_wire>>
    BY <1>5 DEF Transfer, mouseVars
  <2>2. Taken' = Taken /\ Waiting' = Waiting
    BY <2>1 DEF Taken, Waiting
  <2> QED
    BY <2>1, <2>2, SameBytes
<1>6. CASE \/ Interrupt \/ TimeOut \/ KeyEvent \/ MouseInterrupt \/ UNCHANGED vars
           \/ \E k \in Keys : Press(k) \/ LetGo(k)
  <2>1. /\ UNCHANGED <<obf, aux, data, mouse_wire>>
        /\ \/ pc' = pc
           \/ pc \in {"returned", "first", "data0", "received"} /\ pc' \in {"returned", "first", "data0"}
    BY <1>6 DEF Interrupt, TimeOut, KeyEvent, MouseInterrupt, Press, LetGo, vars, buffer, mouseVars
  <2>2. Taken' = Taken /\ Waiting' = Waiting
    BY <2>1 DEF Taken, Waiting
  <2> QED
    BY <2>1, <2>2, SameBytes
<1> QED
  BY <1>1, <1>2, <1>3, <1>4, <1>5, <1>6 DEF Next, Handler, Sending

(* Whoever does not use the keyboard and the mouse at once gets every      *)
(* movement printed as it was made: the handler never takes the bytes of   *)
(* two packets for one.                                                    *)
THEOREM PacketsInStep ==
  ASSUME ~BothHands
  PROVE  Spec => []MouseInStep
<1>1. Init => NoLostWakeup /\ Separate /\ InStep
  BY DEF Init, NoLostWakeup, Separate, KeyboardQuiet, InStep, Taken, Waiting
<1>2. ASSUME InStep PROVE MouseInStep
  <2> SUFFICES ASSUME pc = "print" PROVE data = Packet
    BY DEF MouseInStep
  <2>1. Taken = 3
    BY DEF Taken
  <2>2. data \in Seq(Bytes) /\ Len(data) = 3 /\ \A i \in 1 .. 3 : data[i] = Due(i - 1)
    BY <1>2, <2>1 DEF InStep
  <2>3. \A i \in 1 .. 3 : data[i] = Packet[i]
    <3> SUFFICES ASSUME NEW i \in 1 .. 3 PROVE data[i] = Packet[i]
      OBVIOUS
    <3>1. 0 \in Nat /\ 0 % 3 = 0 /\ 0 + i - 1 = i - 1
      OBVIOUS
    <3>2. Due(0 + i - 1) = Packet[i]
      BY <3>1, PacketBytes
    <3> QED
      BY <2>2, <3>1, <3>2
  <2> QED
    BY <2>2, <2>3, PacketBytes, SeqEqual
<1>3. NoLostWakeup /\ Separate /\ [Next]_vars => Separate'
  BY NextSeparate DEF Separated
<1> QED
  BY <1>1, <1>2, <1>3, NextWakeup, NextInStep, PTL DEF Spec

-----------------------------------------------------------------------------
(* The tables of scan codes. *)

(* What a table is made of. *)
LEMMA PairsOf ==
  ASSUME NEW codes, NEW p \in Pairs(codes)
  PROVE  /\ p[1] # "--"
         /\ \E r \in Rows : p \in {<<codes[r + 1][c], K(r, c - 1)>> : c \in DOMAIN codes[r + 1]}
BY DEF Pairs

LEMMA RowByRow == ASSUME NEW r \in Rows
                  PROVE  r = 0 \/ r = 1 \/ r = 2 \/ r = 3 \/ r = 4 \/ r = 5
BY DEF Rows

(* No code of one byte is a prefix, and no second byte of one of two makes *)
(* scan_keycode read on.                                                   *)
LEMMA FirstBytes == \A p \in Map0 : p[1] \notin {"e0", "f0", "e1"}
<1>1. ASSUME NEW r \in Rows, NEW c \in DOMAIN Codes[r + 1]
      PROVE  Codes[r + 1][c] \notin {"e0", "f0", "e1"}
  <2>1. CASE r = 0
    BY <2>1 DEF Codes
  <2>2. CASE r = 1
    BY <2>2 DEF Codes
  <2>3. CASE r = 2
    BY <2>3 DEF Codes
  <2>4. CASE r = 3
    BY <2>4 DEF Codes
  <2>5. CASE r = 4
    BY <2>5 DEF Codes
  <2>6. CASE r = 5
    BY <2>6 DEF Codes
  <2> QED
    BY <2>1, <2>2, <2>3, <2>4, <2>5, <2>6, RowByRow
<1>2. \A p \in Pairs(Codes) : p[1] \notin {"e0", "f0", "e1"}
  BY <1>1, PairsOf
<1> QED
  BY <1>2 DEF Map0

LEMMA SecondBytes == \A p \in MapE0 : p[1] \notin {"e0", "f0", "e1", "12", "2a", "7c"}
<1> DEFINE special == {"e0", "f0", "e1", "12", "2a", "7c"}
<1>1. ASSUME NEW r \in Rows, NEW c \in DOMAIN CodesE0[r + 1]
      PROVE  CodesE0[r + 1][c] \notin special
  <2>1. CASE r = 0
    BY <2>1 DEF CodesE0
  <2>2. CASE r = 1
    BY <2>2 DEF CodesE0
  <2>3. CASE r = 2
    BY <1>1, <2>3 DEF CodesE0
  <2>4. CASE r = 3
    BY <1>1, <2>4 DEF CodesE0
  <2>5. CASE r = 4
    BY <2>5 DEF CodesE0
  <2>6. CASE r = 5
    BY <2>6 DEF CodesE0
  <2> QED
    BY <2>1, <2>2, <2>3, <2>4, <2>5, <2>6, RowByRow
<1>2. \A p \in Pairs(CodesE0) : p[1] \notin special
  BY <1>1, PairsOf
<1> QED
  BY <1>2 DEF MapE0, MediaKeys

(* The codes of one byte, of two, and of the print screen key. *)
Short(k, b) == k = <<b>> /\ b \notin {"e0", "f0", "e1"}
Long(k, b) == k = <<"e0", b>> /\ b \notin {"e0", "f0", "e1", "12", "2a", "7c"}

LEMMA KindsOfKeys ==
  \A k \in AllKeys : (\E b : Short(k, b)) \/ (\E b : Long(k, b)) \/ k = PrintScreen
BY FirstBytes, SecondBytes DEF AllKeys, Short, Long

IsSeq(s) == \E B : s \in Seq(B)

(* s is what the handler has read of the code c. *)
Begins(s, c) ==
  /\ IsSeq(s)
  /\ Len(s) \in 1 .. Len(c)
  /\ \A n \in 1 .. Len(s) : s[n] = c[n]

(* The handler reads on after every byte of the code c but the last, and   *)
(* takes c for the key k, pressed or let go.                               *)
CodeOf(c, k, press) ==
  /\ IsSeq(c)
  /\ Len(c) \in 1 .. 6
  /\ \A s : Begins(s, c) => (s \in ReadsOn <=> Len(s) < Len(c))
  /\ scan_keycode(c) = scan_keycode(k)
  /\ Pressed(c) <=> press

LEMMA Tuples ==
  ASSUME NEW t, IsSeq(t)
  PROVE  /\ Len(t) = 1 => t = <<t[1]>>
         /\ Len(t) = 2 => t = <<t[1], t[2]>>
         /\ Len(t) = 3 => t = <<t[1], t[2], t[3]>>
         /\ Len(t) = 4 => t = <<t[1], t[2], t[3], t[4]>>
         /\ Len(t) = 5 => t = <<t[1], t[2], t[3], t[4], t[5]>>
         /\ Len(t) = 6 => t = <<t[1], t[2], t[3], t[4], t[5], t[6]>>
BY DEF IsSeq

LEMMA ReadsOnAfter ==
  ReadsOn = { <<"e0">>, <<"e0", "f0">>, <<"f0">>,
              <<"e0", "12">>, <<"e0", "2a">>, <<"e0", "f0", "12">>, <<"e0", "f0", "2a">>,
              <<"e0", "12", "e0">>, <<"e0", "2a", "e0">>,
              <<"e0", "f0", "12", "e0">>, <<"e0", "f0", "2a", "e0">>,
              <<"e0", "f0", "7c">>, <<"e0", "f0", "7c", "e0">>,
              <<"e0", "f0", "7c", "e0", "f0">> }
BY DEF ReadsOn

LEMMA ShortCode ==
  ASSUME NEW b, NEW k, Short(k, b)
  PROVE  CodeOf(k, k, TRUE) /\ CodeOf(Break(k), k, FALSE)
<1>1. CodeOf(<<b>>, <<b>>, TRUE)
  <2>1. ASSUME NEW s, Begins(s, <<b>>)
        PROVE  s \notin ReadsOn /\ Len(s) = 1
    <3>1. IsSeq(s) /\ Len(s) = 1 /\ s[1] = b
      BY <2>1 DEF Begins
    <3>2. s = <<b>>
      BY <3>1, Tuples
    <3> QED
      BY <3>1, <3>2, ReadsOnAfter DEF Short
  <2>2. IsSeq(<<b>>) /\ Len(<<b>>) = 1
    <3>1. <<b>> \in Seq({b})
      OBVIOUS
    <3> QED
      BY <3>1 DEF IsSeq
  <2>3. Pressed(<<b>>)
    BY DEF Short, Pressed, HasF0, HasE0
  <2> QED
    BY <2>1, <2>2, <2>3 DEF CodeOf
<1>2. Break(k) = <<"f0", b>>
  BY DEF Short, Break, PrintScreen
<1>3. CodeOf(<<"f0", b>>, <<b>>, FALSE)
  <2> DEFINE c == <<"f0", b>>
  <2>1. ASSUME NEW s, Begins(s, c)
        PROVE  s \in ReadsOn <=> Len(s) < 2
    <3>0. Len(s) = 1 \/ Len(s) = 2
      <4>1. Len(c) = 2
        OBVIOUS
      <4>2. Len(s) \in 1 .. Len(c)
        BY <2>1, Zenon DEF Begins
      <4> HIDE DEF c
      <4> QED
        BY <4>1, <4>2
    <3>1. CASE Len(s) = 1
      <4>1. s = <<"f0">>
        BY <2>1, <3>1, Tuples DEF Begins
      <4> QED
        BY <3>1, <4>1, ReadsOnAfter
    <3>2. CASE Len(s) = 2
      <4>1. s = <<"f0", b>>
        BY <2>1, <3>2, Tuples DEF Begins
      <4> QED
        BY <3>2, <4>1, ReadsOnAfter DEF Short
    <3> QED
      BY <3>0, <3>1, <3>2, Zenon
  <2>2. IsSeq(c) /\ Len(c) = 2
    <3>1. c \in Seq({"f0", b})
      OBVIOUS
    <3> QED
      BY <3>1 DEF IsSeq
  <2>3. scan_keycode(c) = scan_keycode(<<b>>) /\ ~Pressed(c)
    BY DEF Short, Pressed, HasF0, HasE0, scan_keycode, Code
  <2> QED
    BY <2>1, <2>2, <2>3 DEF CodeOf
<1> QED
  BY <1>1, <1>2, <1>3 DEF Short

LEMMA LongCode ==
  ASSUME NEW b, NEW k, Long(k, b)
  PROVE  CodeOf(k, k, TRUE) /\ CodeOf(Break(k), k, FALSE)
<1>1. CodeOf(<<"e0", b>>, <<"e0", b>>, TRUE)
  <2> DEFINE c == <<"e0", b>>
  <2>1. ASSUME NEW s, Begins(s, c)
        PROVE  s \in ReadsOn <=> Len(s) < 2
    <3>0. Len(s) = 1 \/ Len(s) = 2
      BY <2>1 DEF Begins
    <3>1. CASE Len(s) = 1
      <4>1. s = <<"e0">>
        BY <2>1, <3>1, Tuples DEF Begins
      <4> QED
        BY <3>1, <4>1, ReadsOnAfter
    <3>2. CASE Len(s) = 2
      <4>1. s = <<"e0", b>>
        BY <2>1, <3>2, Tuples DEF Begins
      <4> QED
        BY <3>2, <4>1, ReadsOnAfter DEF Long
    <3> QED
      BY <3>0, <3>1, <3>2, Zenon
  <2>2. IsSeq(c) /\ Len(c) = 2
    <3>1. c \in Seq({"e0", b})
      OBVIOUS
    <3> QED
      BY <3>1 DEF IsSeq
  <2>3. Pressed(c)
    BY DEF Long, Pressed, HasF0, HasE0
  <2> QED
    BY <2>1, <2>2, <2>3 DEF CodeOf
<1>2. Break(k) = <<"e0", "f0", b>>
  BY DEF Long, Break, PrintScreen
<1>3. CodeOf(<<"e0", "f0", b>>, <<"e0", b>>, FALSE)
  <2> DEFINE c == <<"e0", "f0", b>>
  <2>1. ASSUME NEW s, Begins(s, c)
        PROVE  s \in ReadsOn <=> Len(s) < 3
    <3>0. Len(s) = 1 \/ Len(s) = 2 \/ Len(s) = 3
      <4>1. Len(s) \in 1 .. 3
        BY <2>1 DEF Begins
      <4> QED
        BY <4>1
    <3>1. CASE Len(s) = 1
      <4>1. s = <<"e0">>
        BY <2>1, <3>1, Tuples DEF Begins
      <4> QED
        BY <3>1, <4>1, ReadsOnAfter
    <3>2. CASE Len(s) = 2
      <4>1. s = <<"e0", "f0">>
        BY <2>1, <3>2, Tuples DEF Begins
      <4> QED
        BY <3>2, <4>1, ReadsOnAfter
    <3>3. CASE Len(s) = 3
      <4>1. s = <<"e0", "f0", b>>
        BY <2>1, <3>3, Tuples DEF Begins
      <4> QED
        BY <3>3, <4>1, ReadsOnAfter DEF Long
    <3> QED
      BY <3>0, <3>1, <3>2, <3>3, Zenon
  <2>2. IsSeq(c) /\ Len(c) = 3
    <3>1. c \in Seq({"e0", "f0", b})
      OBVIOUS
    <3> QED
      BY <3>1 DEF IsSeq
  <2>3. scan_keycode(c) = scan_keycode(<<"e0", b>>) /\ ~Pressed(c)
    BY DEF Long, Pressed, HasF0, HasE0, scan_keycode, Code
  <2> QED
    BY <2>1, <2>2, <2>3 DEF CodeOf
<1> QED
  BY <1>1, <1>2, <1>3 DEF Long

LEMMA PrintScreenCode ==
  CodeOf(PrintScreen, PrintScreen, TRUE) /\ CodeOf(Break(PrintScreen), PrintScreen, FALSE)
<1>1. CodeOf(PrintScreen, PrintScreen, TRUE)
  <2> DEFINE c == <<"e0", "12", "e0", "7c">>
  <2>1. ASSUME NEW s, Begins(s, c)
        PROVE  s \in ReadsOn <=> Len(s) < 4
    <3>1. IsSeq(s) /\ Len(s) \in 1 .. 4 /\ \A n \in 1 .. Len(s) : s[n] = c[n]
      BY <2>1 DEF Begins
    <3>2. CASE Len(s) = 1
      <4>1. s = <<"e0">>
        BY <3>1, <3>2, Tuples
      <4> QED
        BY <3>2, <4>1, ReadsOnAfter
    <3>3. CASE Len(s) = 2
      <4>1. s = <<"e0", "12">>
        BY <3>1, <3>3, Tuples
      <4> QED
        BY <3>3, <4>1, ReadsOnAfter
    <3>4. CASE Len(s) = 3
      <4>1. s = <<"e0", "12", "e0">>
        BY <3>1, <3>4, Tuples
      <4> QED
        BY <3>4, <4>1, ReadsOnAfter
    <3>5. CASE Len(s) = 4
      <4>1. s = <<"e0", "12", "e0", "7c">>
        BY <3>1, <3>5, Tuples
      <4> QED
        BY <3>5, <4>1, ReadsOnAfter
    <3>6. Len(s) = 1 \/ Len(s) = 2 \/ Len(s) = 3 \/ Len(s) = 4
      BY <3>1
    <3> QED
      BY <3>2, <3>3, <3>4, <3>5, <3>6, Zenon
  <2>2. IsSeq(c) /\ Len(c) = 4
    <3>1. c \in Seq({"e0", "12", "7c"})
      OBVIOUS
    <3> QED
      BY <3>1 DEF IsSeq
  <2>3. Pressed(c)
    BY DEF Pressed, HasF0, HasE0
  <2> QED
    BY <2>1, <2>2, <2>3 DEF CodeOf, PrintScreen
<1>2. CodeOf(Break(PrintScreen), PrintScreen, FALSE)
  <2> DEFINE c == <<"e0", "f0", "7c", "e0", "f0", "12">>
  <2>1. ASSUME NEW s, Begins(s, c)
        PROVE  s \in ReadsOn <=> Len(s) < 6
    <3>1. IsSeq(s) /\ Len(s) \in 1 .. 6 /\ \A n \in 1 .. Len(s) : s[n] = c[n]
      BY <2>1 DEF Begins
    <3>2. CASE Len(s) = 1
      <4>1. s = <<"e0">>
        BY <3>1, <3>2, Tuples
      <4> QED
        BY <3>2, <4>1, ReadsOnAfter
    <3>3. CASE Len(s) = 2
      <4>1. s = <<"e0", "f0">>
        BY <3>1, <3>3, Tuples
      <4> QED
        BY <3>3, <4>1, ReadsOnAfter
    <3>4. CASE Len(s) = 3
      <4>1. s = <<"e0", "f0", "7c">>
        BY <3>1, <3>4, Tuples
      <4> QED
        BY <3>4, <4>1, ReadsOnAfter
    <3>5. CASE Len(s) = 4
      <4>1. s = <<"e0", "f0", "7c", "e0">>
        BY <3>1, <3>5, Tuples
      <4> QED
        BY <3>5, <4>1, ReadsOnAfter
    <3>6. CASE Len(s) = 5
      <4>1. s = <<"e0", "f0", "7c", "e0", "f0">>
        BY <3>1, <3>6, Tuples
      <4> QED
        BY <3>6, <4>1, ReadsOnAfter
    <3>7. CASE Len(s) = 6
      <4>1. s = <<"e0", "f0", "7c", "e0", "f0", "12">>
        BY <3>1, <3>7, Tuples
      <4> QED
        BY <3>7, <4>1, ReadsOnAfter
    <3>8. Len(s) = 1 \/ Len(s) = 2 \/ Len(s) = 3 \/ Len(s) = 4 \/ Len(s) = 5 \/ Len(s) = 6
      BY <3>1
    <3> QED
      BY <3>2, <3>3, <3>4, <3>5, <3>6, <3>7, <3>8, Zenon
  <2>2. c \in Seq({"e0", "f0", "7c", "12"}) /\ Len(c) = 6
    OBVIOUS
  <2>3. IsSeq(c)
    BY <2>2 DEF IsSeq
  <2>4. scan_keycode(c) = scan_keycode(PrintScreen) /\ ~Pressed(c)
    <3>1. SubSeq(c, 4, 6) = <<"e0", "f0", "12">>
      <4> DEFINE t == SubSeq(c, 4, 6)
      <4>1. \A n \in 4 .. 6 : c[n] \in {"e0", "f0", "7c", "12"}
        BY <2>2
      <4>2. /\ t \in Seq({"e0", "f0", "7c", "12"}) /\ Len(t) = 3
            /\ \A n \in 1 .. 3 : t[n] = c[4 + n - 1]
        <5> HIDE DEF c
        <5> QED
          BY <4>1, SubSeqProperties
      <4> HIDE DEF t
      <4>3. t[1] = c[4] /\ t[2] = c[5] /\ t[3] = c[6]
        <5> HIDE DEF c
        <5>1. 1 \in 1 .. 3 /\ 2 \in 1 .. 3 /\ 3 \in 1 .. 3
          OBVIOUS
        <5>2. t[1] = c[4 + 1 - 1] /\ t[2] = c[4 + 2 - 1] /\ t[3] = c[4 + 3 - 1]
          BY <4>2, <5>1
        <5> QED
          BY <5>2
      <4>4. t[1] = "e0" /\ t[2] = "f0" /\ t[3] = "12"
        BY <4>3
      <4>5. IsSeq(t) /\ Len(t) = 3
        BY <4>2 DEF IsSeq
      <4>6. t = <<"e0", "f0", "12">>
        BY <4>4, <4>5, Tuples
      <4> QED
        BY <4>6 DEF t
    <3>2. scan_keycode(c) = K(0, 13)
      BY <2>2, <3>1 DEF scan_keycode, HasE0, HasF0, Code
    <3>3. scan_keycode(PrintScreen) = K(0, 13)
      BY DEF PrintScreen, scan_keycode, HasE0, HasF0, Code
    <3> QED
      BY <3>2, <3>3 DEF Pressed, HasE0, HasF0
  <2>5. Break(PrintScreen) = c
    BY DEF Break
  <2> QED
    BY <2>1, <2>2, <2>3, <2>4, <2>5 DEF CodeOf
<1> QED
  BY <1>1, <1>2

(* What every key sends is a code of it. *)
LEMMA EveryCode ==
  ASSUME NEW k \in AllKeys
  PROVE  CodeOf(k, k, TRUE) /\ CodeOf(Break(k), k, FALSE)
BY KindsOfKeys, ShortCode, LongCode, PrintScreenCode

-----------------------------------------------------------------------------
(* The bytes on their way from the keyboard to the handler. *)

Event == [key : Keys, press : BOOLEAN]

(* What the keyboard sends for what the user does. *)
Sent(e) == IF e.press THEN e.key ELSE Break(e.key)

Byte == UNION {{Sent(e)[n] : n \in 1 .. Len(Sent(e))} : e \in Event}

LEMMA EventCode ==
  ASSUME NEW e \in Event
  PROVE  /\ CodeOf(Sent(e), e.key, e.press)
         /\ Sent(e) \in Seq(Byte)
         /\ Len(Sent(e)) \in 1 .. 6
<1>1. e.key \in AllKeys /\ e.press \in BOOLEAN
  BY KeyboardAssumption DEF Event
<1>2. CodeOf(e.key, e.key, TRUE) /\ CodeOf(Break(e.key), e.key, FALSE)
  BY <1>1, EveryCode
<1>3. e.press = TRUE \/ e.press = FALSE
  BY <1>1
<1>4. CodeOf(Sent(e), e.key, e.press)
  BY <1>2, <1>3, Zenon DEF Sent
<1>5. \A n \in 1 .. Len(Sent(e)) : Sent(e)[n] \in Byte
  BY DEF Byte
<1>6. Sent(e) \in Seq(Byte)
  <2>1. PICK B : Sent(e) \in Seq(B)
    BY <1>4 DEF CodeOf, IsSeq
  <2> QED
    BY <1>5, <2>1
<1> QED
  BY <1>4, <1>6 DEF CodeOf

(* The bytes f are the codes of the events p, one behind the other: that   *)
(* of event n begins behind byte cut[n].                                   *)
Framing(p, f, cut) ==
  /\ cut \in [1 .. Len(p) + 1 -> Nat]
  /\ \A m, n \in 1 .. Len(p) + 1 : m <= n => cut[m] <= cut[n]
  /\ cut[1] = 0
  /\ cut[Len(p) + 1] = Len(f)
  /\ \A n \in 1 .. Len(p) :
       /\ cut[n + 1] = cut[n] + Len(Sent(p[n]))
       /\ \A b \in 1 .. Len(Sent(p[n])) : f[cut[n] + b] = Sent(p[n])[b]

(* One more event at the end. *)
LEMMA FramingMore ==
  ASSUME NEW p \in Seq(Event), NEW f \in Seq(Byte), NEW cut, Framing(p, f, cut),
         NEW e \in Event
  PROVE  \E more : Framing(Append(p, e), f \o Sent(e), more)
<1> DEFINE c == Sent(e)
           q == Append(p, e)
           g == f \o c
           more == [n \in 1 .. Len(q) + 1 |-> IF n <= Len(p) + 1 THEN cut[n] ELSE Len(f) + Len(c)]
<1>1. /\ c \in Seq(Byte) /\ Len(c) \in Nat /\ Len(p) \in Nat /\ Len(f) \in Nat
      /\ Len(q) = Len(p) + 1
      /\ \A n \in 1 .. Len(p) : q[n] = p[n]
      /\ Len(g) = Len(f) + Len(c)
      /\ \A b \in 1 .. Len(f) : g[b] = f[b]
      /\ \A b \in 1 .. Len(c) : g[Len(f) + b] = c[b]
  BY EventCode
<1>2. /\ cut \in [1 .. Len(p) + 1 -> Nat]
      /\ \A m, n \in 1 .. Len(p) + 1 : m <= n => cut[m] <= cut[n]
      /\ cut[1] = 0 /\ cut[Len(p) + 1] = Len(f)
  BY DEF Framing
<1>3. ASSUME NEW n \in 1 .. Len(p) + 1
      PROVE  cut[n] \in Nat /\ cut[n] <= Len(f)
  <2>1. Len(p) + 1 \in 1 .. Len(p) + 1 /\ n <= Len(p) + 1
    BY <1>1
  <2>2. cut[n] <= cut[Len(p) + 1] /\ cut[n] \in Nat
    BY <1>2, <2>1
  <2> QED
    BY <1>2, <2>2
<1>4. q[Len(p) + 1] = e
  OBVIOUS
<1> HIDE DEF c, q, g
<1>5. more \in [1 .. Len(q) + 1 -> Nat]
  BY <1>1, <1>3
<1>6. \A m, n \in 1 .. Len(q) + 1 : m <= n => more[m] <= more[n]
  BY <1>1, <1>2, <1>3
<1>7. more[1] = 0 /\ more[Len(q) + 1] = Len(g)
  BY <1>1, <1>2
<1>8. ASSUME NEW n \in 1 .. Len(q)
      PROVE  /\ more[n + 1] = more[n] + Len(Sent(q[n]))
             /\ \A b \in 1 .. Len(Sent(q[n])) : g[more[n] + b] = Sent(q[n])[b]
  <2>1. CASE n = Len(p) + 1
    <3>1. more[n] = Len(f) /\ more[n + 1] = Len(f) + Len(c)
      BY <1>1, <1>2, <2>1
    <3>2. Sent(q[n]) = c
      BY <1>4, <2>1 DEF c
    <3> QED
      BY <1>1, <3>1, <3>2
  <2>2. CASE n # Len(p) + 1
    <3>1. n \in 1 .. Len(p) /\ n + 1 \in 1 .. Len(p) + 1
      BY <1>1, <2>2
    <3>2. q[n] = p[n] /\ more[n] = cut[n] /\ more[n + 1] = cut[n + 1]
      BY <1>1, <3>1
    <3>3. cut[n + 1] = cut[n] + Len(Sent(p[n]))
      BY <3>1 DEF Framing
    <3>4. ASSUME NEW b \in 1 .. Len(Sent(p[n]))
          PROVE  g[cut[n] + b] = Sent(p[n])[b]
      <4>1. p[n] \in Event
        BY <3>1
      <4>2. Len(Sent(p[n])) \in Nat
        BY <4>1, EventCode
      <4>3. cut[n] + b \in 1 .. Len(f)
        <5>1. cut[n] \in Nat /\ cut[n + 1] \in Nat /\ cut[n + 1] <= Len(f)
          BY <1>1, <1>3, <3>1
        <5>2. b \in Nat /\ b >= 1 /\ b <= Len(Sent(p[n]))
          BY <4>2
        <5>3. cut[n] + b >= 1 /\ cut[n] + b <= cut[n + 1] /\ Len(f) \in Nat
          BY <1>1, <3>3, <4>2, <5>1, <5>2
        <5> HIDE DEF Framing
        <5> QED
          BY <5>1, <5>2, <5>3
      <4>4. f[cut[n] + b] = Sent(p[n])[b]
        BY <3>1 DEF Framing
      <4> QED
        BY <1>1, <4>3, <4>4
    <3> QED
      BY <3>2, <3>3, <3>4
  <2> QED
    BY <2>1, <2>2
<1>9. Framing(q, g, more)
  BY <1>5, <1>6, <1>7, <1>8 DEF Framing
<1> QED
  BY <1>9 DEF q, g, c

(* The bytes s read so far begin the code of the first event. *)
LEMMA FirstCode ==
  ASSUME NEW p \in Seq(Event), NEW s \in Seq(Byte), NEW r \in Seq(Byte), NEW cut,
         Framing(p, s \o r, cut)
  PROVE  /\ s \o r # << >> => p # << >>
         /\ p # << >> => /\ p[1] \in Event
                         /\ Len(Sent(p[1])) <= Len(s) + Len(r)
                         /\ Len(s) \in 1 .. Len(Sent(p[1])) => Begins(s, Sent(p[1]))
<1> DEFINE f == s \o r
<1>1. /\ f \in Seq(Byte) /\ Len(f) = Len(s) + Len(r) /\ Len(s) \in Nat /\ Len(r) \in Nat
      /\ \A b \in 1 .. Len(s) : f[b] = s[b]
      /\ Len(p) \in Nat
  OBVIOUS
<1>2. /\ cut \in [1 .. Len(p) + 1 -> Nat]
      /\ \A m, n \in 1 .. Len(p) + 1 : m <= n => cut[m] <= cut[n]
      /\ cut[1] = 0 /\ cut[Len(p) + 1] = Len(f)
  BY DEF Framing
<1>3. ASSUME p = << >>
      PROVE  f = << >>
  <2>1. Len(f) = 0
    BY <1>2, <1>3
  <2> QED
    BY <1>1, <2>1
<1>4. ASSUME p # << >>
      PROVE  /\ p[1] \in Event
             /\ Len(Sent(p[1])) <= Len(s) + Len(r)
             /\ Len(s) \in 1 .. Len(Sent(p[1])) => Begins(s, Sent(p[1]))
  <2>1. 1 \in 1 .. Len(p) /\ p[1] \in Event /\ 1 \in 1 .. Len(p) + 1 /\ 2 \in 1 .. Len(p) + 1
    BY <1>1, <1>4
  <2>2. Len(Sent(p[1])) \in Nat
    BY <2>1, EventCode
  <2>3. /\ cut[1 + 1] = cut[1] + Len(Sent(p[1]))
        /\ \A b \in 1 .. Len(Sent(p[1])) : f[cut[1] + b] = Sent(p[1])[b]
    BY <2>1 DEF Framing
  <2>4. cut[2] = Len(Sent(p[1])) /\ cut[2] <= Len(f)
    BY <1>1, <1>2, <2>1, <2>2, <2>3
  <2>5. ASSUME NEW b \in 1 .. Len(Sent(p[1]))
        PROVE  f[b] = Sent(p[1])[b]
    <3>1. b \in Nat /\ cut[1] + b = b
      BY <1>2, <2>2
    <3>2. f[cut[1] + b] = Sent(p[1])[b]
      BY <2>3
    <3> QED
      BY <3>1, <3>2, Zenon
  <2>6. Len(s) \in 1 .. Len(Sent(p[1])) => Begins(s, Sent(p[1]))
    BY <1>1, <2>2, <2>5 DEF Begins, IsSeq
  <2> QED
    BY <1>1, <2>1, <2>4, <2>6
<1> QED
  BY <1>3, <1>4

(* The first event is handled. *)
LEMMA FramingLess ==
  ASSUME NEW p \in Seq(Event), NEW s \in Seq(Byte), NEW r \in Seq(Byte), NEW cut,
         Framing(p, s \o r, cut), p # << >>, Len(s) = Len(Sent(p[1]))
  PROVE  \E less : Framing(Tail(p), r, less)
<1> DEFINE f == s \o r
           c == Sent(p[1])
           q == Tail(p)
           less == [n \in 1 .. Len(q) + 1 |-> cut[n + 1] - Len(s)]
<1>1. /\ Len(f) = Len(s) + Len(r) /\ Len(s) \in Nat /\ Len(r) \in Nat
      /\ \A b \in 1 .. Len(r) : f[Len(s) + b] = r[b]
      /\ Len(p) \in Nat /\ Len(p) >= 1 /\ Len(q) = Len(p) - 1 /\ q \in Seq(Event)
      /\ \A n \in 1 .. Len(q) : q[n] = p[n + 1]
  OBVIOUS
<1>2. /\ cut \in [1 .. Len(p) + 1 -> Nat]
      /\ \A m, n \in 1 .. Len(p) + 1 : m <= n => cut[m] <= cut[n]
      /\ cut[1] = 0 /\ cut[Len(p) + 1] = Len(f)
  BY DEF Framing
<1>3. cut[2] = Len(s)
  <2>1. 1 \in 1 .. Len(p)
    BY <1>1
  <2>2. cut[1 + 1] = cut[1] + Len(Sent(p[1]))
    BY <2>1 DEF Framing
  <2> QED
    BY <1>1, <1>2, <2>2
<1> HIDE DEF f, c, q
<1>4. ASSUME NEW n \in 1 .. Len(q) + 1
      PROVE  cut[n + 1] - Len(s) \in Nat /\ cut[n + 1] \in Nat
  <2>1. n + 1 \in 1 .. Len(p) + 1 /\ 2 \in 1 .. Len(p) + 1 /\ 2 <= n + 1
    BY <1>1
  <2>2. cut[2] <= cut[n + 1] /\ cut[n + 1] \in Nat
    BY <1>2, <2>1
  <2> QED
    BY <1>1, <1>3, <2>2
<1>5. less \in [1 .. Len(q) + 1 -> Nat]
  BY <1>4
<1>6. ASSUME NEW m \in 1 .. Len(q) + 1, NEW n \in 1 .. Len(q) + 1, m <= n
      PROVE  less[m] <= less[n]
  <2>1. m + 1 \in 1 .. Len(p) + 1 /\ n + 1 \in 1 .. Len(p) + 1 /\ m + 1 <= n + 1
    BY <1>1, <1>6
  <2>2. cut[m + 1] <= cut[n + 1]
    BY <1>2, <2>1
  <2>3. /\ less[m] = cut[m + 1] - Len(s) /\ less[n] = cut[n + 1] - Len(s)
        /\ cut[m + 1] \in Nat /\ cut[n + 1] \in Nat /\ Len(s) \in Nat
    BY <1>1, <1>4
  <2> HIDE DEF less
  <2>4. cut[m + 1] - Len(s) <= cut[n + 1] - Len(s)
    BY <2>2, <2>3
  <2> QED
    BY <2>3, <2>4, Zenon
<1>7. less[1] = 0 /\ less[Len(q) + 1] = Len(r)
  <2>1. 1 \in 1 .. Len(q) + 1 /\ Len(q) + 1 \in 1 .. Len(q) + 1 /\ (Len(q) + 1) + 1 = Len(p) + 1
    BY <1>1
  <2>2. less[1] = cut[1 + 1] - Len(s) /\ less[Len(q) + 1] = cut[Len(p) + 1] - Len(s)
    BY <2>1
  <2> QED
    BY <1>1, <1>2, <1>3, <2>2
<1>8. ASSUME NEW n \in 1 .. Len(q)
      PROVE  /\ less[n + 1] = less[n] + Len(Sent(q[n]))
             /\ \A b \in 1 .. Len(Sent(q[n])) : r[less[n] + b] = Sent(q[n])[b]
  <2>1. n + 1 \in 1 .. Len(p) /\ q[n] = p[n + 1] /\ p[n + 1] \in Event
    BY <1>1
  <2>2. Len(Sent(p[n + 1])) \in Nat
    BY <2>1, EventCode
  <2>3. /\ cut[(n + 1) + 1] = cut[n + 1] + Len(Sent(p[n + 1]))
        /\ \A b \in 1 .. Len(Sent(p[n + 1])) : f[cut[n + 1] + b] = Sent(p[n + 1])[b]
    BY <2>1 DEF Framing, f
  <2>4. less[n] = cut[n + 1] - Len(s) /\ less[n + 1] = cut[(n + 1) + 1] - Len(s)
    BY <1>1
  <2>5. cut[n + 1] \in Nat /\ less[n] \in Nat /\ cut[(n + 1) + 1] <= Len(f)
    <3>1. n \in 1 .. Len(q) + 1
      BY <1>1
    <3>2. (n + 1) + 1 \in 1 .. Len(p) + 1 /\ Len(p) + 1 \in 1 .. Len(p) + 1
          /\ (n + 1) + 1 <= Len(p) + 1
      BY <1>1, <2>1
    <3>3. cut[(n + 1) + 1] <= cut[Len(p) + 1]
      BY <1>2, <3>2
    <3> QED
      BY <1>2, <1>4, <2>4, <3>1, <3>3
  <2>6. ASSUME NEW b \in 1 .. Len(Sent(p[n + 1]))
        PROVE  r[less[n] + b] = Sent(p[n + 1])[b]
    <3>0. b \in Nat /\ b >= 1 /\ b <= Len(Sent(p[n + 1]))
      BY <2>2
    <3>1. less[n] + b \in 1 .. Len(r) /\ Len(s) + (less[n] + b) = cut[n + 1] + b
      <4> DEFINE x == less[n]
                 y == cut[n + 1]
                 z == cut[(n + 1) + 1]
                 len == Len(Sent(p[n + 1]))
      <4>1. /\ x = y - Len(s) /\ x \in Nat /\ y \in Nat /\ z = y + len /\ z <= Len(s) + Len(r)
            /\ len \in Nat /\ Len(s) \in Nat /\ Len(r) \in Nat /\ b <= len
        BY <1>1, <2>2, <2>3, <2>4, <2>5, <3>0
      <4> HIDE DEF x, y, z, len, less
      <4>2. x + b \in 1 .. Len(r) /\ Len(s) + (x + b) = y + b
        BY <3>0, <4>1
      <4> QED
        BY <4>2 DEF x, y
    <3>2. f[Len(s) + (less[n] + b)] = r[less[n] + b]
      BY <1>1, <3>1
    <3> QED
      BY <2>3, <3>1, <3>2
  <2>7. less[n + 1] = less[n] + Len(Sent(p[n + 1]))
    <3> HIDE DEF less
    <3> QED
      BY <1>1, <2>2, <2>3, <2>4, <2>5
  <2> QED
    BY <2>1, <2>6, <2>7
<1>9. Framing(q, r, less)
  BY <1>5, <1>6, <1>7, <1>8 DEF Framing
<1> QED
  BY <1>9 DEF q

-----------------------------------------------------------------------------
(* The invariant behind NeverStuck: the bytes the handler has read, the    *)
(* byte the 8042 has and those the keyboard has yet to send are the codes  *)
(* of what the user did, and the handler is within the first of them.      *)

Arriving == IF obf # << >> /\ ~aux THEN obf ELSE << >>

Coming == Arriving \o wire

Reading ==
  /\ pc = "more" => pending # << >> /\ Len(sc) \in 1 .. Len(Sent(pending[1])) - 1
  /\ pc = "received" => pending # << >> /\ Len(sc) = Len(Sent(pending[1]))
  /\ pc \notin {"more", "received"} => sc = << >>

OneByte == obf # << >> /\ ~aux => \E b \in Byte : obf = <<b>>

Framed ==
  /\ pending \in Seq(Event)
  /\ sc \in Seq(Byte)
  /\ wire \in Seq(Byte)
  /\ OneByte
  /\ \E cut : Framing(pending, sc \o Coming, cut)
  /\ Reading

LEMMA SequenceFacts ==
  /\ \A f, g, h \in Seq(Byte) : f \o g \in Seq(Byte) /\ (f \o g) \o h = f \o (g \o h)
  /\ \A f \in Seq(Byte) : << >> \o f = f
  /\ \A f \in Seq(Byte) :
       f # << >> => <<Head(f)>> \o Tail(f) = f /\ Head(f) \in Byte /\ Tail(f) \in Seq(Byte)
<1>1. \A f, g, h \in Seq(Byte) : f \o g \in Seq(Byte) /\ (f \o g) \o h = f \o (g \o h)
  BY ConcatProperties, ConcatAssociative
<1>2. \A f \in Seq(Byte) : << >> \o f = f
  BY ConcatEmptySeq
<1>3. ASSUME NEW f \in Seq(Byte), f # << >>
      PROVE  <<Head(f)>> \o Tail(f) = f /\ Head(f) \in Byte /\ Tail(f) \in Seq(Byte)
  <2>1. Head(f) \in Byte /\ Tail(f) \in Seq(Byte)
    BY <1>3
  <2> QED
    BY <1>3, <2>1
<1> QED
  BY <1>1, <1>2, <1>3

LEMMA ComingBytes ==
  ASSUME Framed
  PROVE  Arriving \in Seq(Byte) /\ Coming \in Seq(Byte)
<1>1. Arriving \in Seq(Byte)
  <2>1. CASE obf # << >> /\ ~aux
    <3>1. PICK b \in Byte : obf = <<b>>
      BY <2>1 DEF Framed, OneByte
    <3> QED
      BY <2>1, <3>1 DEF Arriving
  <2>2. CASE ~(obf # << >> /\ ~aux)
    BY <2>2 DEF Arriving
  <2> QED
    BY <2>1, <2>2
<1> QED
  BY <1>1, SequenceFacts DEF Framed, Coming

(* The user does something. *)
LEMMA UserActs ==
  ASSUME Framed, NEW e \in Event,
         pending' = Append(pending, e), wire' = wire \o Sent(e), UNCHANGED <<obf, aux, pc, sc>>
  PROVE  Framed'
<1>1. /\ Sent(e) \in Seq(Byte) /\ wire \in Seq(Byte) /\ sc \in Seq(Byte) /\ pending \in Seq(Event)
      /\ Arriving \in Seq(Byte) /\ Coming \in Seq(Byte)
  BY EventCode, ComingBytes DEF Framed
<1>2. Arriving' = Arriving
  BY DEF Arriving
<1>3. sc' \o Coming' = (sc \o Coming) \o Sent(e)
  <2>0. \A f, g, h \in Seq(Byte) : (f \o g) \o h = f \o (g \o h)
    BY ConcatAssociative
  <2>1. (Arriving \o wire) \o Sent(e) = Arriving \o (wire \o Sent(e))
    <3>1. Arriving \in Seq(Byte) /\ wire \in Seq(Byte) /\ Sent(e) \in Seq(Byte)
      BY <1>1
    <3> QED
      BY <2>0, <3>1, Zenon
  <2>2. Coming' = Coming \o Sent(e)
    BY <1>2, <2>1, Zenon DEF Coming
  <2>3. (sc \o Coming) \o Sent(e) = sc \o (Coming \o Sent(e))
    <3>1. sc \in Seq(Byte) /\ Coming \in Seq(Byte) /\ Sent(e) \in Seq(Byte)
      BY <1>1
    <3> QED
      BY <2>0, <3>1, Zenon
  <2> QED
    BY <2>2, <2>3, Zenon
<1>4. \E cut : Framing(pending', sc' \o Coming', cut)
  <2>1. PICK cut : Framing(pending, sc \o Coming, cut)
    BY DEF Framed
  <2>2. sc \o Coming \in Seq(Byte)
    BY <1>1, SequenceFacts
  <2>3. \E cut1 : Framing(Append(pending, e), (sc \o Coming) \o Sent(e), cut1)
    BY <1>1, <2>1, <2>2, FramingMore
  <2> QED
    BY <1>3, <2>3, Zenon
<1>5. pending' \in Seq(Event) /\ (pending # << >> => pending' # << >> /\ pending'[1] = pending[1])
  <2>1. /\ Append(pending, e) \in Seq(Event) /\ Len(Append(pending, e)) = Len(pending) + 1
        /\ \A n \in 1 .. Len(pending) : Append(pending, e)[n] = pending[n]
    BY <1>1, AppendProperties
  <2>2. pending # << >> => 1 \in 1 .. Len(pending)
    BY <1>1
  <2>3. Len(pending) \in Nat
    BY <1>1
  <2> QED
    BY <2>1, <2>2, <2>3
<1>6. Reading'
  BY <1>5 DEF Framed, Reading
<1>7. OneByte'
  BY DEF Framed, OneByte
<1> QED
  BY <1>1, <1>4, <1>5, <1>6, <1>7, SequenceFacts DEF Framed

(* The 8042 takes a byte of the keyboard. *)
LEMMA KeyboardSends ==
  ASSUME Framed, Transfer
  PROVE  Framed'
<1>1. /\ wire # << >> /\ obf = << >> /\ obf' = <<Head(wire)>> /\ ~aux' /\ wire' = Tail(wire)
      /\ UNCHANGED <<pending, pc, sc>>
  BY DEF Transfer
<1>2. wire \in Seq(Byte)
  BY DEF Framed
<1>3. Coming' = Coming
  <2>1. Coming = wire
    BY <1>1, <1>2, SequenceFacts DEF Coming, Arriving
  <2>2. Arriving' = <<Head(wire)>>
    BY <1>1 DEF Arriving
  <2> QED
    BY <1>1, <1>2, <2>1, <2>2, SequenceFacts DEF Coming
<1>4. \E cut : Framing(pending', sc' \o Coming', cut)
  BY <1>1, <1>3 DEF Framed
<1>5. OneByte'
  BY <1>1, <1>2, SequenceFacts DEF OneByte
<1>6. Reading'
  BY <1>1 DEF Framed, Reading
<1> QED
  BY <1>1, <1>2, <1>4, <1>5, <1>6, SequenceFacts DEF Framed

(* The handler reads a byte, and reads on if the code is not complete. *)
LEMMA HandlerReads ==
  ASSUME Framed, Separate, Receive
  PROVE  Framed'
<1>1. /\ pc \in {"first", "more"} /\ obf # << >> /\ ~aux /\ obf' = << >>
      /\ sc' = sc \o obf /\ UNCHANGED <<pending, wire>>
      /\ pc' = IF sc' \in ReadsOn THEN "more" ELSE "received"
  BY DEF Receive, Separate, KeyboardQuiet
<1>2. /\ pending \in Seq(Event) /\ sc \in Seq(Byte) /\ wire \in Seq(Byte) /\ Arriving = obf
      /\ obf \in Seq(Byte) /\ Len(obf) = 1
  <2>1. PICK b \in Byte : obf = <<b>>
    BY <1>1 DEF Framed, OneByte
  <2> QED
    BY <1>1, <2>1 DEF Framed, Arriving
<1>3. sc' \in Seq(Byte) /\ Len(sc') = Len(sc) + 1 /\ Len(sc) \in Nat
  <2>1. /\ sc \o obf \in Seq(Byte) /\ Len(sc \o obf) = Len(sc) + Len(obf) /\ Len(sc) \in Nat
    BY <1>2, ConcatProperties, LenProperties, Zenon
  <2> QED
    BY <1>1, <1>2, <2>1
<1>4. Coming' = wire
  BY <1>1, <1>2, SequenceFacts DEF Coming, Arriving
<1>5. sc' \o wire = sc \o Coming
  BY <1>1, <1>2, SequenceFacts DEF Coming
<1>6. PICK cut : Framing(pending, sc' \o wire, cut)
  BY <1>5 DEF Framed
<1>7. /\ sc' \o wire # << >> => pending # << >>
      /\ pending # << >> =>
           /\ pending[1] \in Event
           /\ Len(sc') \in 1 .. Len(Sent(pending[1])) => Begins(sc', Sent(pending[1]))
  BY <1>2, <1>3, <1>6, FirstCode
<1>8. pending # << >>
  <2>1. Len(sc' \o wire) >= 1
    BY <1>2, <1>3
  <2> QED
    BY <1>7, <2>1
<1>9. CodeOf(Sent(pending[1]), pending[1].key, pending[1].press) /\ Len(Sent(pending[1])) \in 1 .. 6
  BY <1>7, <1>8, EventCode
<1>10. Len(sc') \in 1 .. Len(Sent(pending[1]))
  <2>1. CASE pc = "first"
    <3> DEFINE len == Len(Sent(pending[1]))
    <3>1. Len(sc) = 0 /\ len \in 1 .. 6
      BY <1>9, <2>1 DEF Framed, Reading
    <3> HIDE DEF len
    <3>2. Len(sc) + 1 \in 1 .. len
      BY <3>1
    <3>3. Len(sc') \in 1 .. len
      BY <1>3, <3>2, Zenon
    <3> QED
      BY <3>3 DEF len
  <2>2. CASE pc = "more"
    <3> DEFINE len == Len(Sent(pending[1]))
    <3>1. Len(sc) \in 1 .. len - 1 /\ len \in 1 .. 6
      BY <1>9, <2>2 DEF Framed, Reading
    <3> HIDE DEF len
    <3>2. Len(sc) + 1 \in 1 .. len
      BY <3>1
    <3>3. Len(sc') \in 1 .. len
      BY <1>3, <3>2, Zenon
    <3> QED
      BY <3>3 DEF len
  <2> QED
    BY <1>1, <2>1, <2>2
<1>11. sc' \in ReadsOn <=> Len(sc') < Len(Sent(pending[1]))
  BY <1>7, <1>8, <1>9, <1>10 DEF CodeOf
<1>12. Reading'
  <2>1. CASE sc' \in ReadsOn
    <3>1. pc' = "more" /\ Len(sc') \in 1 .. Len(Sent(pending[1])) - 1
      BY <1>1, <1>9, <1>10, <1>11, <2>1
    <3> QED
      BY <1>1, <1>8, <3>1 DEF Reading
  <2>2. CASE sc' \notin ReadsOn
    <3>1. pc' = "received" /\ Len(sc') = Len(Sent(pending[1]))
      BY <1>1, <1>9, <1>10, <1>11, <2>2
    <3> QED
      BY <1>1, <1>8, <3>1 DEF Reading
  <2> QED
    BY <2>1, <2>2
<1>13. OneByte'
  BY <1>1 DEF OneByte
<1>14. \E cut1 : Framing(pending', sc' \o Coming', cut1)
  BY <1>1, <1>4, <1>6
<1> QED
  BY <1>1, <1>2, <1>3, <1>12, <1>13, <1>14 DEF Framed

(* The handler is done with the first event. *)
LEMMA HandlerDone ==
  ASSUME Framed, KeyEvent
  PROVE  Framed'
<1>1. /\ pc = "received" /\ pc' = "returned" /\ sc' = << >> /\ UNCHANGED <<obf, aux, wire>>
      /\ pending' = IF pending = << >> THEN << >> ELSE Tail(pending)
  BY DEF KeyEvent, buffer
<1>2. /\ pending \in Seq(Event) /\ sc \in Seq(Byte) /\ wire \in Seq(Byte) /\ Coming \in Seq(Byte)
      /\ pending # << >> /\ Len(sc) = Len(Sent(pending[1]))
  BY <1>1, ComingBytes DEF Framed, Reading
<1>3. PICK cut : Framing(pending, sc \o Coming, cut)
  BY DEF Framed
<1>4. \E less : Framing(Tail(pending), Coming, less)
  BY <1>2, <1>3, FramingLess
<1>5. Coming' = Coming
  BY <1>1 DEF Coming, Arriving
<1>6. sc' \o Coming' = Coming
  BY <1>1, <1>2, <1>5, SequenceFacts
<1>7. \E less : Framing(pending', sc' \o Coming', less)
  BY <1>1, <1>2, <1>4, <1>6, Zenon
<1>8. pending' \in Seq(Event) /\ sc' \in Seq(Byte)
  BY <1>1, <1>2
<1>9. OneByte'
  BY <1>1 DEF Framed, OneByte
<1>10. Reading'
  BY <1>1 DEF Reading
<1> QED
  BY <1>1, <1>2, <1>7, <1>8, <1>9, <1>10 DEF Framed

(* A step that moves none of the keyboard's bytes. *)
LEMMA SameCodes ==
  ASSUME Framed, UNCHANGED <<pending, wire, sc>>,
         obf' # << >> /\ ~aux' => obf # << >> /\ ~aux /\ obf' = obf,
         obf # << >> /\ ~aux => obf' # << >> /\ ~aux' /\ obf' = obf,
         pc' = pc \/ {pc, pc'} \cap {"more", "received"} = {}
  PROVE  Framed'
<1>1. Arriving' = Arriving
  BY DEF Arriving
<1>2. OneByte'
  BY DEF Framed, OneByte
<1>3. Reading'
  BY DEF Framed, Reading
<1>4. sc' \o Coming' = sc \o Coming
  BY <1>1 DEF Coming
<1>5. \E cut : Framing(pending', sc' \o Coming', cut)
  BY <1>4 DEF Framed
<1> QED
  BY <1>2, <1>3, <1>5 DEF Framed

LEMMA NextFramed == Separate /\ Framed /\ [Next]_vars => Framed'
<1> SUFFICES ASSUME Separate, Framed, [Next]_vars PROVE Framed'
  OBVIOUS
<1>1. ASSUME NEW k \in Keys, Press(k)
      PROVE  Framed'
  <2> DEFINE e == [key |-> k, press |-> TRUE]
  <2>1. e \in Event /\ Sent(e) = k
    BY DEF Event, Sent
  <2>2. pending' = Append(pending, e) /\ wire' = wire \o Sent(e) /\ UNCHANGED <<obf, aux, pc, sc>>
    BY <1>1, <2>1 DEF Press, buffer
  <2> QED
    BY <2>1, <2>2, UserActs
<1>2. ASSUME NEW k \in Keys, LetGo(k)
      PROVE  Framed'
  <2> DEFINE e == [key |-> k, press |-> FALSE]
  <2>1. e \in Event /\ Sent(e) = Break(k)
    BY DEF Event, Sent
  <2>2. pending' = Append(pending, e) /\ wire' = wire \o Sent(e) /\ UNCHANGED <<obf, aux, pc, sc>>
    BY <1>2, <2>1 DEF LetGo, buffer
  <2> QED
    BY <2>1, <2>2, UserActs
<1>3. CASE Transfer
  BY <1>3, KeyboardSends
<1>4. CASE Receive
  BY <1>4, HandlerReads
<1>5. CASE KeyEvent
  BY <1>5, HandlerDone
<1>6. CASE \/ MoveMouse \/ TransferMouse \/ Interrupt \/ TimeOut
           \/ MouseInterrupt \/ ReceiveMouse \/ PrintMovement \/ UNCHANGED vars
  <2>1. UNCHANGED <<pending, wire, sc>>
    BY <1>6 DEF MoveMouse, TransferMouse, Interrupt, TimeOut, MouseInterrupt, ReceiveMouse,
                PrintMovement, vars, keyboardVars
  <2>2. /\ obf' # << >> /\ ~aux' => obf # << >> /\ ~aux /\ obf' = obf
        /\ obf # << >> /\ ~aux => obf' # << >> /\ ~aux' /\ obf' = obf
    BY <1>6 DEF MoveMouse, TransferMouse, Interrupt, TimeOut, MouseInterrupt, ReceiveMouse,
                PrintMovement, vars, buffer, Separate, MouseQuiet
  <2>3. pc' = pc \/ {pc, pc'} \cap {"more", "received"} = {}
    BY <1>6 DEF MoveMouse, TransferMouse, Interrupt, TimeOut, MouseInterrupt, ReceiveMouse,
                PrintMovement, vars
  <2> QED
    BY <2>1, <2>2, <2>3, SameCodes
<1> QED
  BY <1>1, <1>2, <1>3, <1>4, <1>5, <1>6 DEF Next, Handler, Sending

LEMMA InitFramed == Init => Framed
<1> SUFFICES ASSUME Init PROVE Framed
  OBVIOUS
<1>1. pending = << >> /\ wire = << >> /\ obf = << >> /\ pc = "returned" /\ sc = << >>
  BY DEF Init
<1>2. sc \o Coming = << >>
  BY <1>1 DEF Coming, Arriving
<1>3. Framing(<< >>, << >>, [n \in 1 .. 1 |-> 0])
  BY DEF Framing
<1>4. Reading /\ OneByte
  BY <1>1 DEF Reading, OneByte
<1> QED
  BY <1>1, <1>2, <1>3, <1>4 DEF Framed

(* A user of one device at a time never finds the machine hung in a        *)
(* handler: the byte it polls for, with interrupts disabled and without a  *)
(* timeout, is on its way, and ki->sc has room for the code.               *)
THEOREM PollsEnd ==
  ASSUME ~BothHands
  PROVE  Spec => []NeverStuck
<1>1. Init => NoLostWakeup /\ Separate /\ InStep
  BY DEF Init, NoLostWakeup, Separate, KeyboardQuiet, InStep, Taken, Waiting
<1>2. ASSUME Framed, InStep PROVE NeverStuck
  <2>1. /\ pending \in Seq(Event) /\ sc \in Seq(Byte) /\ wire \in Seq(Byte) /\ Coming \in Seq(Byte)
    BY <1>2, ComingBytes DEF Framed
  <2>2. PICK cut : Framing(pending, sc \o Coming, cut)
    BY <1>2 DEF Framed
  <2>3. pending # << >> => /\ Len(Sent(pending[1])) <= Len(sc) + Len(Coming)
                           /\ pending[1] \in Event
    BY <2>1, <2>2, FirstCode
  <2>4. pending # << >> => Len(Sent(pending[1])) \in 1 .. 6
    BY <2>3, EventCode
  <2>5. ASSUME pc = "more" PROVE obf # << >> \/ wire # << >>
    <3>1. pending # << >> /\ Len(sc) \in 1 .. Len(Sent(pending[1])) - 1
      BY <1>2, <2>5 DEF Framed, Reading
    <3>2. Coming # << >>
      BY <2>1, <2>3, <2>4, <3>1
    <3> QED
      BY <3>2 DEF Coming, Arriving
  <2>6. ASSUME pc \in {"data1", "data2"} PROVE obf # << >> \/ mouse_wire # << >>
    <3>1. (Taken + Waiting + Len(mouse_wire)) % 3 = 0 /\ Taken \in 1 .. 2
      BY <1>2, <2>6 DEF InStep, Taken
    <3>2. mouse_wire = << >> => Len(mouse_wire) = 0
      OBVIOUS
    <3>3. obf = << >> => Waiting = 0
      BY DEF Waiting
    <3>4. ASSUME obf = << >>, mouse_wire = << >> PROVE FALSE
      <4>1. Taken + Waiting + Len(mouse_wire) = Taken
        BY <3>1, <3>2, <3>3, <3>4
      <4>2. Taken % 3 = 0
        BY <3>1, <4>1
      <4> HIDE DEF Taken
      <4> QED
        BY <3>1, <4>2
    <3> QED
      BY <3>4
  <2>7. Len(sc) <= 6
    <3>1. pc \in {"more", "received"} \/ pc \notin {"more", "received"}
      OBVIOUS
    <3>2. \/ pending # << >> /\ Len(sc) \in 1 .. Len(Sent(pending[1])) - 1
          \/ pending # << >> /\ Len(sc) = Len(Sent(pending[1]))
          \/ sc = << >>
      BY <1>2 DEF Framed, Reading
    <3>3. CASE sc = << >>
      BY <3>3
    <3>4. CASE sc # << >>
      <4> DEFINE len == Len(Sent(pending[1]))
      <4>1. (Len(sc) \in 1 .. len - 1 \/ Len(sc) = len) /\ len \in 1 .. 6
        BY <2>4, <3>2, <3>4
      <4> HIDE DEF len
      <4> QED
        BY <4>1
    <3> QED
      BY <3>3, <3>4
  <2> QED
    BY <2>5, <2>6, <2>7 DEF NeverStuck
<1>3. NoLostWakeup /\ Separate /\ [Next]_vars => Separate'
  BY NextSeparate DEF Separated
<1> QED
  BY <1>1, <1>2, <1>3, InitFramed, NextFramed, NextWakeup, NextInStep, PTL DEF Spec

-----------------------------------------------------------------------------
(* The invariant behind KeysMirrorHeld. *)

(* Event n is the last one of key k that the handler has yet to handle. *)
LastOf(k, n) ==
  /\ n \in 1 .. Len(pending)
  /\ pending[n].key = k
  /\ \A m \in 1 .. Len(pending) : m > n => pending[m].key # k

NoneOf(k) == \A n \in 1 .. Len(pending) : pending[n].key # k

(* Is a key held?  The last event to come says it, or else keys[].         *)
Mirrored ==
  \A k \in Keys :
    /\ \A n : LastOf(k, n) => (k \in held <=> pending[n].press)
    /\ NoneOf(k) => (k \in held <=> scan_keycode(k) \in keys)

(* The user does something. *)
LEMMA MirrorActs ==
  ASSUME Mirrored, pending \in Seq(Event), NEW e \in Event,
         pending' = Append(pending, e), UNCHANGED keys,
         held' = IF e.press THEN held \cup {e.key} ELSE held \ {e.key}
  PROVE  Mirrored'
<1>1. /\ Len(pending) \in Nat /\ Len(pending') = Len(pending) + 1
      /\ \A n \in 1 .. Len(pending) : pending'[n] = pending[n]
      /\ pending'[Len(pending) + 1] = e
  BY AppendProperties, LenProperties
<1>2. ASSUME NEW k \in Keys, k # e.key
      PROVE  k \in held' <=> k \in held
  BY <1>2
<1>3. ASSUME NEW k \in Keys, NEW n, LastOf(k, n)'
      PROVE  k \in held' <=> pending'[n].press
  <2>1. /\ n \in 1 .. Len(pending) + 1 /\ pending'[n].key = k
        /\ \A m \in 1 .. Len(pending) + 1 : m > n => pending'[m].key # k
    BY <1>1, <1>3 DEF LastOf
  <2>2. CASE k = e.key
    <3>1. n = Len(pending) + 1
      BY <1>1, <2>1, <2>2
    <3>2. pending'[n] = e
      BY <1>1, <3>1
    <3> QED
      BY <2>2, <3>2
  <2>3. CASE k # e.key
    <3>1. n \in 1 .. Len(pending)
      BY <1>1, <2>1, <2>3
    <3>2. LastOf(k, n)
      BY <1>1, <2>1, <3>1 DEF LastOf
    <3>3. k \in held <=> pending[n].press
      BY <3>2 DEF Mirrored
    <3> QED
      BY <1>1, <1>2, <2>3, <3>1, <3>3
  <2> QED
    BY <2>2, <2>3
<1>4. ASSUME NEW k \in Keys, NoneOf(k)'
      PROVE  k \in held' <=> scan_keycode(k) \in keys
  <2>1. \A n \in 1 .. Len(pending) + 1 : pending'[n].key # k
    BY <1>1, <1>4 DEF NoneOf
  <2>2. k # e.key
    BY <1>1, <2>1
  <2>3. NoneOf(k)
    BY <1>1, <2>1 DEF NoneOf
  <2>4. k \in held <=> scan_keycode(k) \in keys
    BY <2>3 DEF Mirrored
  <2> QED
    BY <1>2, <2>2, <2>4
<1> QED
  BY <1>3, <1>4 DEF Mirrored

(* What to_keyevent makes of the code of the first event. *)
LEMMA CodeRead ==
  ASSUME Framed, pc = "received"
  PROVE  /\ pending # << >> /\ pending[1] \in Event
         /\ scan_keycode(sc) = scan_keycode(pending[1].key)
         /\ Pressed(sc) <=> pending[1].press
<1>1. /\ pending # << >> /\ Len(sc) = Len(Sent(pending[1]))
      /\ pending \in Seq(Event) /\ sc \in Seq(Byte) /\ Coming \in Seq(Byte)
  BY ComingBytes DEF Framed, Reading
<1>2. PICK cut : Framing(pending, sc \o Coming, cut)
  BY DEF Framed
<1>3. pending[1] \in Event /\ (Len(sc) \in 1 .. Len(Sent(pending[1])) => Begins(sc, Sent(pending[1])))
  BY <1>1, <1>2, FirstCode
<1>4. CodeOf(Sent(pending[1]), pending[1].key, pending[1].press) /\ Len(Sent(pending[1])) \in 1 .. 6
      /\ Sent(pending[1]) \in Seq(Byte)
  BY <1>3, EventCode
<1>5. Begins(sc, Sent(pending[1]))
  BY <1>1, <1>3, <1>4
<1>6. sc = Sent(pending[1])
  <2>1. \A n \in 1 .. Len(sc) : sc[n] = Sent(pending[1])[n]
    BY <1>5 DEF Begins
  <2> QED
    BY <1>1, <1>4, <2>1, SeqEqual
<1> QED
  BY <1>1, <1>3, <1>4, <1>6 DEF CodeOf

(* The handler is done with the first event. *)
LEMMA MirrorDone ==
  ASSUME Mirrored, Framed, KeyEvent
  PROVE  Mirrored'
<1> DEFINE e == pending[1]
           kc == scan_keycode(e.key)
<1>1. /\ pc = "received" /\ pending # << >> /\ pending \in Seq(Event) /\ e \in Event
      /\ scan_keycode(sc) = kc /\ (Pressed(sc) <=> e.press)
  BY CodeRead DEF KeyEvent, Framed
<1>2. /\ pending' = Tail(pending) /\ held' = held
      /\ keys' = IF e.press THEN keys \cup {kc} ELSE keys \ {kc}
  BY <1>1 DEF KeyEvent, to_keyevent
<1>3. /\ Len(pending) \in Nat /\ Len(pending) >= 1 /\ Len(pending') = Len(pending) - 1
      /\ \A n \in 1 .. Len(pending) - 1 : pending'[n] = pending[n + 1]
  BY <1>1, <1>2
<1>4. e.key \in Keys /\ e.press \in BOOLEAN
  BY <1>1 DEF Event
<1> HIDE DEF e, kc
<1>5. ASSUME NEW k \in Keys, NEW n, LastOf(k, n)'
      PROVE  k \in held' <=> pending'[n].press
  <2>1. /\ n \in 1 .. Len(pending) - 1 /\ pending'[n].key = k
        /\ \A m \in 1 .. Len(pending) - 1 : m > n => pending'[m].key # k
    BY <1>3, <1>5 DEF LastOf
  <2>2. ASSUME NEW m \in 1 .. Len(pending), m > n + 1 PROVE pending[m].key # k
    <3>1. m - 1 \in 1 .. Len(pending) - 1 /\ m - 1 > n /\ (m - 1) + 1 = m
      BY <1>3, <2>1, <2>2
    <3>2. pending'[m - 1] = pending[m]
      BY <1>3, <3>1
    <3> QED
      BY <2>1, <3>1, <3>2
  <2>3. n + 1 \in 1 .. Len(pending) /\ pending'[n] = pending[n + 1]
    BY <1>3, <2>1
  <2>4. LastOf(k, n + 1)
    BY <2>1, <2>2, <2>3 DEF LastOf
  <2>5. k \in held <=> pending[n + 1].press
    BY <2>4 DEF Mirrored
  <2> QED
    BY <1>2, <2>3, <2>5
<1>6. ASSUME NEW k \in Keys, NoneOf(k)'
      PROVE  k \in held' <=> scan_keycode(k) \in keys'
  <2>1. ASSUME NEW m \in 1 .. Len(pending), m > 1 PROVE pending[m].key # k
    <3>1. m - 1 \in 1 .. Len(pending) - 1 /\ (m - 1) + 1 = m /\ m - 1 \in 1 .. Len(pending')
      BY <1>3, <2>1
    <3>2. pending'[m - 1] = pending[m]
      BY <1>3, <3>1
    <3> QED
      BY <1>6, <3>1, <3>2 DEF NoneOf
  <2>2. 1 \in 1 .. Len(pending)
    BY <1>3
  <2>3. CASE k = e.key
    <3>1. LastOf(k, 1)
      BY <2>1, <2>2, <2>3 DEF LastOf, e
    <3>2. k \in held <=> e.press
      BY <3>1 DEF Mirrored, e
    <3>3. scan_keycode(k) = kc
      BY <2>3 DEF kc
    <3> QED
      BY <1>2, <1>4, <3>2, <3>3
  <2>4. CASE k # e.key
    <3>1. NoneOf(k)
      <4> SUFFICES ASSUME NEW m \in 1 .. Len(pending) PROVE pending[m].key # k
        BY DEF NoneOf
      <4>1. CASE m = 1
        BY <2>4, <4>1 DEF e
      <4>2. CASE m # 1
        BY <2>1, <4>2
      <4> QED
        BY <4>1, <4>2
    <3>2. k \in held <=> scan_keycode(k) \in keys
      BY <3>1 DEF Mirrored
    <3>3. scan_keycode(k) # kc
      BY <1>4, <2>4, KeyboardAssumption DEF kc
    <3> QED
      BY <1>2, <3>2, <3>3
  <2> QED
    BY <2>3, <2>4
<1> QED
  BY <1>5, <1>6 DEF Mirrored

LEMMA NextMirrored == Framed /\ Mirrored /\ [Next]_vars => Mirrored'
<1> SUFFICES ASSUME Framed, Mirrored, [Next]_vars PROVE Mirrored'
  OBVIOUS
<1>0. pending \in Seq(Event)
  BY DEF Framed
<1>1. ASSUME NEW k \in Keys, Press(k) \/ LetGo(k)
      PROVE  Mirrored'
  <2>1. CASE Press(k)
    <3> DEFINE e == [key |-> k, press |-> TRUE]
    <3>1. /\ e \in Event /\ e.key = k /\ e.press
          /\ pending' = Append(pending, e) /\ held' = held \cup {k} /\ keys' = keys
      BY <2>1 DEF Press, Event
    <3> QED
      BY <1>0, <3>1, MirrorActs
  <2>2. CASE LetGo(k)
    <3> DEFINE e == [key |-> k, press |-> FALSE]
    <3>1. /\ e \in Event /\ e.key = k /\ ~e.press
          /\ pending' = Append(pending, e) /\ held' = held \ {k} /\ keys' = keys
      BY <2>2 DEF LetGo, Event
    <3> QED
      BY <1>0, <3>1, MirrorActs
  <2> QED
    BY <1>1, <2>1, <2>2
<1>2. CASE KeyEvent
  BY <1>2, MirrorDone
<1>3. ASSUME UNCHANGED <<held, pending, keys>>
      PROVE  Mirrored'
  BY <1>3 DEF Mirrored, LastOf, NoneOf
<1>4. CASE \/ MoveMouse \/ Sending \/ Interrupt \/ TimeOut \/ Receive
           \/ MouseInterrupt \/ ReceiveMouse \/ PrintMovement \/ UNCHANGED vars
  <2>1. UNCHANGED <<held, pending, keys>>
    BY <1>4 DEF Sending, Transfer, MoveMouse, TransferMouse, Interrupt, TimeOut, Receive,
                MouseInterrupt, ReceiveMouse, PrintMovement, vars, keyboardVars
  <2> QED
    BY <1>3, <2>1
<1> QED
  BY <1>1, <1>2, <1>4 DEF Next, Handler

(* Once the handler has caught up with the user, keys[] says which keys    *)
(* are held, so no modifier sticks and none is forgotten.                  *)
THEOREM KeysCatchUp ==
  ASSUME ~BothHands
  PROVE  Spec => []KeysMirrorHeld
<1>1. Init => NoLostWakeup /\ Separate /\ Mirrored
  BY DEF Init, NoLostWakeup, Separate, KeyboardQuiet, Mirrored, LastOf, NoneOf
<1>2. ASSUME Mirrored PROVE KeysMirrorHeld
  <2> SUFFICES ASSUME pending = << >>, NEW p \in KeyTable, p[1] \in Keys
               PROVE  p[2] \in keys <=> p[1] \in held
    BY DEF KeysMirrorHeld
  <2>1. p[2] = scan_keycode(p[1])
    BY DEF KeyTable
  <2>2. NoneOf(p[1])
    BY DEF NoneOf
  <2> QED
    BY <1>2, <2>1, <2>2 DEF Mirrored
<1>3. NoLostWakeup /\ Separate /\ [Next]_vars => Separate'
  BY NextSeparate DEF Separated
<1> QED
  BY <1>1, <1>2, <1>3, InitFramed, NextFramed, NextMirrored, NextWakeup, PTL DEF Spec

-----------------------------------------------------------------------------
(* The tables say one thing of every byte, and of every keycode what is    *)
(* printed on the key.                                                     *)

(* No byte is in two places of a table. *)
LEMMA OnePlace ==
  ASSUME NEW r \in Rows, NEW c \in DOMAIN Codes[r + 1],
         NEW s \in Rows, NEW d \in DOMAIN Codes[s + 1],
         Codes[r + 1][c] = Codes[s + 1][d], Codes[r + 1][c] # "--"
  PROVE  r = s /\ c = d
<1>1. CASE r = 0
  <2>0. CASE s = 0
    BY <1>1, <2>0 DEF Codes
  <2>1. CASE s = 1
    BY <1>1, <2>1 DEF Codes
  <2>2. CASE s = 2
    BY <1>1, <2>2 DEF Codes
  <2>3. CASE s = 3
    BY <1>1, <2>3 DEF Codes
  <2>4. CASE s = 4
    BY <1>1, <2>4 DEF Codes
  <2>5. CASE s = 5
    BY <1>1, <2>5 DEF Codes
  <2> QED
    BY RowByRow, <2>0, <2>1, <2>2, <2>3, <2>4, <2>5
<1>2. CASE r = 1
  <2>0. CASE s = 0
    BY <1>2, <2>0 DEF Codes
  <2>1. CASE s = 1
    BY <1>2, <2>1 DEF Codes
  <2>2. CASE s = 2
    BY <1>2, <2>2 DEF Codes
  <2>3. CASE s = 3
    BY <1>2, <2>3 DEF Codes
  <2>4. CASE s = 4
    BY <1>2, <2>4 DEF Codes
  <2>5. CASE s = 5
    BY <1>2, <2>5 DEF Codes
  <2> QED
    BY RowByRow, <2>0, <2>1, <2>2, <2>3, <2>4, <2>5
<1>3. CASE r = 2
  <2>0. CASE s = 0
    BY <1>3, <2>0 DEF Codes
  <2>1. CASE s = 1
    BY <1>3, <2>1 DEF Codes
  <2>2. CASE s = 2
    BY <1>3, <2>2 DEF Codes
  <2>3. CASE s = 3
    BY <1>3, <2>3 DEF Codes
  <2>4. CASE s = 4
    BY <1>3, <2>4 DEF Codes
  <2>5. CASE s = 5
    BY <1>3, <2>5 DEF Codes
  <2> QED
    BY RowByRow, <2>0, <2>1, <2>2, <2>3, <2>4, <2>5
<1>4. CASE r = 3
  <2>0. CASE s = 0
    BY <1>4, <2>0 DEF Codes
  <2>1. CASE s = 1
    BY <1>4, <2>1 DEF Codes
  <2>2. CASE s = 2
    BY <1>4, <2>2 DEF Codes
  <2>3. CASE s = 3
    BY <1>4, <2>3 DEF Codes
  <2>4. CASE s = 4
    BY <1>4, <2>4 DEF Codes
  <2>5. CASE s = 5
    BY <1>4, <2>5 DEF Codes
  <2> QED
    BY RowByRow, <2>0, <2>1, <2>2, <2>3, <2>4, <2>5
<1>5. CASE r = 4
  <2>0. CASE s = 0
    BY <1>5, <2>0 DEF Codes
  <2>1. CASE s = 1
    BY <1>5, <2>1 DEF Codes
  <2>2. CASE s = 2
    BY <1>5, <2>2 DEF Codes
  <2>3. CASE s = 3
    BY <1>5, <2>3 DEF Codes
  <2>4. CASE s = 4
    BY <1>5, <2>4 DEF Codes
  <2>5. CASE s = 5
    BY <1>5, <2>5 DEF Codes
  <2> QED
    BY RowByRow, <2>0, <2>1, <2>2, <2>3, <2>4, <2>5
<1>6. CASE r = 5
  <2>0. CASE s = 0
    BY <1>6, <2>0 DEF Codes
  <2>1. CASE s = 1
    BY <1>6, <2>1 DEF Codes
  <2>2. CASE s = 2
    BY <1>6, <2>2 DEF Codes
  <2>3. CASE s = 3
    BY <1>6, <2>3 DEF Codes
  <2>4. CASE s = 4
    BY <1>6, <2>4 DEF Codes
  <2>5. CASE s = 5
    BY <1>6, <2>5 DEF Codes
  <2> QED
    BY RowByRow, <2>0, <2>1, <2>2, <2>3, <2>4, <2>5
<1> QED
  BY RowByRow, <1>1, <1>2, <1>3, <1>4, <1>5, <1>6

LEMMA OnePlaceE0 ==
  ASSUME NEW r \in Rows, NEW c \in DOMAIN CodesE0[r + 1],
         NEW s \in Rows, NEW d \in DOMAIN CodesE0[s + 1],
         CodesE0[r + 1][c] = CodesE0[s + 1][d], CodesE0[r + 1][c] # "--"
  PROVE  r = s /\ c = d
<1>1. CASE r = 0
  <2>0. CASE s = 0
    BY <1>1, <2>0 DEF CodesE0
  <2>1. CASE s = 1
    BY <1>1, <2>1 DEF CodesE0
  <2>2. CASE s = 2
    BY <1>1, <2>2 DEF CodesE0
  <2>3. CASE s = 3
    BY <1>1, <2>3 DEF CodesE0
  <2>4. CASE s = 4
    BY <1>1, <2>4 DEF CodesE0
  <2>5. CASE s = 5
    BY <1>1, <2>5 DEF CodesE0
  <2> QED
    BY RowByRow, <2>0, <2>1, <2>2, <2>3, <2>4, <2>5
<1>2. CASE r = 1
  <2>0. CASE s = 0
    BY <1>2, <2>0 DEF CodesE0
  <2>1. CASE s = 1
    BY <1>2, <2>1 DEF CodesE0
  <2>2. CASE s = 2
    BY <1>2, <2>2 DEF CodesE0
  <2>3. CASE s = 3
    BY <1>2, <2>3 DEF CodesE0
  <2>4. CASE s = 4
    BY <1>2, <2>4 DEF CodesE0
  <2>5. CASE s = 5
    BY <1>2, <2>5 DEF CodesE0
  <2> QED
    BY RowByRow, <2>0, <2>1, <2>2, <2>3, <2>4, <2>5
<1>3. CASE r = 2
  <2>0. CASE s = 0
    BY <1>3, <2>0 DEF CodesE0
  <2>1. CASE s = 1
    BY <1>3, <2>1 DEF CodesE0
  <2>2. CASE s = 2
    BY <1>3, <2>2 DEF CodesE0
  <2>3. CASE s = 3
    BY <1>3, <2>3 DEF CodesE0
  <2>4. CASE s = 4
    BY <1>3, <2>4 DEF CodesE0
  <2>5. CASE s = 5
    BY <1>3, <2>5 DEF CodesE0
  <2> QED
    BY RowByRow, <2>0, <2>1, <2>2, <2>3, <2>4, <2>5
<1>4. CASE r = 3
  <2>0. CASE s = 0
    BY <1>4, <2>0 DEF CodesE0
  <2>1. CASE s = 1
    BY <1>4, <2>1 DEF CodesE0
  <2>2. CASE s = 2
    BY <1>4, <2>2 DEF CodesE0
  <2>3. CASE s = 3
    BY <1>4, <2>3 DEF CodesE0
  <2>4. CASE s = 4
    BY <1>4, <2>4 DEF CodesE0
  <2>5. CASE s = 5
    BY <1>4, <2>5 DEF CodesE0
  <2> QED
    BY RowByRow, <2>0, <2>1, <2>2, <2>3, <2>4, <2>5
<1>5. CASE r = 4
  <2>0. CASE s = 0
    BY <1>5, <2>0 DEF CodesE0
  <2>1. CASE s = 1
    BY <1>5, <2>1 DEF CodesE0
  <2>2. CASE s = 2
    BY <1>5, <2>2 DEF CodesE0
  <2>3. CASE s = 3
    BY <1>5, <2>3 DEF CodesE0
  <2>4. CASE s = 4
    BY <1>5, <2>4 DEF CodesE0
  <2>5. CASE s = 5
    BY <1>5, <2>5 DEF CodesE0
  <2> QED
    BY RowByRow, <2>0, <2>1, <2>2, <2>3, <2>4, <2>5
<1>6. CASE r = 5
  <2>0. CASE s = 0
    BY <1>6, <2>0 DEF CodesE0
  <2>1. CASE s = 1
    BY <1>6, <2>1 DEF CodesE0
  <2>2. CASE s = 2
    BY <1>6, <2>2 DEF CodesE0
  <2>3. CASE s = 3
    BY <1>6, <2>3 DEF CodesE0
  <2>4. CASE s = 4
    BY <1>6, <2>4 DEF CodesE0
  <2>5. CASE s = 5
    BY <1>6, <2>5 DEF CodesE0
  <2> QED
    BY RowByRow, <2>0, <2>1, <2>2, <2>3, <2>4, <2>5
<1> QED
  BY RowByRow, <1>1, <1>2, <1>3, <1>4, <1>5, <1>6

(* The bytes that do not come from the rows. *)
LEMMA OtherBytes ==
  /\ \A r \in Rows : \A c \in DOMAIN Codes[r + 1] : Codes[r + 1][c] \notin {"0e", "7e"}
  /\ \A r \in Rows : \A c \in DOMAIN CodesE0[r + 1] : CodesE0[r + 1][c] \notin MediaKeys
<1>1. ASSUME NEW r \in Rows, NEW c \in DOMAIN Codes[r + 1]
      PROVE  Codes[r + 1][c] \notin {"0e", "7e"}
  <2>0. CASE r = 0
    BY <2>0 DEF Codes
  <2>1. CASE r = 1
    BY <2>1 DEF Codes
  <2>2. CASE r = 2
    BY <2>2 DEF Codes
  <2>3. CASE r = 3
    BY <2>3 DEF Codes
  <2>4. CASE r = 4
    BY <2>4 DEF Codes
  <2>5. CASE r = 5
    BY <2>5 DEF Codes
  <2> QED
    BY <2>0, <2>1, <2>2, <2>3, <2>4, <2>5, RowByRow
<1>2. ASSUME NEW r \in Rows, NEW c \in DOMAIN CodesE0[r + 1]
      PROVE  CodesE0[r + 1][c] \notin MediaKeys
  <2>0. CASE r = 0
    BY <2>0 DEF CodesE0, MediaKeys
  <2>1. CASE r = 1
    BY <2>1 DEF CodesE0, MediaKeys
  <2>2. CASE r = 2
    BY <2>2 DEF CodesE0, MediaKeys
  <2>3. CASE r = 3
    BY <2>3 DEF CodesE0, MediaKeys
  <2>4. CASE r = 4
    BY <2>4 DEF CodesE0, MediaKeys
  <2>5. CASE r = 5
    BY <2>5 DEF CodesE0, MediaKeys
  <2> QED
    BY <2>0, <2>1, <2>2, <2>3, <2>4, <2>5, RowByRow
<1> QED
  BY <1>1, <1>2

(* What scan_keycode finds. *)
LEMMA OneByteKey ==
  ASSUME NEW r \in Rows, NEW c \in DOMAIN Codes[r + 1], Codes[r + 1][c] # "--"
  PROVE  /\ <<Codes[r + 1][c]>> \in AllKeys
         /\ scan_keycode(<<Codes[r + 1][c]>>) = K(r, c - 1)
<1> DEFINE b == Codes[r + 1][c]
           q == <<b, K(r, c - 1)>>
<1>1. q \in Pairs(Codes)
  BY DEF Pairs
<1>2. q \in Map0 /\ q[1] = b /\ q[2] = K(r, c - 1)
  BY <1>1 DEF Map0
<1>3. b \notin {"e0", "f0", "e1"}
  BY <1>2, FirstBytes
<1>4. ASSUME NEW p \in Map0, p[1] = b PROVE p = q
  <2>1. CASE p \in Pairs(Codes)
    <3>0. PICK s \in Rows : \E d \in DOMAIN Codes[s + 1] : p = <<Codes[s + 1][d], K(s, d - 1)>>
      BY <2>1, PairsOf
    <3>1. PICK d \in DOMAIN Codes[s + 1] : p = <<Codes[s + 1][d], K(s, d - 1)>>
      BY <3>0
    <3>2. r = s /\ c = d
      BY <1>4, <3>1, OnePlace
    <3> QED
      BY <3>1, <3>2
  <2>2. CASE p \notin Pairs(Codes)
    <3>1. p[1] \in {"0e", "7e"}
      BY <2>2 DEF Map0
    <3> QED
      BY <1>4, <3>1, OtherBytes
  <2> QED
    BY <2>1, <2>2
<1>5. (CHOOSE p \in Map0 : p[1] = b) = q
  BY <1>2, <1>4
<1>6. map0(b) = K(r, c - 1)
  BY <1>2, <1>3, <1>5 DEF map0, LookUp, Prefixes
<1>7. scan_keycode(<<b>>) = map0(b)
  BY <1>3 DEF scan_keycode, HasE0, HasF0, Code
<1>8. <<q[1]>> \in AllKeys
  BY <1>2 DEF AllKeys
<1> QED
  BY <1>2, <1>6, <1>7, <1>8

LEMMA TwoByteKey ==
  ASSUME NEW r \in Rows, NEW c \in DOMAIN CodesE0[r + 1], CodesE0[r + 1][c] # "--"
  PROVE  /\ <<"e0", CodesE0[r + 1][c]>> \in AllKeys
         /\ scan_keycode(<<"e0", CodesE0[r + 1][c]>>) = K(r, c - 1)
<1> DEFINE b == CodesE0[r + 1][c]
           q == <<b, K(r, c - 1)>>
<1>1. q \in Pairs(CodesE0)
  BY DEF Pairs
<1>2. q \in MapE0 /\ q[1] = b /\ q[2] = K(r, c - 1)
  BY <1>1 DEF MapE0
<1>3. b \notin {"e0", "f0", "e1", "12", "2a", "7c"}
  BY <1>2, SecondBytes
<1>4. ASSUME NEW p \in MapE0, p[1] = b PROVE p = q
  <2>1. CASE p \in Pairs(CodesE0)
    <3>0. PICK s \in Rows : \E d \in DOMAIN CodesE0[s + 1] : p = <<CodesE0[s + 1][d], K(s, d - 1)>>
      BY <2>1, PairsOf
    <3>1. PICK d \in DOMAIN CodesE0[s + 1] : p = <<CodesE0[s + 1][d], K(s, d - 1)>>
      BY <3>0
    <3>2. r = s /\ c = d
      BY <1>4, <3>1, OnePlaceE0
    <3> QED
      BY <3>1, <3>2
  <2>2. CASE p \notin Pairs(CodesE0)
    <3>1. p[1] \in MediaKeys
      BY <2>2 DEF MapE0
    <3> QED
      BY <1>4, <3>1, OtherBytes
  <2> QED
    BY <2>1, <2>2
<1>5. (CHOOSE p \in MapE0 : p[1] = b) = q
  BY <1>2, <1>4
<1>6. map_e0(b) = K(r, c - 1)
  BY <1>2, <1>3, <1>5 DEF map_e0, LookUp, Prefixes
<1>7. scan_keycode(<<"e0", b>>) = map_e0(b)
  BY <1>3 DEF scan_keycode, HasE0, HasF0, Code
<1>8. <<"e0", q[1]>> \in AllKeys
  BY <1>2 DEF AllKeys
<1> QED
  BY <1>2, <1>6, <1>7, <1>8

(* The keys that are not in the rows. *)
LEMMA OtherKeys ==
  /\ scan_keycode(<<"7e">>) = unsupported
  /\ scan_keycode(<<"0e">>) = K(1, 13)
  /\ scan_keycode(PrintScreen) = K(0, 13)
  /\ \A b \in MediaKeys : scan_keycode(<<"e0", b>>) = unsupported
<1>1. ASSUME NEW b \in {"0e", "7e"}, NEW q \in Map0, q \notin Pairs(Codes), q[1] = b
      PROVE  scan_keycode(<<b>>) = q[2]
  <2>1. ASSUME NEW p \in Map0, p[1] = b PROVE p = q
    <3>1. CASE p \in Pairs(Codes)
      <4>0. PICK s \in Rows : \E d \in DOMAIN Codes[s + 1] : p = <<Codes[s + 1][d], K(s, d - 1)>>
        BY <3>1, PairsOf
      <4>1. PICK d \in DOMAIN Codes[s + 1] : p = <<Codes[s + 1][d], K(s, d - 1)>>
        BY <4>0
      <4> QED
        BY <2>1, <4>1, OtherBytes
    <3>2. CASE p \notin Pairs(Codes)
      BY <1>1, <2>1, <3>2 DEF Map0
    <3> QED
      BY <3>1, <3>2
  <2>2. (CHOOSE p \in Map0 : p[1] = b) = q
    BY <1>1, <2>1
  <2>3. map0(b) = q[2]
    BY <1>1, <2>2 DEF map0, LookUp, Prefixes
  <2> QED
    BY <2>3 DEF scan_keycode, HasE0, HasF0, Code
<1>2. ASSUME NEW b \in {"0e", "7e"}, NEW kc PROVE <<b, kc>> \notin Pairs(Codes)
  <2> SUFFICES ASSUME <<b, kc>> \in Pairs(Codes) PROVE FALSE
    OBVIOUS
  <2>0. PICK s \in Rows : \E d \in DOMAIN Codes[s + 1] : <<b, kc>> = <<Codes[s + 1][d], K(s, d - 1)>>
    BY PairsOf
  <2>1. PICK d \in DOMAIN Codes[s + 1] : <<b, kc>> = <<Codes[s + 1][d], K(s, d - 1)>>
    BY <2>0
  <2> QED
    BY <2>1, OtherBytes
<1>3. scan_keycode(<<"7e">>) = unsupported /\ scan_keycode(<<"0e">>) = K(1, 13)
  <2>1. <<"7e", unsupported>> \in Map0 /\ <<"0e", K(1, 13)>> \in Map0
    BY DEF Map0
  <2>2. <<"7e", unsupported>> \notin Pairs(Codes) /\ <<"0e", K(1, 13)>> \notin Pairs(Codes)
    BY <1>2
  <2>3. scan_keycode(<<"7e">>) = <<"7e", unsupported>>[2]
    BY <1>1, <2>1, <2>2
  <2>4. scan_keycode(<<"0e">>) = <<"0e", K(1, 13)>>[2]
    BY <1>1, <2>1, <2>2
  <2> QED
    BY <2>3, <2>4
<1>4. scan_keycode(PrintScreen) = K(0, 13)
  BY DEF PrintScreen, scan_keycode, HasE0, HasF0, Code
<1>5. ASSUME NEW b \in MediaKeys
      PROVE  scan_keycode(<<"e0", b>>) = unsupported
  <2>1. ASSUME NEW p \in MapE0, p[1] = b PROVE p = <<b, unsupported>>
    <3>1. CASE p \in Pairs(CodesE0)
      <4>0. PICK s \in Rows : \E d \in DOMAIN CodesE0[s + 1] : p = <<CodesE0[s + 1][d], K(s, d - 1)>>
        BY <3>1, PairsOf
      <4>1. PICK d \in DOMAIN CodesE0[s + 1] : p = <<CodesE0[s + 1][d], K(s, d - 1)>>
        BY <4>0
      <4> QED
        BY <2>1, <4>1, OtherBytes
    <3>2. CASE p \notin Pairs(CodesE0)
      BY <2>1, <3>2 DEF MapE0
    <3> QED
      BY <3>1, <3>2
  <2>2. <<b, unsupported>> \in MapE0
    BY DEF MapE0
  <2>3. (CHOOSE p \in MapE0 : p[1] = b) = <<b, unsupported>>
    BY <2>1, <2>2
  <2>4. b \notin {"e0", "f0", "e1", "12", "2a", "7c"}
    BY DEF MediaKeys
  <2>5. map_e0(b) = unsupported
    <3>1. b \notin Prefixes
      BY <2>4 DEF Prefixes
    <3>2. \E p \in MapE0 : p[1] = b
      BY <2>2
    <3>3. (CHOOSE p \in MapE0 : p[1] = b)[2] = unsupported
      <4>1. <<b, unsupported>>[2] = unsupported
        OBVIOUS
      <4> QED
        BY <2>3, <4>1, Zenon
    <3> QED
      BY <3>1, <3>2, <3>3 DEF map_e0, LookUp
  <2> QED
    BY <2>4, <2>5 DEF scan_keycode, HasE0, HasF0, Code
<1> QED
  BY <1>3, <1>4, <1>5

(* A keycode and its place in the tables of characters. *)
LEMMA Places ==
  ASSUME NEW r \in 0 .. 7, NEW x \in 0 .. 31
  PROVE  /\ K(r, x) = 32 * r + x
         /\ K(r, x) \div 32 = r
         /\ K(r, x) % 32 = x
<1>1. r % 8 = r /\ x % 32 = x
  OBVIOUS
<1>2. K(r, x) = 32 * r + x
  BY <1>1 DEF K
<1>3. (32 * r + x) \div 32 = r /\ (32 * r + x) % 32 = x
  OBVIOUS
<1> QED
  BY <1>2, <1>3

Cell(table, r, c) ==
  IF c <= Len(table[r + 1]) /\ table[r + 1][c] # "--" THEN table[r + 1][c] ELSE NoSym

(* The entries that need the num lock. *)
OnPad(r, c) == r \in 2 .. 4 /\ c \in 15 .. 17

LEMMA Entries ==
  ASSUME NEW r \in Rows, NEW c \in 1 .. 20
  PROVE  /\ def_keymap(0, K(r, c - 1)) = Cell(Plain, r, c)
         /\ def_keymap(1, K(r, c - 1)) = Cell(Shifted, r, c)
         /\ K(r, c - 1) \in NumPad <=> OnPad(r, c)
<1> DEFINE x == c - 1
           kc == K(r, x)
<1>1. r \in 0 .. 5 /\ x \in 0 .. 19 /\ x + 1 = c
  BY DEF Rows
<1>2. r \in 0 .. 7 /\ x \in 0 .. 31
  BY <1>1
<1>3. kc \div 32 = r /\ kc % 32 = x
  BY <1>2, Places
<1>4. Len(Plain[r + 1]) \in Nat /\ Len(Shifted[r + 1]) \in Nat
  <2>1. r + 1 = 1 \/ r + 1 = 2 \/ r + 1 = 3 \/ r + 1 = 4 \/ r + 1 = 5 \/ r + 1 = 6
    BY <1>1
  <2> QED
    BY <2>1, SMTT(30) DEF Plain, Shifted
<1> HIDE DEF x, kc
<1>5. ASSUME NEW table, Len(table[r + 1]) \in Nat
      PROVE  Entry(table, kc) = Cell(table, r, c)
  <2>1. x < Len(table[r + 1]) <=> c <= Len(table[r + 1])
    BY <1>1, <1>5
  <2> QED
    BY <1>1, <1>3, <2>1 DEF Entry, Cell
<1>6. def_keymap(0, kc) = Cell(Plain, r, c) /\ def_keymap(1, kc) = Cell(Shifted, r, c)
  BY <1>4, <1>5 DEF def_keymap
<1>7. kc \in NumPad <=> OnPad(r, c)
  <2>1. ASSUME kc \in NumPad PROVE OnPad(r, c)
    <3>1. PICK s \in 2 .. 4, y \in 14 .. 16 : kc = K(s, y)
      BY <2>1 DEF NumPad
    <3>2. s \in 0 .. 7 /\ y \in 0 .. 31
      OBVIOUS
    <3>3. K(s, y) \div 32 = s /\ K(s, y) % 32 = y
      BY <3>2, Places
    <3>4. s = r /\ y = x
      BY <1>3, <3>1, <3>3
    <3> QED
      BY <1>1, <3>4 DEF OnPad
  <2>2. ASSUME OnPad(r, c) PROVE kc \in NumPad
    <3>1. r \in 2 .. 4 /\ x \in 14 .. 16
      BY <1>1, <2>2 DEF OnPad
    <3> QED
      BY <3>1 DEF NumPad, kc
  <2> QED
    BY <2>1, <2>2
<1> QED
  BY <1>6, <1>7 DEF kc, x

(* What the tables have for a keycode outside of them. *)
LEMMA NoEntry ==
  /\ \A kc \in {unsupported, K(0, 13)} :
       def_keymap(0, kc) = NoSym /\ def_keymap(1, kc) = NoSym /\ kc \notin NumPad
<1>1. 0 \in Rows /\ 14 \in 1 .. 20 /\ 14 - 1 = 13
  BY DEF Rows
<1>2. Cell(Plain, 0, 14) = NoSym /\ Cell(Shifted, 0, 14) = NoSym /\ ~OnPad(0, 14)
  BY DEF Cell, Plain, Shifted, OnPad
<1>3. /\ def_keymap(0, K(0, 14 - 1)) = Cell(Plain, 0, 14)
      /\ def_keymap(1, K(0, 14 - 1)) = Cell(Shifted, 0, 14)
      /\ K(0, 14 - 1) \in NumPad <=> OnPad(0, 14)
  BY <1>1, Entries
<1>4. def_keymap(0, K(0, 13)) = NoSym /\ def_keymap(1, K(0, 13)) = NoSym /\ K(0, 13) \notin NumPad
  BY <1>1, <1>2, <1>3
<1>5. unsupported \div 32 = 7 /\ unsupported % 32 = 1
  <2>1. 7 \in 0 .. 7 /\ 1 \in 0 .. 31
    OBVIOUS
  <2> QED
    BY <2>1, Places DEF unsupported
<1>6. def_keymap(0, unsupported) = NoSym /\ def_keymap(1, unsupported) = NoSym
  BY <1>5 DEF def_keymap, Entry, Rows
<1>7. unsupported \notin NumPad
  <2> SUFFICES ASSUME unsupported \in NumPad PROVE FALSE
    OBVIOUS
  <2>1. PICK s \in 2 .. 4, y \in 14 .. 16 : unsupported = K(s, y)
    BY DEF NumPad
  <2>2. s \in 0 .. 7 /\ y \in 0 .. 31
    OBVIOUS
  <2>3. K(s, y) \div 32 = s
    BY <2>2, Places
  <2> QED
    BY <1>5, <2>1, <2>3
<1> QED
  BY <1>4, <1>6, <1>7

LEMMA Columns ==
  ASSUME NEW r \in Rows
  PROVE  DOMAIN Codes[r + 1] \subseteq 1 .. 20 /\ DOMAIN CodesE0[r + 1] \subseteq 1 .. 20
<1>1. r + 1 = 1 \/ r + 1 = 2 \/ r + 1 = 3 \/ r + 1 = 4 \/ r + 1 = 5 \/ r + 1 = 6
  BY RowByRow
<1> QED
  BY <1>1, SMTT(30) DEF Codes, CodesE0

(* No key has two labels. *)
LEMMA OneLabel ==
  /\ \A l, m \in Stream!Labels : l[1] = m[1] => l = m
  /\ \A l, m \in Stream!PadLabels : l[1] = m[1] => l = m
  /\ \A l \in Stream!Labels, m \in Stream!PadLabels : l[1] # m[1]
  /\ \A l \in Stream!Labels \cup Stream!PadLabels : l[1] # "70"
<1>1. \A l, m \in Stream!Labels : l[1] = m[1] => l = m
  BY DEF Stream!Labels
<1>2. \A l, m \in Stream!PadLabels : l[1] = m[1] => l = m
  BY DEF Stream!PadLabels
<1>3. \A l \in Stream!Labels, m \in Stream!PadLabels : l[1] # m[1]
  BY DEF Stream!Labels, Stream!PadLabels
<1>4. \A l \in Stream!Labels \cup Stream!PadLabels : l[1] # "70"
  BY DEF Stream!Labels, Stream!PadLabels
<1> QED
  BY <1>1, <1>2, <1>3, <1>4

(* What is printed on a key of one byte is what the tables have for it. *)
Printed(b, plain, shifted, pad) ==
  \/ pad /\ <<b, plain>> \in Stream!PadLabels /\ shifted = plain
  \/ ~pad /\ <<b, plain, shifted>> \in Stream!Labels
  \/ ~pad /\ b = "70" /\ plain = "0" /\ shifted = "0"
  \/ /\ ~pad /\ b # "70" /\ plain = NoSym /\ shifted = NoSym
     /\ \A l \in Stream!Labels \cup Stream!PadLabels : l[1] # b

LEMMA RowsPrinted ==
  ASSUME NEW r \in Rows, NEW c \in DOMAIN Codes[r + 1], Codes[r + 1][c] # "--"
  PROVE  Printed(Codes[r + 1][c], Cell(Plain, r, c), Cell(Shifted, r, c), OnPad(r, c))
<1>6. r = 0 \/ r = 1 \/ r = 2 \/ r = 3 \/ r = 4 \/ r = 5
  BY RowByRow
<1> USE DEF Printed, Cell, OnPad, Codes, Plain, Shifted, NoSym, Stream!Labels, Stream!PadLabels
<1>0. CASE r = 0
  BY <1>0
<1>1. CASE r = 1
  BY <1>1
<1>2. CASE r = 2
  BY <1>2
<1>3. CASE r = 3
  BY <1>3
<1>4. CASE r = 4
  BY <1>4
<1>5. CASE r = 5
  BY <1>5
<1> HIDE DEF Printed, Cell, OnPad, Codes, Plain, Shifted, NoSym, Stream!Labels, Stream!PadLabels
<1> QED
  BY <1>0, <1>1, <1>2, <1>3, <1>4, <1>5, <1>6, Zenon

(* The rows of the keys with scan codes of two bytes: two of them type.    *)
LEMMA RowsPrintedE0 ==
  ASSUME NEW r \in Rows, NEW c \in DOMAIN CodesE0[r + 1], CodesE0[r + 1][c] # "--"
  PROVE  /\ ~OnPad(r, c)
         /\ Cell(Plain, r, c) = Cell(Shifted, r, c)
         /\ Cell(Plain, r, c) = IF CodesE0[r + 1][c] = "4a" THEN "/"
                               ELSE IF CodesE0[r + 1][c] = "5a" THEN "\\n" ELSE NoSym
<1>6. r = 0 \/ r = 1 \/ r = 2 \/ r = 3 \/ r = 4 \/ r = 5
  BY RowByRow
<1> USE DEF Cell, OnPad, CodesE0, Plain, Shifted, NoSym
<1>0. CASE r = 0
  BY <1>0, SMTT(30)
<1>1. CASE r = 1
  BY <1>1
<1>2. CASE r = 2
  BY <1>2
<1>3. CASE r = 3
  BY <1>3
<1>4. CASE r = 4
  BY <1>4
<1>5. CASE r = 5
  BY <1>5
<1> HIDE DEF Cell, OnPad, CodesE0, Plain, Shifted, NoSym
<1> QED
  BY <1>0, <1>1, <1>2, <1>3, <1>4, <1>5, <1>6, Zenon

(* What is printed on a key, and what def_keymap has for its keycode. *)
Padded(k) == \E l \in Stream!PadLabels : k = <<l[1]>>

Typed(k, kc) ==
  /\ Padded(k) <=> kc \in NumPad
  /\ Padded(k) => /\ def_keymap(0, kc) = (CHOOSE l \in Stream!PadLabels : k = <<l[1]>>)[2]
                  /\ def_keymap(1, kc) = def_keymap(0, kc)
  /\ ~Padded(k) => /\ def_keymap(0, kc) = Stream!Label(k, FALSE)
                   /\ def_keymap(1, kc) = Stream!Label(k, TRUE)

LEMMA OneByteTyped ==
  ASSUME NEW b, NEW kc,
         Printed(b, def_keymap(0, kc), def_keymap(1, kc), kc \in NumPad)
  PROVE  Typed(<<b>>, kc)
<1> DEFINE k == <<b>>
           plain == def_keymap(0, kc)
           shifted == def_keymap(1, kc)
<1>0. \A l : k = <<l[1]>> <=> l[1] = b
  OBVIOUS
<1>1. CASE kc \in NumPad /\ <<b, plain>> \in Stream!PadLabels /\ shifted = plain
  <2> DEFINE m == <<b, plain>>
  <2>1. m \in Stream!PadLabels /\ m[1] = b /\ m[2] = plain
    BY <1>1
  <2>2. \A l \in Stream!PadLabels : k = <<l[1]>> => l = m
    BY <1>0, <2>1, OneLabel
  <2>3. (CHOOSE l \in Stream!PadLabels : k = <<l[1]>>) = m
    BY <2>1, <2>2
  <2>4. Padded(k)
    BY <2>1 DEF Padded
  <2> QED
    BY <1>1, <2>1, <2>3, <2>4 DEF Typed
<1>2. CASE kc \notin NumPad /\ <<b, plain, shifted>> \in Stream!Labels
  <2> DEFINE m == <<b, plain, shifted>>
  <2>1. m \in Stream!Labels /\ m[1] = b /\ m[2] = plain /\ m[3] = shifted
    BY <1>2
  <2>2. \A l \in Stream!Labels : k = <<l[1]>> => l = m
    BY <1>0, <2>1, OneLabel
  <2>3. (CHOOSE l \in Stream!Labels : k = <<l[1]>>) = m
    BY <2>1, <2>2
  <2>4. ~Padded(k)
    BY <1>0, <2>1, OneLabel DEF Padded
  <2>5. \E l \in Stream!Labels : k = <<l[1]>>
    BY <2>1
  <2>6. Stream!Label(k, FALSE) = m[2] /\ Stream!Label(k, TRUE) = m[3]
    BY <2>3, <2>5 DEF Stream!Label
  <2> QED
    BY <1>2, <2>1, <2>4, <2>6 DEF Typed
<1>3. CASE kc \notin NumPad /\ b = "70" /\ plain = "0" /\ shifted = "0"
  <2>1. ~Padded(k) /\ ~\E l \in Stream!Labels : k = <<l[1]>>
    BY <1>0, <1>3, OneLabel DEF Padded
  <2>2. Stream!Label(k, FALSE) = "0" /\ Stream!Label(k, TRUE) = "0"
    BY <1>3, <2>1 DEF Stream!Label
  <2> QED
    BY <1>3, <2>1, <2>2 DEF Typed
<1>4. CASE /\ kc \notin NumPad /\ b # "70" /\ plain = NoSym /\ shifted = NoSym
           /\ \A l \in Stream!Labels \cup Stream!PadLabels : l[1] # b
  <2>1. ~Padded(k) /\ ~\E l \in Stream!Labels : k = <<l[1]>>
    BY <1>0, <1>4 DEF Padded
  <2>2. Stream!Label(k, FALSE) = Stream!NoChar /\ Stream!Label(k, TRUE) = Stream!NoChar
    BY <1>4, <2>1 DEF Stream!Label
  <2> QED
    BY <1>4, <2>1, <2>2 DEF Typed, Stream!NoChar, NoSym
<1> QED
  BY <1>1, <1>2, <1>3, <1>4 DEF Printed

LEMMA TwoByteTyped ==
  ASSUME NEW b, NEW kc, kc \notin NumPad, def_keymap(0, kc) = def_keymap(1, kc),
         def_keymap(0, kc) = IF b = "4a" THEN "/" ELSE IF b = "5a" THEN "\\n" ELSE NoSym
  PROVE  Typed(<<"e0", b>>, kc)
<1> DEFINE k == <<"e0", b>>
<1>1. ~Padded(k) /\ ~\E l \in Stream!Labels : k = <<l[1]>>
  BY DEF Padded
<1>2. \A up : Stream!Label(k, up) = IF b = "4a" THEN "/" ELSE IF b = "5a" THEN "\\n" ELSE NoSym
  BY <1>1 DEF Stream!Label, Stream!NoChar, NoSym
<1> QED
  BY <1>1, <1>2 DEF Typed

(* The tables of scan codes and of characters agree with the labels, for   *)
(* every key but that of the back quote.                                   *)
LEMMA KeyTyped ==
  ASSUME NEW k \in AllKeys, k # <<"0e">>
  PROVE  Typed(k, scan_keycode(k))
<1>1. ASSUME NEW p \in Map0, k = <<p[1]>>
      PROVE  Typed(k, scan_keycode(k))
  <2>1. CASE p \in Pairs(Codes)
    <3>0. PICK r \in Rows : \E c \in DOMAIN Codes[r + 1] : p = <<Codes[r + 1][c], K(r, c - 1)>>
      BY <2>1, PairsOf
    <3>1. PICK c \in DOMAIN Codes[r + 1] : p = <<Codes[r + 1][c], K(r, c - 1)>>
      BY <3>0
    <3>2. p[1] = Codes[r + 1][c] /\ Codes[r + 1][c] # "--" /\ c \in 1 .. 20
      <4>1. p[1] # "--"
        BY <2>1, PairsOf
      <4> QED
        BY <3>1, <4>1, Columns
    <3>3. scan_keycode(k) = K(r, c - 1)
      BY <1>1, <3>2, OneByteKey
    <3>4. Printed(p[1], Cell(Plain, r, c), Cell(Shifted, r, c), OnPad(r, c))
      BY <3>2, RowsPrinted
    <3> DEFINE kc == K(r, c - 1)
    <3>5. /\ def_keymap(0, kc) = Cell(Plain, r, c)
          /\ def_keymap(1, kc) = Cell(Shifted, r, c)
          /\ kc \in NumPad <=> OnPad(r, c)
      BY <3>2, Entries
    <3> HIDE DEF kc
    <3>6. Printed(p[1], def_keymap(0, kc), def_keymap(1, kc), kc \in NumPad)
      BY <3>4, <3>5 DEF Printed
    <3>7. Typed(<<p[1]>>, kc)
      BY <3>6, OneByteTyped
    <3> QED
      BY <1>1, <3>3, <3>7 DEF kc
  <2>2. CASE p = <<"7e", unsupported>>
    <3>1. k = <<"7e">> /\ scan_keycode(k) = unsupported
      BY <1>1, <2>2, OtherKeys
    <3>2. \A l \in Stream!Labels \cup Stream!PadLabels : l[1] # "7e"
      BY DEF Stream!Labels, Stream!PadLabels
    <3>3. Printed("7e", def_keymap(0, unsupported), def_keymap(1, unsupported),
                  unsupported \in NumPad)
      BY <3>2, NoEntry DEF Printed
    <3>4. Typed(<<"7e">>, unsupported)
      BY <3>3, OneByteTyped
    <3> QED
      BY <3>1, <3>4
  <2>3. p # <<"0e", K(1, 13)>>
    BY <1>1
  <2> QED
    BY <2>1, <2>2, <2>3 DEF Map0
<1>2. ASSUME NEW p \in MapE0, k = <<"e0", p[1]>>
      PROVE  Typed(k, scan_keycode(k))
  <2>1. CASE p \in Pairs(CodesE0)
    <3>0. PICK r \in Rows : \E c \in DOMAIN CodesE0[r + 1] : p = <<CodesE0[r + 1][c], K(r, c - 1)>>
      BY <2>1, PairsOf
    <3>1. PICK c \in DOMAIN CodesE0[r + 1] : p = <<CodesE0[r + 1][c], K(r, c - 1)>>
      BY <3>0
    <3>2. p[1] = CodesE0[r + 1][c] /\ CodesE0[r + 1][c] # "--" /\ c \in 1 .. 20
      <4>1. p[1] # "--"
        BY <2>1, PairsOf
      <4> QED
        BY <3>1, <4>1, Columns
    <3>3. scan_keycode(k) = K(r, c - 1)
      BY <1>2, <3>2, TwoByteKey
    <3>4. /\ ~OnPad(r, c)
          /\ Cell(Plain, r, c) = Cell(Shifted, r, c)
          /\ Cell(Plain, r, c) = IF p[1] = "4a" THEN "/" ELSE IF p[1] = "5a" THEN "\\n" ELSE NoSym
      BY <3>2, RowsPrintedE0
    <3> DEFINE kc == K(r, c - 1)
    <3>5. /\ def_keymap(0, kc) = Cell(Plain, r, c)
          /\ def_keymap(1, kc) = Cell(Shifted, r, c)
          /\ kc \in NumPad <=> OnPad(r, c)
      BY <3>2, Entries
    <3> HIDE DEF kc
    <3>6. Typed(<<"e0", p[1]>>, kc)
      BY <3>4, <3>5, TwoByteTyped
    <3> QED
      BY <1>2, <3>3, <3>6 DEF kc
  <2>2. ASSUME NEW b \in MediaKeys, p = <<b, unsupported>>
        PROVE  Typed(k, scan_keycode(k))
    <3>1. k = <<"e0", b>> /\ scan_keycode(k) = unsupported
      BY <1>2, <2>2, OtherKeys
    <3>2. b # "4a" /\ b # "5a"
      BY DEF MediaKeys
    <3>3. Typed(<<"e0", b>>, unsupported)
      BY <3>2, NoEntry, TwoByteTyped
    <3> QED
      BY <3>1, <3>3
  <2> QED
    BY <2>1, <2>2 DEF MapE0
<1>3. ASSUME k = PrintScreen
      PROVE  Typed(k, scan_keycode(k))
  <2>1. scan_keycode(k) = K(0, 13)
    BY <1>3, OtherKeys
  <2>2. ~Padded(k) /\ ~\E l \in Stream!Labels : k = <<l[1]>>
    BY <1>3 DEF Padded, PrintScreen
  <2>3. Stream!Label(k, FALSE) = NoSym /\ Stream!Label(k, TRUE) = NoSym
    BY <1>3, <2>2 DEF Stream!Label, Stream!NoChar, NoSym, PrintScreen
  <2>4. Typed(k, K(0, 13))
    BY <2>2, <2>3, NoEntry DEF Typed
  <2> QED
    BY <2>1, <2>4
<1> QED
  BY <1>1, <1>2, <1>3 DEF AllKeys

-----------------------------------------------------------------------------
(* The modifiers and locks. *)

LEMMA OnePlaceOfCode ==
  ASSUME NEW r \in 0 .. 7, NEW x \in 0 .. 31, NEW s \in 0 .. 7, NEW y \in 0 .. 31,
         K(r, x) = K(s, y)
  PROVE  r = s /\ x = y
<1>1. r = K(r, x) \div 32 /\ x = K(r, x) % 32
  BY Places
<1>2. s = K(s, y) \div 32 /\ y = K(s, y) % 32
  BY Places
<1> QED
  BY <1>1, <1>2

(* The places of the keycodes of keys. *)
LEMMA KeyPlace ==
  ASSUME NEW k \in AllKeys
  PROVE  \/ \E r \in Rows : \E c \in DOMAIN Codes[r + 1] :
              k = <<Codes[r + 1][c]>> /\ Codes[r + 1][c] # "--" /\ scan_keycode(k) = K(r, c - 1)
         \/ \E r \in Rows : \E c \in DOMAIN CodesE0[r + 1] :
              /\ k = <<"e0", CodesE0[r + 1][c]>> /\ CodesE0[r + 1][c] # "--"
              /\ scan_keycode(k) = K(r, c - 1)
         \/ scan_keycode(k) \in {K(7, 1), K(1, 13), K(0, 13)}
<1>1. ASSUME NEW p \in Map0, k = <<p[1]>>
      PROVE  \/ \E r \in Rows : \E c \in DOMAIN Codes[r + 1] :
                  k = <<Codes[r + 1][c]>> /\ Codes[r + 1][c] # "--" /\ scan_keycode(k) = K(r, c - 1)
             \/ scan_keycode(k) \in {K(7, 1), K(1, 13), K(0, 13)}
  <2>1. CASE p \in Pairs(Codes)
    <3>1. PICK r \in Rows : \E c \in DOMAIN Codes[r + 1] : p = <<Codes[r + 1][c], K(r, c - 1)>>
      BY <2>1, PairsOf
    <3>2. PICK c \in DOMAIN Codes[r + 1] : p = <<Codes[r + 1][c], K(r, c - 1)>>
      BY <3>1
    <3>3. p[1] # "--"
      BY <2>1, PairsOf
    <3>4. k = <<Codes[r + 1][c]>> /\ Codes[r + 1][c] # "--"
      BY <1>1, <3>2, <3>3
    <3>5. scan_keycode(k) = K(r, c - 1)
      BY <3>4, OneByteKey
    <3> QED
      BY <3>4, <3>5
  <2>2. CASE p = <<"7e", unsupported>> \/ p = <<"0e", K(1, 13)>>
    BY <1>1, <2>2, OtherKeys DEF unsupported
  <2> QED
    BY <2>1, <2>2 DEF Map0
<1>2. ASSUME NEW p \in MapE0, k = <<"e0", p[1]>>
      PROVE  \/ \E r \in Rows : \E c \in DOMAIN CodesE0[r + 1] :
                  /\ k = <<"e0", CodesE0[r + 1][c]>> /\ CodesE0[r + 1][c] # "--"
                  /\ scan_keycode(k) = K(r, c - 1)
             \/ scan_keycode(k) \in {K(7, 1), K(1, 13), K(0, 13)}
  <2>1. CASE p \in Pairs(CodesE0)
    <3>1. PICK r \in Rows : \E c \in DOMAIN CodesE0[r + 1] : p = <<CodesE0[r + 1][c], K(r, c - 1)>>
      BY <2>1, PairsOf
    <3>2. PICK c \in DOMAIN CodesE0[r + 1] : p = <<CodesE0[r + 1][c], K(r, c - 1)>>
      BY <3>1
    <3>3. p[1] # "--"
      BY <2>1, PairsOf
    <3>4. k = <<"e0", CodesE0[r + 1][c]>> /\ CodesE0[r + 1][c] # "--"
      BY <1>2, <3>2, <3>3
    <3>5. scan_keycode(k) = K(r, c - 1)
      BY <3>4, TwoByteKey
    <3> QED
      BY <3>4, <3>5
  <2>2. CASE \E b \in MediaKeys : p = <<b, unsupported>>
    BY <1>2, <2>2, OtherKeys DEF unsupported
  <2> QED
    BY <2>1, <2>2 DEF MapE0
<1>3. CASE k = PrintScreen
  BY <1>3, OtherKeys
<1> QED
  BY <1>1, <1>2, <1>3 DEF AllKeys

(* No other key has the keycode of a modifier or lock. *)
LEMMA OneKey ==
  ASSUME NEW k \in AllKeys
  PROVE  /\ scan_keycode(k) = KEY_CAPSLOCK <=> k = Stream!CapsLock
         /\ scan_keycode(k) = KEY_NUMLOCK <=> k = Stream!NumLock
         /\ scan_keycode(k) = KEY_LSHIFT <=> k = Stream!LShift
         /\ scan_keycode(k) = KEY_RALT <=> k = Stream!AltGr
<1>1. /\ scan_keycode(<<"58">>) = K(3, 0) /\ scan_keycode(<<"77">>) = K(1, 14)
      /\ scan_keycode(<<"12">>) = K(4, 0) /\ scan_keycode(<<"e0", "11">>) = K(5, 5)
  <2>1. /\ 3 \in Rows /\ 1 \in DOMAIN Codes[3 + 1] /\ Codes[3 + 1][1] = "58"
        /\ 1 \in Rows /\ 15 \in DOMAIN Codes[1 + 1] /\ Codes[1 + 1][15] = "77"
        /\ 4 \in Rows /\ 1 \in DOMAIN Codes[4 + 1] /\ Codes[4 + 1][1] = "12"
        /\ 5 \in Rows /\ 6 \in DOMAIN CodesE0[5 + 1] /\ CodesE0[5 + 1][6] = "11"
    BY DEF Rows, Codes, CodesE0
  <2>2. scan_keycode(<<"58">>) = K(3, 1 - 1)
    BY <2>1, OneByteKey
  <2>3. scan_keycode(<<"77">>) = K(1, 15 - 1)
    BY <2>1, OneByteKey
  <2>4. scan_keycode(<<"12">>) = K(4, 1 - 1)
    BY <2>1, OneByteKey
  <2>5. scan_keycode(<<"e0", "11">>) = K(5, 6 - 1)
    BY <2>1, TwoByteKey
  <2>6. 1 - 1 = 0 /\ 15 - 1 = 14 /\ 6 - 1 = 5
    OBVIOUS
  <2> QED
    BY <2>2, <2>3, <2>4, <2>5, <2>6
<1> DEFINE here == {<<3, 0>>, <<1, 14>>, <<4, 0>>, <<5, 5>>}
<1>2. ASSUME NEW s \in 0 .. 7, NEW y \in 0 .. 31, <<s, y>> \in here, scan_keycode(k) = K(s, y)
      PROVE  \/ <<s, y>> = <<3, 0>> /\ k = <<"58">>
             \/ <<s, y>> = <<1, 14>> /\ k = <<"77">>
             \/ <<s, y>> = <<4, 0>> /\ k = <<"12">>
             \/ <<s, y>> = <<5, 5>> /\ k = <<"e0", "11">>
  <2> HIDE DEF here
  <2>1. ASSUME NEW r \in Rows, NEW c \in DOMAIN Codes[r + 1], k = <<Codes[r + 1][c]>>,
               Codes[r + 1][c] # "--", scan_keycode(k) = K(r, c - 1)
        PROVE  \/ <<s, y>> = <<3, 0>> /\ k = <<"58">>
               \/ <<s, y>> = <<1, 14>> /\ k = <<"77">>
               \/ <<s, y>> = <<4, 0>> /\ k = <<"12">>
    <3>1. r \in 0 .. 7 /\ c - 1 \in 0 .. 31 /\ c \in Int
      BY Columns DEF Rows
    <3>2. r = s /\ c - 1 = y
      <4> DEFINE x == c - 1
      <4>1. K(r, x) = K(s, y) /\ x \in 0 .. 31
        BY <1>2, <2>1, <3>1
      <4> HIDE DEF x
      <4>2. \A l \in 0 .. 7 : \A a \in 0 .. 31 : K(l, a) \div 32 = l /\ K(l, a) % 32 = a
        BY Places, Zenon
      <4>3. K(r, x) \div 32 = r /\ K(r, x) % 32 = x
        BY <3>1, <4>1, <4>2, Zenon
      <4>4. K(s, y) \div 32 = s /\ K(s, y) % 32 = y
        BY <4>2, Zenon
      <4> DEFINE f == K(r, x) \div 32
                 g == K(r, x) % 32
      <4>5. f = r /\ g = x /\ f = s /\ g = y
        BY <4>1, <4>3, <4>4, Zenon
      <4> HIDE DEF f, g
      <4> QED
        BY <4>5 DEF x
    <3>3. c = y + 1
      BY <3>1, <3>2
    <3>4. \/ r = 3 /\ c = 1 /\ <<s, y>> = <<3, 0>>
          \/ r = 1 /\ c = 15 /\ <<s, y>> = <<1, 14>>
          \/ r = 4 /\ c = 1 /\ <<s, y>> = <<4, 0>>
          \/ r = 5 /\ c = 6
      BY <1>2, <3>2, <3>3 DEF here
    <3> QED
      BY <2>1, <3>4 DEF Codes
  <2>2. ASSUME NEW r \in Rows, NEW c \in DOMAIN CodesE0[r + 1], k = <<"e0", CodesE0[r + 1][c]>>,
               CodesE0[r + 1][c] # "--", scan_keycode(k) = K(r, c - 1)
        PROVE  <<s, y>> = <<5, 5>> /\ k = <<"e0", "11">>
    <3>1. r \in 0 .. 7 /\ c - 1 \in 0 .. 31 /\ c \in Int
      BY Columns DEF Rows
    <3>2. r = s /\ c - 1 = y
      <4> DEFINE x == c - 1
      <4>1. K(r, x) = K(s, y) /\ x \in 0 .. 31
        BY <1>2, <2>2, <3>1
      <4> HIDE DEF x
      <4>2. \A l \in 0 .. 7 : \A a \in 0 .. 31 : K(l, a) \div 32 = l /\ K(l, a) % 32 = a
        BY Places, Zenon
      <4>3. K(r, x) \div 32 = r /\ K(r, x) % 32 = x
        BY <3>1, <4>1, <4>2, Zenon
      <4>4. K(s, y) \div 32 = s /\ K(s, y) % 32 = y
        BY <4>2, Zenon
      <4> DEFINE f == K(r, x) \div 32
                 g == K(r, x) % 32
      <4>5. f = r /\ g = x /\ f = s /\ g = y
        BY <4>1, <4>3, <4>4, Zenon
      <4> HIDE DEF f, g
      <4> QED
        BY <4>5 DEF x
    <3>3. c = y + 1
      BY <3>1, <3>2
    <3>4. /\ \/ r = 3 /\ c = 1
             \/ r = 1 /\ c = 15
             \/ r = 4 /\ c = 1
             \/ r = 5 /\ c = 6
          /\ r = 5 => s = 5 /\ y = 5
      BY <1>2, <3>2, <3>3 DEF here
    <3>5. CodesE0[3 + 1] = << >> /\ CodesE0[1 + 1][15] = "--" /\ CodesE0[4 + 1][1] = "--"
          /\ CodesE0[5 + 1][6] = "11"
      BY DEF CodesE0
    <3>6. ~(r = 3 /\ c = 1)
      BY <3>5
    <3>7. ~(r = 1 /\ c = 15) /\ ~(r = 4 /\ c = 1)
      BY <2>2, <3>5
    <3>8. r = 5 /\ c = 6 /\ CodesE0[r + 1][c] = "11"
      BY <3>4, <3>5, <3>6, <3>7, Zenon
    <3> QED
      BY <2>2, <3>4, <3>8
  <2>3. scan_keycode(k) \notin {K(7, 1), K(1, 13), K(0, 13)}
    <3>1. 7 \in 0 .. 7 /\ 1 \in 0 .. 7 /\ 0 \in 0 .. 7 /\ 1 \in 0 .. 31 /\ 13 \in 0 .. 31
      OBVIOUS
    <3>2. <<s, y>> \notin {<<7, 1>>, <<1, 13>>, <<0, 13>>}
      BY <1>2 DEF here
    <3>3. ASSUME NEW r \in 0 .. 7, NEW x \in 0 .. 31, <<s, y>> # <<r, x>>
          PROVE  K(s, y) # K(r, x)
      BY <3>3, OnePlaceOfCode
    <3>4. K(s, y) # K(7, 1) /\ K(s, y) # K(1, 13) /\ K(s, y) # K(0, 13)
      BY <3>1, <3>2, <3>3
    <3> QED
      BY <1>2, <3>4
  <2> QED
    BY <2>1, <2>2, <2>3, KeyPlace
<1>3. /\ 3 \in 0 .. 7 /\ 1 \in 0 .. 7 /\ 4 \in 0 .. 7 /\ 5 \in 0 .. 7
      /\ 0 \in 0 .. 31 /\ 14 \in 0 .. 31 /\ 5 \in 0 .. 31
  OBVIOUS
<1>4. scan_keycode(k) = K(3, 0) => k = <<"58">>
  BY <1>2, <1>3
<1>5. scan_keycode(k) = K(1, 14) => k = <<"77">>
  BY <1>2, <1>3
<1>6. scan_keycode(k) = K(4, 0) => k = <<"12">>
  BY <1>2, <1>3
<1>7. scan_keycode(k) = K(5, 5) => k = <<"e0", "11">>
  BY <1>2, <1>3
<1> QED
  BY <1>1, <1>4, <1>5, <1>6, <1>7
     DEF KEY_CAPSLOCK, KEY_NUMLOCK, KEY_LSHIFT, KEY_RALT,
         Stream!CapsLock, Stream!NumLock, Stream!LShift, Stream!AltGr

-----------------------------------------------------------------------------
(* The keys held down as far as the driver knows: the `down' of Stream. *)
Down == {p[1] : p \in {q \in KeyTable : q[2] \in keys /\ q[1] \in Keys}}

LEMMA DownKeys == \A k : k \in Down <=> k \in Keys /\ scan_keycode(k) \in keys
<1>1. ASSUME NEW k \in Keys, scan_keycode(k) \in keys PROVE k \in Down
  <2>1. <<k, scan_keycode(k)>> \in KeyTable
    BY KeyboardAssumption DEF KeyTable
  <2> QED
    BY <1>1, <2>1 DEF Down
<1>2. ASSUME NEW k \in Down PROVE k \in Keys /\ scan_keycode(k) \in keys
  BY <1>2 DEF Down, KeyTable
<1> QED
  BY <1>1, <1>2

(* Only keys the user has are in keys[]. *)
Known ==
  /\ keys \subseteq {scan_keycode(k) : k \in Keys}
  /\ capslock \in BOOLEAN
  /\ numlock \in BOOLEAN

LEMMA ModifiersKnown ==
  ASSUME Known
  PROVE  /\ KEY_LSHIFT \in get_mod <=> Stream!LShift \in Down
         /\ KEY_RALT \in get_mod <=> Stream!AltGr \in Down
<1>1. KEY_LSHIFT \in get_mod <=> KEY_LSHIFT \in keys
  BY DEF get_mod
<1>2. KEY_RALT \in get_mod <=> KEY_RALT \in keys
  BY DEF get_mod
<1>3. \A k \in Keys : k \in AllKeys
  BY KeyboardAssumption
<1>4. KEY_LSHIFT \in keys <=> Stream!LShift \in Down
  <2>1. \A k \in Keys : scan_keycode(k) = KEY_LSHIFT <=> k = Stream!LShift
    BY <1>3, OneKey
  <2> QED
    BY <2>1, DownKeys DEF Known
<1>5. KEY_RALT \in keys <=> Stream!AltGr \in Down
  <2>1. \A k \in Keys : scan_keycode(k) = KEY_RALT <=> k = Stream!AltGr
    BY <1>3, OneKey
  <2> QED
    BY <2>1, DownKeys DEF Known
<1> QED
  BY <1>1, <1>2, <1>4, <1>5

(* Which of the tables a key's symbol comes from. *)
LEMMA Levels ==
  ASSUME NEW mod, NEW caps \in BOOLEAN
  PROVE  /\ KEY_RALT \in mod => Level(mod, caps) \in {2, 3}
         /\ KEY_RALT \notin mod /\ ((KEY_LSHIFT \in mod) # caps) => Level(mod, caps) = 1
         /\ KEY_RALT \notin mod /\ ~((KEY_LSHIFT \in mod) # caps) => Level(mod, caps) = 0
BY DEF Level

(* The symbol of a key is what is printed on it. *)
LEMMA SymbolTyped ==
  ASSUME Known, NEW k \in AllKeys, k # <<"0e">>
  PROVE  keysym(capslock, numlock, scan_keycode(k)) = Stream!Types(k)
<1> DEFINE kc == scan_keycode(k)
           level == Level(get_mod, capslock)
<1>1. Typed(k, kc)
  BY KeyTyped
<1>2. /\ KEY_RALT \in get_mod <=> Stream!AltGr \in Down
      /\ KEY_LSHIFT \in get_mod <=> Stream!LShift \in Down
  BY ModifiersKnown
<1>3. /\ KEY_RALT \in get_mod => level \in {2, 3}
      /\ KEY_RALT \notin get_mod /\ ((KEY_LSHIFT \in get_mod) # capslock) => level = 1
      /\ KEY_RALT \notin get_mod /\ ~((KEY_LSHIFT \in get_mod) # capslock) => level = 0
  BY Levels DEF Known
<1>4. keysym(capslock, numlock, kc) =
        IF kc \in NumPad /\ level < 2 /\ ~numlock THEN NoSym ELSE def_keymap(level, kc)
  BY DEF keysym
<1>5. Stream!Types(k) = IF Stream!AltGr \in Down THEN Stream!NoChar
                        ELSE IF Padded(k)
                          THEN IF numlock THEN (CHOOSE l \in Stream!PadLabels : k = <<l[1]>>)[2]
                               ELSE Stream!NoChar
                          ELSE Stream!Label(k, (Stream!LShift \in Down) # capslock)
  BY DEF Stream!Types, Down, Padded
<1> HIDE DEF kc, level
<1>6. CASE Stream!AltGr \in Down
  <2>1. level \in {2, 3}
    BY <1>2, <1>3, <1>6
  <2>2. def_keymap(level, kc) = NoSym /\ ~(level < 2)
    BY <2>1 DEF def_keymap
  <2> QED
    BY <1>4, <1>5, <1>6, <2>2 DEF NoSym, Stream!NoChar, kc
<1>7. CASE Stream!AltGr \notin Down /\ Padded(k)
  <2>1. level = 1 \/ level = 0
    BY <1>2, <1>3, <1>7
  <2>2. kc \in NumPad /\ def_keymap(level, kc) = (CHOOSE l \in Stream!PadLabels : k = <<l[1]>>)[2]
    BY <1>1, <1>7, <2>1 DEF Typed
  <2>3. level < 2
    BY <2>1
  <2> QED
    BY <1>4, <1>5, <1>7, <2>2, <2>3 DEF NoSym, Stream!NoChar, kc
<1>8. CASE Stream!AltGr \notin Down /\ ~Padded(k)
  <2>1. kc \notin NumPad
    BY <1>1, <1>8 DEF Typed
  <2>2. CASE (KEY_LSHIFT \in get_mod) # capslock
    <3>1. level = 1
      BY <1>2, <1>3, <1>8, <2>2
    <3>2. (Stream!LShift \in Down) # capslock
      BY <1>2, <2>2 DEF Known
    <3>3. Stream!Label(k, (Stream!LShift \in Down) # capslock) = Stream!Label(k, TRUE)
      BY <3>2 DEF Stream!Label
    <3> QED
      BY <1>1, <1>4, <1>5, <1>8, <2>1, <3>1, <3>3 DEF Typed, kc
  <2>3. CASE ~((KEY_LSHIFT \in get_mod) # capslock)
    <3>1. level = 0
      BY <1>2, <1>3, <1>8, <2>3
    <3>2. ~((Stream!LShift \in Down) # capslock)
      BY <1>2, <2>3 DEF Known
    <3>3. Stream!Label(k, (Stream!LShift \in Down) # capslock) = Stream!Label(k, FALSE)
      BY <3>2 DEF Stream!Label
    <3> QED
      BY <1>1, <1>4, <1>5, <1>8, <2>1, <3>1, <3>3 DEF Typed, kc
  <2> QED
    BY <2>2, <2>3
<1> QED
  BY <1>6, <1>7, <1>8

(* A lock types nothing, before as after it changes. *)
LEMMA LockTyped ==
  ASSUME NEW k \in Stream!Locks, NEW caps \in BOOLEAN, NEW num
  PROVE  /\ k \in AllKeys /\ k # <<"0e">>
         /\ keysym(caps, num, scan_keycode(k)) = NoSym
<1>1. k = <<"58">> \/ k = <<"77">>
  BY DEF Stream!Locks, Stream!CapsLock, Stream!NumLock
<1>2. k \in AllKeys
  <2>1. /\ 3 \in Rows /\ 1 \in DOMAIN Codes[3 + 1] /\ Codes[3 + 1][1] = "58"
        /\ 1 \in Rows /\ 15 \in DOMAIN Codes[1 + 1] /\ Codes[1 + 1][15] = "77"
    BY DEF Rows, Codes
  <2> QED
    BY <1>1, <2>1, OneByteKey
<1>3. Typed(k, scan_keycode(k))
  BY <1>1, <1>2, KeyTyped
<1>4. ~Padded(k) /\ ~\E l \in Stream!Labels : k = <<l[1]>>
  BY <1>1 DEF Padded, Stream!PadLabels, Stream!Labels
<1>5. Stream!Label(k, FALSE) = NoSym /\ Stream!Label(k, TRUE) = NoSym
  BY <1>1, <1>4 DEF Stream!Label, Stream!NoChar, NoSym
<1> DEFINE level == Level(get_mod, caps)
           kc == scan_keycode(k)
<1>6. level \in {0, 1, 2, 3}
  BY Levels
<1>7. def_keymap(0, kc) = NoSym /\ def_keymap(1, kc) = NoSym /\ kc \notin NumPad
  BY <1>3, <1>4, <1>5 DEF Typed
<1>8. keysym(caps, num, kc) = def_keymap(level, kc)
  BY <1>7 DEF keysym
<1> HIDE DEF level, kc
<1>9. def_keymap(level, kc) = NoSym
  BY <1>6, <1>7 DEF def_keymap
<1> QED
  BY <1>1, <1>2, <1>8, <1>9 DEF kc

(* The keys of labels are keys of the tables. *)
LEMMA LabelledAreKeys == Stream!LabelledKeys \ {<<"0e">>} \subseteq AllKeys
<1> DEFINE row1 == {"16", "1e", "26", "25", "2e", "36", "3d", "3e", "46", "45", "4e", "55", "66",
                    "7c", "7b"}
           row2 == {"15", "1d", "24", "2d", "2c", "35", "3c", "43", "44", "4d", "54", "5b", "5a",
                    "6c", "75", "7d", "79"}
           row3 == {"1c", "1b", "23", "2b", "34", "33", "3b", "42", "4b", "4c", "52", "5d",
                    "6b", "73", "74"}
           row4 == {"1a", "22", "21", "2a", "32", "31", "3a", "41", "49", "4a", "69", "72", "7a"}
           row5 == {"29", "70"}
           In(b, r) == \E c \in DOMAIN Codes[r + 1] : Codes[r + 1][c] = b
<1>1. ASSUME NEW b \in row1 PROVE In(b, 1)
  BY DEF Codes
<1>2. ASSUME NEW b \in row2 PROVE In(b, 2)
  BY DEF Codes
<1>3. ASSUME NEW b \in row3 PROVE In(b, 3)
  BY DEF Codes
<1>4. ASSUME NEW b \in row4 PROVE In(b, 4)
  BY DEF Codes
<1>5. ASSUME NEW b \in row5 PROVE In(b, 5)
  BY DEF Codes
<1>6. ASSUME NEW b \in row1 \cup row2 \cup row3 \cup row4 \cup row5
      PROVE  <<b>> \in AllKeys
  <2>1. \E r \in Rows : In(b, r)
    <3>1. 1 \in Rows /\ 2 \in Rows /\ 3 \in Rows /\ 4 \in Rows /\ 5 \in Rows
      BY DEF Rows
    <3> HIDE DEF row1, row2, row3, row4, row5, In
    <3> QED
      BY <1>1, <1>2, <1>3, <1>4, <1>5, <3>1
  <2>2. PICK r \in Rows : In(b, r)
    BY <2>1
  <2>3. PICK c \in DOMAIN Codes[r + 1] : Codes[r + 1][c] = b
    BY <2>2
  <2>4. b # "--"
    OBVIOUS
  <2> QED
    BY <2>3, <2>4, OneByteKey
<1>7. \A l \in Stream!Labels \cup Stream!PadLabels :
        l[1] = "0e" \/ l[1] \in row1 \cup row2 \cup row3 \cup row4 \cup row5
  BY DEF Stream!Labels, Stream!PadLabels
<1>8. <<"e0", "4a">> \in AllKeys /\ <<"e0", "5a">> \in AllKeys
  <2>1. /\ 1 \in Rows /\ 16 \in DOMAIN CodesE0[1 + 1] /\ CodesE0[1 + 1][16] = "4a"
        /\ 4 \in Rows /\ 18 \in DOMAIN CodesE0[4 + 1] /\ CodesE0[4 + 1][18] = "5a"
    BY DEF Rows, CodesE0
  <2> QED
    BY <2>1, TwoByteKey
<1>9. <<"70">> \in AllKeys
  BY <1>6
<1> HIDE DEF row1, row2, row3, row4, row5
<1> QED
  BY <1>6, <1>7, <1>8, <1>9 DEF Stream!LabelledKeys

LEMMA NextKnown == Framed /\ Known /\ [Next]_vars => Known'
<1> SUFFICES ASSUME Framed, Known, [Next]_vars PROVE Known'
  OBVIOUS
<1>1. CASE KeyEvent
  <2> DEFINE e == pending[1]
  <2>1. pc = "received" /\ e \in Event /\ scan_keycode(sc) = scan_keycode(e.key)
    BY <1>1, CodeRead DEF KeyEvent
  <2>2. scan_keycode(sc) \in {scan_keycode(k) : k \in Keys}
    BY <2>1 DEF Event
  <2>3. /\ keys' \subseteq keys \cup {scan_keycode(sc)}
        /\ capslock' \in BOOLEAN /\ numlock' \in BOOLEAN
    BY <1>1 DEF KeyEvent, to_keyevent
  <2> QED
    BY <2>2, <2>3 DEF Known
<1>2. CASE \/ MoveMouse \/ Sending \/ Interrupt \/ TimeOut \/ Receive
           \/ MouseInterrupt \/ ReceiveMouse \/ PrintMovement \/ UNCHANGED vars
           \/ \E k \in Keys : Press(k) \/ LetGo(k)
  <2>1. UNCHANGED <<keys, capslock, numlock>>
    BY <1>2 DEF Sending, Transfer, MoveMouse, TransferMouse, Interrupt, TimeOut, Receive,
                MouseInterrupt, ReceiveMouse, PrintMovement, vars, keyboardVars, Press, LetGo
  <2> QED
    BY <2>1 DEF Known
<1> QED
  BY <1>1, <1>2 DEF Next, Handler

LEMMA InitKnown == Init => Known
BY DEF Init, Known

(* Every key of the keyboard types what is printed on it, under every      *)
(* combination of modifiers and locks that a handler leaves behind: the    *)
(* tables of scan codes agree with those of characters.                    *)
THEOREM TablesAgree ==
  ASSUME ~BothHands
  PROVE  Spec => []KeysTypeLabels
<1>1. Init => NoLostWakeup /\ Separate
  BY DEF Init, NoLostWakeup, Separate, KeyboardQuiet
<1>2. ASSUME Known PROVE KeysTypeLabels
  <2> SUFFICES ASSUME NEW k \in Stream!LabelledKeys \ {<<"0e">>}
               PROVE  keysym(capslock, numlock, scan_keycode(k)) = Stream!Types(k)
    BY DEF KeysTypeLabels
  <2> QED
    BY <1>2, LabelledAreKeys, SymbolTyped
<1>3. NoLostWakeup /\ Separate /\ [Next]_vars => Separate'
  BY NextSeparate DEF Separated
<1> QED
  BY <1>1, <1>2, <1>3, InitFramed, NextFramed, InitKnown, NextKnown, NextWakeup, PTL DEF Spec

-----------------------------------------------------------------------------
(* The driver implements KeyStream. *)

LEMMA HandleRefined ==
  ASSUME <<"0e">> \notin Keys, Framed, Known, KeyEvent
  PROVE  Stream!Handle
<1> DEFINE k == pending[1].key
           press == pending[1].press
           kc == scan_keycode(k)
<1>1. /\ pending # << >> /\ pending[1] \in Event
      /\ scan_keycode(sc) = kc /\ (Pressed(sc) <=> press)
  BY CodeRead DEF KeyEvent
<1>2. /\ pending \in Seq(Event) /\ k \in Keys /\ press \in BOOLEAN
      /\ k \in AllKeys /\ k # <<"0e">>
  BY <1>1, KeyboardAssumption DEF Framed, Event
<1>3. /\ pending' = Tail(pending) /\ held' = held
      /\ Head(pending) = pending[1]
  BY <1>1, <1>2 DEF KeyEvent
<1>4. /\ capslock' = (capslock # (Pressed(sc) /\ kc = KEY_CAPSLOCK))
      /\ numlock' = (numlock # (Pressed(sc) /\ kc = KEY_NUMLOCK))
      /\ ev' = IF Pressed(sc) THEN keysym(capslock', numlock', kc) ELSE "none"
      /\ keys' = IF Pressed(sc) THEN keys \cup {kc} ELSE keys \ {kc}
  BY <1>1 DEF KeyEvent, to_keyevent
<1>5. /\ kc = KEY_CAPSLOCK <=> k = Stream!CapsLock
      /\ kc = KEY_NUMLOCK <=> k = Stream!NumLock
  BY <1>2, OneKey
<1>6. Down' = IF press THEN Down \cup {k} ELSE Down \ {k}
  <2>1. \A j \in Keys : scan_keycode(j) = kc <=> j = k
    BY <1>2, KeyboardAssumption
  <2>2. \A j : j \in Down' <=> j \in Keys /\ scan_keycode(j) \in keys'
    <3>1. ASSUME NEW j \in Keys, scan_keycode(j) \in keys' PROVE j \in Down'
      <4>1. <<j, scan_keycode(j)>> \in KeyTable
        BY KeyboardAssumption DEF KeyTable
      <4> QED
        BY <3>1, <4>1 DEF Down
    <3>2. ASSUME NEW j \in Down' PROVE j \in Keys /\ scan_keycode(j) \in keys'
      BY <3>2 DEF Down, KeyTable
    <3> QED
      BY <3>1, <3>2
  <2> HIDE DEF k, kc, press
  <2>3. CASE press
    <3>1. keys' = keys \cup {kc}
      BY <1>1, <1>4, <2>3
    <3>2. \A j : j \in Down' <=> j \in Down \cup {k}
      BY <1>2, <2>1, <2>2, <3>1, DownKeys
    <3> QED
      BY <2>3, <3>2
  <2>4. CASE ~press
    <3>1. keys' = keys \ {kc}
      BY <1>1, <1>4, <2>4
    <3>2. \A j : j \in Down' <=> j \in Down \ {k}
      BY <2>1, <2>2, <3>1, DownKeys
    <3> QED
      BY <2>4, <3>2
  <2> QED
    BY <2>3, <2>4
<1>7. /\ capslock' = (capslock # (press /\ k = Stream!CapsLock))
      /\ numlock' = (numlock # (press /\ k = Stream!NumLock))
  BY <1>1, <1>4, <1>5
<1>8. ev' = IF press THEN Stream!Types(k) ELSE "none"
  <2>1. CASE ~press
    BY <1>1, <1>4, <2>1
  <2>2. CASE press /\ k \notin Stream!Locks
    <3>1. capslock' = capslock /\ numlock' = numlock
      BY <1>7, <2>2 DEF Stream!Locks, Known
    <3>2. keysym(capslock, numlock, kc) = Stream!Types(k)
      BY <1>2, SymbolTyped
    <3> QED
      BY <1>1, <1>4, <2>2, <3>1, <3>2
  <2>3. CASE press /\ k \in Stream!Locks
    <3>1. keysym(capslock, numlock, kc) = Stream!Types(k)
      BY <1>2, SymbolTyped
    <3>2. keysym(capslock, numlock, kc) = NoSym
      BY <2>3, LockTyped DEF Known
    <3>3. keysym(capslock', numlock', kc) = NoSym
      <4>1. capslock' \in BOOLEAN
        BY <1>4
      <4> QED
        BY <2>3, <4>1, LockTyped
    <3> QED
      BY <1>1, <1>4, <2>3, <3>1, <3>2, <3>3
  <2> QED
    BY <1>2, <2>1, <2>2, <2>3
<1> QED
  BY <1>1, <1>3, <1>6, <1>7, <1>8 DEF Stream!Handle, Down

LEMMA NextRefined ==
  ASSUME <<"0e">> \notin Keys
  PROVE  Framed /\ Known /\ [Next]_vars => [Stream!Next]_Stream!vars
<1> SUFFICES ASSUME Framed, Known, [Next]_vars PROVE [Stream!Next]_Stream!vars
  OBVIOUS
<1>1. ASSUME NEW k \in Keys, Press(k)
      PROVE  Stream!Press(k)
  <2>1. k \in Stream!Locks => scan_keycode(k) \in {KEY_CAPSLOCK, KEY_NUMLOCK}
    BY KeyboardAssumption, OneKey DEF Stream!Locks
  <2>2. UNCHANGED <<keys, capslock, numlock, ev>>
    BY <1>1 DEF Press
  <2>3. Down' = Down
    BY <2>2 DEF Down
  <2> QED
    BY <1>1, <2>1, <2>2, <2>3 DEF Press, Stream!Press, Down
<1>2. ASSUME NEW k \in Keys, LetGo(k)
      PROVE  Stream!LetGo(k)
  <2>1. UNCHANGED <<keys, capslock, numlock, ev>>
    BY <1>2 DEF LetGo
  <2>2. Down' = Down
    BY <2>1 DEF Down
  <2> QED
    BY <1>2, <2>1, <2>2 DEF LetGo, Stream!LetGo, Down
<1>3. CASE KeyEvent
  BY <1>3, HandleRefined DEF Stream!Next
<1>4. CASE \/ MoveMouse \/ Sending \/ Interrupt \/ TimeOut \/ Receive
           \/ MouseInterrupt \/ ReceiveMouse \/ PrintMovement \/ UNCHANGED vars
  <2>1. UNCHANGED <<held, pending, keys, capslock, numlock, ev>>
    BY <1>4 DEF Sending, Transfer, MoveMouse, TransferMouse, Interrupt, TimeOut, Receive,
                MouseInterrupt, ReceiveMouse, PrintMovement, vars, keyboardVars
  <2>2. Down' = Down
    BY <2>1 DEF Down
  <2> QED
    BY <2>1, <2>2 DEF Stream!vars, Down
<1>5. ASSUME NEW k \in Keys, Press(k) \/ LetGo(k)
      PROVE  [Stream!Next]_Stream!vars
  BY <1>1, <1>2, <1>5 DEF Stream!Next
<1> QED
  BY <1>3, <1>4, <1>5 DEF Next, Handler, Stream!Next

(* Whatever the user types, one device at a time, every key is handled     *)
(* once and in order, under the modifiers and locks of that moment, and    *)
(* types what is printed on it: the safety of KeyStream, for every set of  *)
(* keys without the back quote.                                            *)
THEOREM StreamImplemented ==
  ASSUME ~BothHands, <<"0e">> \notin Keys
  PROVE  Spec => Stream!Spec
<1>1. Init => NoLostWakeup /\ Separate
  BY DEF Init, NoLostWakeup, Separate, KeyboardQuiet
<1>2. Init => Stream!Init
  <2> SUFFICES ASSUME Init PROVE Stream!Init
    OBVIOUS
  <2>1. Down = {}
    BY DEF Init, Down
  <2> QED
    BY <2>1 DEF Init, Stream!Init, Down
<1>3. NoLostWakeup /\ Separate /\ [Next]_vars => Separate'
  BY NextSeparate DEF Separated
<1>4. Framed /\ Known /\ [Next]_vars => [Stream!Next]_Stream!vars
  BY NextRefined
<1> QED
  BY <1>1, <1>2, <1>3, <1>4, InitFramed, NextFramed, InitKnown, NextKnown, NextWakeup, PTL
     DEF Spec, Stream!Spec
=============================================================================
