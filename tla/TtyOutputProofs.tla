--------------------------- MODULE TtyOutputProofs --------------------------
(***************************************************************************)
(* Proofs about TtyOutput, for every queue length, screen size, character  *)
(* set and choice of calls: type correctness, which includes that the      *)
(* position stays on the screen, and that tty_write delivers its buffer.   *)
(***************************************************************************)
EXTENDS TtyOutput, ConsoleProofs

(* Outside of the loops that fill and empty it, a write queue is empty.    *)
Quiet ==
  \A d \in Devices :
    d # dev \/ pc \in {"idle", "outer", "wait"} => TTYQ_EMPTY(wq[d])

(* A call that was not refused has returned its whole buffer. *)
Returned == pc = "idle" /\ rv >= 0 => rv = Len(buf) /\ sent = buf

(* The inductive invariant. *)
IInv == TypeOK /\ Quiet /\ InTransit /\ Returned

-----------------------------------------------------------------------------
(* Moving the head of one sequence to the end of another. *)
LEMMA MoveHead ==
  ASSUME NEW S, NEW s \in Seq(S), NEW q \in Seq(S), q # << >>
  PROVE  /\ Append(s, Head(q)) \o Tail(q) = s \o q
         /\ (s \o <<Head(q)>>) \o Tail(q) = s \o q
<1>1. /\ Head(q) \in S /\ Tail(q) \in Seq(S)
      /\ <<Head(q)>> \in Seq(S)
  BY HeadTailProperties
<1>2. Append(s, Head(q)) = s \o <<Head(q)>>
  BY <1>1, AppendIsConcat
<1>3. q = <<Head(q)>> \o Tail(q)
  <2>1. Len(q) \in Nat \ {0}
    BY EmptySeq
  <2>2. SubSeq(q, 1, Len(q)) = <<q[1]>> \o SubSeq(q, 2, Len(q))
    BY <2>1, SubSeqRecursiveFirst
  <2>3. Head(q) = q[1] /\ Tail(q) = SubSeq(q, 2, Len(q)) /\ SubSeq(q, 1, Len(q)) = q
    BY <2>1, TailIsSubSeq, SubSeqFull
  <2>4. QED
    BY <2>2, <2>3
<1>4. (s \o <<Head(q)>>) \o Tail(q) = s \o (<<Head(q)>> \o Tail(q))
  BY <1>1, ConcatAssociative
<1>5. QED
  BY <1>2, <1>3, <1>4

(* Appending to the second part of a concatenation. *)
LEMMA ConcatAppend ==
  ASSUME NEW S, NEW s \in Seq(S), NEW q \in Seq(S), NEW c \in S
  PROVE  s \o Append(q, c) = Append(s \o q, c)
<1>1. <<c>> \in Seq(S) /\ s \o q \in Seq(S)
  BY ConcatProperties
<1>2. Append(q, c) = q \o <<c>> /\ Append(s \o q, c) = (s \o q) \o <<c>>
  BY <1>1, AppendIsConcat
<1>3. QED
  BY <1>1, <1>2, ConcatAssociative

(* The prefix of length n + 1. *)
LEMMA NextPrefix ==
  ASSUME NEW S, NEW s \in Seq(S), NEW n \in Nat, n < Len(s)
  PROVE  /\ s[n + 1] \in S
         /\ SubSeq(s, 1, n) \in Seq(S)
         /\ SubSeq(s, 1, n + 1) = Append(SubSeq(s, 1, n), s[n + 1])
<1>1. Len(s) \in Nat /\ n + 1 \in 1 .. Len(s)
  BY LenProperties
<1>2. s[n + 1] \in S
  BY <1>1, ElementOfSeq
<1>3. \A i \in 1 .. n : s[i] \in S
  BY <1>1, ElementOfSeq
<1>4. SubSeq(s, 1, n) \in Seq(S)
  BY <1>3, SubSeqProperties
<1>5. SubSeq(s, 1, n + 1) = SubSeq(s, 1, (n + 1) - 1) \o <<s[n + 1]>>
  BY <1>1, SubSeqRecursiveSecond
<1>6. (n + 1) - 1 = n
  OBVIOUS
<1>7. QED
  BY <1>2, <1>4, <1>5, <1>6, AppendIsConcat

-----------------------------------------------------------------------------
LEMMA InitInv == Init => IInv
<1> SUFFICES ASSUME Init PROVE IInv
  OBVIOUS
<1>1. ZeroQueue \in Queue /\ Contents(ZeroQueue) = << >> /\ TTYQ_EMPTY(ZeroQueue)
  BY ZeroQueueEmpty DEF TTYQ_EMPTY, ZeroQueue
<1>2. \A d \in Devices : wq[d] = ZeroQueue
  BY DEF Init
<1>3. ClearScreen \in Screen
  BY ScreenAssumption DEF ClearScreen, Screen
<1>4. TypeOK
  BY <1>1, <1>3, QueueAssumption, EmptySeq DEF Init, TypeOK, Devices, PCs
<1>5. Quiet /\ Returned
  BY <1>1, <1>2, EmptySeq DEF Init, Quiet, Returned
<1>6. SubSeq(<< >>, 1, 0) = << >>
  BY SubSeqEmpty
<1>7. InTransit
  BY <1>1, <1>2, <1>6 DEF Init, InTransit, Held, Devices
<1>8. QED
  BY <1>4, <1>5, <1>7 DEF IInv

(* A hook's pop: the contents lose their head, which it holds. *)
LEMMA PopStep ==
  ASSUME IInv, NEW d \in Devices, Hook(d), Pop
  PROVE  /\ wq' \in [Devices -> Queue]
         /\ \A e \in Devices \ {dev} : wq'[e] = wq[e]
         /\ ch' \in Char
         /\ (sent \o <<ch'>>) \o Contents(wq'[dev]) = SubSeq(buf, 1, nw)
         /\ Append(sent, ch') \o Contents(wq'[dev]) = SubSeq(buf, 1, nw)
<1>1. /\ wq \in [Devices -> Queue] /\ dev \in Devices /\ sent \in Seq(Char)
      /\ pc = "hook" /\ ~TTYQ_EMPTY(wq[dev])
      /\ wq' = [wq EXCEPT ![dev] = PopAdvance(wq[dev])] /\ ch' = PopLoad(wq[dev])
  <2>1. wq \in [Devices -> Queue] /\ dev \in Devices /\ sent \in Seq(Char)
    BY DEF IInv, TypeOK
  <2>2. pc = "hook" /\ ~TTYQ_EMPTY(wq[dev])
    BY DEF Hook
  <2>3. wq' = [wq EXCEPT ![dev] = PopAdvance(wq[dev])] /\ ch' = PopLoad(wq[dev])
    BY DEF Pop
  <2>4. QED
    BY <2>1, <2>2, <2>3
<1> DEFINE q == Contents(wq[dev])
<1>2. /\ PopAdvance(wq[dev]) \in Queue
      /\ ch' \in Char /\ q \in Seq(Char) /\ q # << >>
      /\ ch' = Head(q)
      /\ Contents(PopAdvance(wq[dev])) = Tail(q)
  BY <1>1, PopFields, PopContents, ContentsProperties
<1>3. sent \o q = SubSeq(buf, 1, nw)
  <2>1. (sent \o << >>) \o q = SubSeq(buf, 1, nw)
    BY <1>1 DEF IInv, InTransit, Held
  <2>2. QED
    BY <1>1, <2>1, ConcatEmptySeq
<1>4. wq'[dev] = PopAdvance(wq[dev])
  BY <1>1
<1> HIDE DEF q
<1>5. (sent \o <<ch'>>) \o Tail(q) = sent \o q /\ Append(sent, ch') \o Tail(q) = sent \o q
  BY <1>1, <1>2, MoveHead
<1>6. Contents(wq'[dev]) = Tail(q)
  BY <1>2, <1>4
<1>7. QED
  BY <1>1, <1>2, <1>3, <1>5, <1>6

(* A step that moves no character: the parts of the invariant that are     *)
(* about characters stay as they were.                                     *)
LEMMA NoneMoves ==
  ASSUME Quiet, InTransit, UNCHANGED <<wq, dev, buf, nw, sent>>,
         pc \notin {"send", "fault"}, pc' # "send",
         pc' \in {"idle", "outer", "wait"} =>
           pc \in {"idle", "outer", "wait"} \/ TTYQ_EMPTY(wq[dev])
  PROVE  Quiet' /\ InTransit'
<1>1. Quiet'
  BY Zenon DEF Quiet
<1>2. InTransit'
  <2>1. sent \o << >> \o Contents(wq[dev]) = SubSeq(buf, 1, nw)
    BY Zenon DEF InTransit, Held
  <2>2. Held' = << >>
    BY DEF Held
  <2>3. QED
    BY <2>1, <2>2, Zenon DEF InTransit
<1>3. QED
  BY <1>1, <1>2

(* Every action keeps the invariant. *)
LEMMA NextInv == IInv /\ [Next]_vars => IInv'
<1> SUFFICES ASSUME IInv, [Next]_vars PROVE IInv'
  OBVIOUS
<1>0. /\ wq \in [Devices -> Queue] /\ pc \in PCs /\ dev \in Devices
      /\ buf \in Seq(Char) /\ nw \in 0 .. Len(buf) /\ ch \in Char
      /\ sent \in Seq(Char) /\ rv \in Int /\ screen \in Screen
      /\ cursor \in Nat /\ thre \in BOOLEAN
      /\ Len(buf) \in Nat
  <2>1. TypeOK
    BY DEF IInv
  <2>2. QED
    BY <2>1, LenProperties, Zenon DEF TypeOK
<1>a. Quiet
  BY DEF IInv
<1>b. InTransit
  BY DEF IInv
<1>c. Returned
  BY DEF IInv
<1>1. ASSUME NEW tty \in Nat, CallUnknown(tty)
      PROVE  IInv'
  <2>1. TypeOK'
    BY <1>0, <1>1 DEF CallUnknown, TypeOK, ENODEV
  <2>2. Quiet' /\ InTransit'
    BY <1>a, <1>b, <1>1, NoneMoves DEF CallUnknown
  <2>3. Returned'
    BY <1>1 DEF CallUnknown, Returned, ENODEV
  <2>4. QED
    BY <2>1, <2>2, <2>3 DEF IInv
<1>2. ASSUME NEW tty \in Nat, NEW s \in Seq(Char), Call(tty, s)
      PROVE  IInv'
  <2>1. tty \in 0 .. 2 /\ s \in Seq(Char)
    BY <1>2 DEF Call, num_tty_devices, tty_devices
  <2>2. dev' \in Devices
    BY <1>2, <2>1 DEF Call, tty_devices, Devices
  <2>3. Len(s) \in Nat
    BY <2>1, LenProperties
  <2>4. TypeOK'
    BY <1>0, <1>2, <2>1, <2>2, <2>3, EmptySeq DEF Call, TypeOK, PCs
  <2>5. wq' = wq /\ pc' = "outer" /\ sent' = << >> /\ buf' = s /\ nw' = 0
    BY <1>2 DEF Call
  <2>6. \A d \in Devices : TTYQ_EMPTY(wq[d])
    BY <1>a, <1>2, Zenon DEF Call, Quiet
  <2>7. Contents(wq'[dev']) = << >>
    BY <1>0, <2>2, <2>5, <2>6, ContentsProperties
  <2>8. SubSeq(s, 1, 0) = << >>
    BY SubSeqEmpty
  <2>9. InTransit'
    <3>1. (<< >> \o << >>) \o << >> = << >>
      BY EmptySeq, ConcatEmptySeq
    <3>2. QED
      BY <2>5, <2>7, <2>8, <3>1 DEF InTransit, Held
  <2>10. Quiet'
    BY <2>5, <2>6, Zenon DEF Quiet
  <2>11. Returned'
    BY <2>5 DEF Returned
  <2>12. QED
    BY <2>4, <2>9, <2>10, <2>11 DEF IInv
<1>3. CASE Return
  <2>1. nw = Len(buf)
    BY <1>0, <1>3 DEF Return
  <2>2. TypeOK'
    BY <1>0, <1>3 DEF Return, TypeOK, PCs
  <2>3. sent = buf
    <3>1. TTYQ_EMPTY(wq[dev]) /\ pc = "outer"
      BY <1>0, <1>a, <1>3, Zenon DEF Return, Quiet
    <3>2. Contents(wq[dev]) = << >>
      BY <1>0, <3>1, ContentsProperties
    <3>3. (sent \o << >>) \o << >> = SubSeq(buf, 1, Len(buf))
      BY <1>b, <2>1, <3>1, <3>2, Zenon DEF InTransit, Held
    <3>4. QED
      BY <1>0, <3>3, ConcatEmptySeq, SubSeqFull
  <2>4. Quiet' /\ InTransit'
    BY <1>a, <1>b, <1>3, NoneMoves DEF Return
  <2>5. Returned'
    BY <1>3, <2>1, <2>3 DEF Return, Returned
  <2>6. QED
    BY <2>2, <2>4, <2>5 DEF IInv
<1>4. CASE Chunk
  <2>1. TypeOK'
    BY <1>0, <1>4, Zenon DEF Chunk, TypeOK, PCs
  <2>2. Quiet' /\ InTransit'
    BY <1>a, <1>b, <1>4, NoneMoves DEF Chunk
  <2>3. Returned'
    BY <1>4 DEF Chunk, Returned
  <2>4. QED
    BY <2>1, <2>2, <2>3 DEF IInv
<1>5. CASE Fill
  <2> DEFINE c == buf[nw + 1]
             q == Contents(wq[dev])
  <2>1. /\ nw < Len(buf) /\ ~TTYQ_FULL(wq[dev]) /\ pc = "fill"
        /\ wq' = [wq EXCEPT ![dev] = TTYQ_PUSH(wq[dev], c)] /\ nw' = nw + 1
        /\ UNCHANGED <<pc, dev, buf, ch, sent, rv, screen, cursor, thre>>
    BY <1>5 DEF Fill, MoreFits
  <2>2. /\ c \in Char
        /\ SubSeq(buf, 1, nw) \in Seq(Char)
        /\ SubSeq(buf, 1, nw + 1) = Append(SubSeq(buf, 1, nw), c)
    BY <1>0, <2>1, NextPrefix
  <2>3. /\ TTYQ_PUSH(wq[dev], c) \in Queue
        /\ Contents(TTYQ_PUSH(wq[dev], c)) = Append(q, c)
        /\ q \in Seq(Char)
    BY <1>0, <2>1, <2>2, PushFields, PushContents, ContentsProperties
  <2>4. wq'[dev] = TTYQ_PUSH(wq[dev], c) /\ \A d \in Devices \ {dev} : wq'[d] = wq[d]
    BY <1>0, <2>1
  <2>5. TypeOK'
    <3>1. wq' \in [Devices -> Queue]
      BY <1>0, <2>1, <2>3
    <3>2. nw' \in 0 .. Len(buf')
      BY <1>0, <2>1
    <3>3. QED
      BY <1>0, <2>1, <3>1, <3>2, Zenon DEF TypeOK
  <2>6. sent \o q = SubSeq(buf, 1, nw)
    <3>1. (sent \o << >>) \o q = SubSeq(buf, 1, nw)
      BY <1>b, <2>1 DEF InTransit, Held
    <3>2. QED
      BY <1>0, <3>1, ConcatEmptySeq
  <2> HIDE DEF c, q
  <2>7. sent \o Append(q, c) = SubSeq(buf, 1, nw + 1)
    BY <1>0, <2>2, <2>3, <2>6, ConcatAppend
  <2>8. (sent \o << >>) \o Append(q, c) = SubSeq(buf, 1, nw + 1)
    BY <1>0, <2>7, ConcatEmptySeq
  <2>9. InTransit'
    BY <2>1, <2>3, <2>4, <2>8 DEF InTransit, Held
  <2>10. Quiet'
    BY <1>a, <2>1, <2>4 DEF Quiet
  <2>11. Returned'
    BY <2>1 DEF Returned
  <2>12. QED
    BY <2>5, <2>9, <2>10, <2>11 DEF IInv
<1>6. CASE FillEnd
  <2>1. TypeOK'
    BY <1>0, <1>6, Zenon DEF FillEnd, TypeOK, PCs
  <2>2. Quiet' /\ InTransit'
    BY <1>a, <1>b, <1>6, NoneMoves DEF FillEnd
  <2>3. Returned'
    BY <1>6 DEF FillEnd, Returned
  <2>4. QED
    BY <2>1, <2>2, <2>3 DEF IInv
<1>7. CASE NullTake
  <2>1. /\ pc = "hook" /\ sent' = Append(sent, ch')
        /\ UNCHANGED <<pc, dev, buf, nw, rv, screen, cursor, thre>>
    BY <1>7 DEF NullTake, Hook
  <2>2. /\ wq' \in [Devices -> Queue]
        /\ \A e \in Devices \ {dev} : wq'[e] = wq[e]
        /\ ch' \in Char
        /\ Append(sent, ch') \o Contents(wq'[dev]) = SubSeq(buf, 1, nw)
    BY <1>7, PopStep DEF NullTake, Devices
  <2>3. sent' \in Seq(Char)
    BY <1>0, <2>1, <2>2, AppendProperties
  <2>4. TypeOK'
    BY <1>0, <2>1, <2>2, <2>3, Zenon DEF TypeOK
  <2>5. sent' \o << >> = sent'
    BY <2>3, ConcatEmptySeq
  <2>6. InTransit'
    BY <2>1, <2>2, <2>5 DEF InTransit, Held
  <2>7. Quiet'
    BY <1>a, <2>1, <2>2 DEF Quiet
  <2>8. Returned'
    BY <2>1 DEF Returned
  <2>9. QED
    BY <2>4, <2>6, <2>7, <2>8 DEF IInv
<1>8. CASE SerialTake
  <2>1. /\ pc = "hook" /\ pc' = "send"
        /\ UNCHANGED <<dev, buf, nw, sent, rv, screen, cursor, thre>>
    BY <1>8 DEF SerialTake, Hook
  <2>2. /\ wq' \in [Devices -> Queue]
        /\ \A e \in Devices \ {dev} : wq'[e] = wq[e]
        /\ ch' \in Char
        /\ (sent \o <<ch'>>) \o Contents(wq'[dev]) = SubSeq(buf, 1, nw)
    BY <1>8, PopStep DEF SerialTake, Devices
  <2>3. TypeOK'
    BY <1>0, <2>1, <2>2, Zenon DEF TypeOK, PCs
  <2>4. InTransit'
    BY <2>1, <2>2 DEF InTransit, Held
  <2>5. Quiet'
    BY <1>a, <2>1, <2>2 DEF Quiet
  <2>6. Returned'
    BY <2>1 DEF Returned
  <2>7. QED
    BY <2>3, <2>4, <2>5, <2>6 DEF IInv
<1>9. CASE SerialSend
  <2>1. /\ pc = "send" /\ pc' = "hook" /\ sent' = Append(sent, ch) /\ thre' = FALSE
        /\ UNCHANGED <<wq, dev, buf, nw, ch, rv, screen, cursor>>
    BY <1>9 DEF SerialSend
  <2>2. sent' \in Seq(Char) /\ sent' = sent \o <<ch>> /\ sent' \o << >> = sent'
    BY <1>0, <2>1, AppendProperties, AppendIsConcat, ConcatEmptySeq
  <2>3. TypeOK'
    BY <1>0, <2>1, <2>2, Zenon DEF TypeOK, PCs
  <2>4. InTransit'
    BY <1>b, <2>1, <2>2 DEF InTransit, Held
  <2>5. Quiet'
    BY <1>a, <2>1 DEF Quiet
  <2>6. Returned'
    BY <2>1 DEF Returned
  <2>7. QED
    BY <2>3, <2>4, <2>5, <2>6 DEF IInv
<1>10. CASE VgaTake
  <2>1. /\ pc = "hook"
        /\ UNCHANGED <<dev, buf, nw, rv, cursor, thre>>
        /\ IF DividesByZero(ch')
             THEN pc' = "fault" /\ UNCHANGED <<sent, screen>>
             ELSE /\ screen' = send(screen, ch')
                  /\ sent' = Append(sent, ch')
                  /\ UNCHANGED pc
    BY <1>10 DEF VgaTake, Hook
  <2>2. /\ wq' \in [Devices -> Queue]
        /\ \A e \in Devices \ {dev} : wq'[e] = wq[e]
        /\ ch' \in Char
        /\ Append(sent, ch') \o Contents(wq'[dev]) = SubSeq(buf, 1, nw)
    BY <1>10, PopStep DEF VgaTake, Devices
  <2>3. CASE DividesByZero(ch')
    <3>1. TypeOK'
      BY <1>0, <2>1, <2>2, <2>3, Zenon DEF TypeOK, PCs
    <3>2. Quiet'
      BY <1>a, <2>1, <2>2, <2>3 DEF Quiet
    <3>3. InTransit' /\ Returned'
      BY <2>1, <2>3 DEF InTransit, Returned
    <3>4. QED
      BY <3>1, <3>2, <3>3 DEF IInv
  <2>4. CASE ~DividesByZero(ch')
    <3>1. sent' \in Seq(Char) /\ sent' = Append(sent, ch') /\ sent' \o << >> = sent'
      <4>1. sent' = Append(sent, ch')
        BY <2>1, <2>4
      <4>2. sent' \in Seq(Char)
        BY <1>0, <2>2, <4>1, AppendProperties
      <4>3. QED
        BY <4>1, <4>2, ConcatEmptySeq
    <3>2. screen' \in Screen
      BY <1>0, <2>1, <2>2, <2>4, OutputAssumption, SendScreen
    <3>3. TypeOK'
      BY <1>0, <2>1, <2>2, <2>4, <3>1, <3>2, Zenon DEF TypeOK
    <3>4. InTransit'
      BY <2>1, <2>2, <2>4, <3>1 DEF InTransit, Held
    <3>5. Quiet'
      BY <1>a, <2>1, <2>2, <2>4 DEF Quiet
    <3>6. Returned'
      BY <2>1, <2>4 DEF Returned
    <3>7. QED
      BY <3>3, <3>4, <3>5, <3>6 DEF IInv
  <2>5. QED
    BY <2>3, <2>4
<1>11. CASE HookEnd
  <2>1. CursorRegister(screen) \in Nat
    <3>1. Position(screen) \in Int
      BY <1>0, ScreenAssumption DEF Screen, Position, Index
    <3>2. QED
      BY <3>1 DEF CursorRegister
  <2>2. TypeOK'
    BY <1>0, <1>11, <2>1, Zenon DEF HookEnd, TypeOK, PCs
  <2>3. Quiet' /\ InTransit'
    BY <1>a, <1>b, <1>11, NoneMoves DEF HookEnd
  <2>4. Returned'
    BY <1>11 DEF HookEnd, Returned
  <2>5. QED
    BY <2>2, <2>3, <2>4 DEF IInv
<1>12. CASE WaitEnd
  <2>1. TypeOK'
    BY <1>0, <1>12, Zenon DEF WaitEnd, TypeOK, PCs
  <2>2. Quiet' /\ InTransit'
    BY <1>a, <1>b, <1>12, NoneMoves DEF WaitEnd
  <2>3. Returned'
    BY <1>12 DEF WaitEnd, Returned
  <2>4. QED
    BY <2>1, <2>2, <2>3 DEF IInv
<1>13. CASE UartTransmits
  <2>1. TypeOK'
    BY <1>0, <1>13, Zenon DEF UartTransmits, TypeOK
  <2>2. Quiet' /\ Returned'
    BY <1>a, <1>c, <1>13, Zenon DEF UartTransmits, Quiet, Returned
  <2>3. InTransit'
    BY <1>b, <1>13, Zenon DEF UartTransmits, InTransit, Held
  <2>4. QED
    BY <2>1, <2>2, <2>3 DEF IInv
<1>14. CASE UNCHANGED vars
  <2>1. TypeOK'
    BY <1>0, <1>14, Zenon DEF vars, TypeOK
  <2>2. Quiet' /\ Returned'
    BY <1>a, <1>c, <1>14, Zenon DEF vars, Quiet, Returned
  <2>3. InTransit'
    BY <1>b, <1>14, Zenon DEF vars, InTransit, Held
  <2>4. QED
    BY <2>1, <2>2, <2>3 DEF IInv
<1>15. ASSUME NEW call \in Calls, CallUnknown(call[1]) \/ Call(call[1], call[2])
       PROVE  IInv'
  <2>1. call[1] \in Nat /\ call[2] \in Seq(Char)
    BY OutputAssumption
  <2>2. QED
    BY <1>1, <1>2, <1>15, <2>1
<1>16. QED
  BY <1>3, <1>4, <1>5, <1>6, <1>7, <1>8, <1>9, <1>10, <1>11, <1>12, <1>13, <1>14, <1>15
     DEF Next, Writer

-----------------------------------------------------------------------------
(* The invariant holds in every reachable state. *)
THEOREM Invariant == Spec => []IInv
<1>1. QED
  BY InitInv, NextInv, PTL DEF Spec

(* The position never leaves the screen, nor any variable its type.        *)
THEOREM TypeCorrect == Spec => []TypeOK
<1>1. IInv => TypeOK
  BY DEF IInv
<1>2. QED
  BY <1>1, Invariant, PTL

(* Nothing is lost, repeated or reordered on the way to a device.          *)
THEOREM NothingLostInTransit == Spec => []InTransit
<1>1. IInv => InTransit
  BY DEF IInv
<1>2. QED
  BY <1>1, Invariant, PTL

(* A call returns the length of its buffer, all of it delivered.           *)
THEOREM WritesDeliver == Spec => []WriteDelivers
<1>1. ASSUME IInv PROVE WriteDelivers
  <2>1. Quiet /\ Returned
    BY <1>1 DEF IInv
  <2>2. QED
    BY <2>1, Zenon DEF Quiet, Returned, WriteDelivers
<1>2. QED
  BY <1>1, Invariant, PTL

(* The busy wait for room in the write queue never waits.                  *)
THEOREM NoBusyWait == Spec => []NeverSpins
<1>1. ASSUME IInv PROVE NeverSpins
  <2>1. wq[dev] \in Queue /\ dev \in Devices
    BY <1>1 DEF IInv, TypeOK
  <2>2. pc = "wait" => TTYQ_EMPTY(wq[dev])
    BY <1>1, <2>1 DEF IInv, Quiet
  <2>3. QED
    BY <2>1, <2>2, EmptyNotFull DEF NeverSpins
<1>2. QED
  BY <1>1, Invariant, PTL

(* In every reachable state the backspace key would undo an echo.          *)
THEOREM BackspaceAlwaysErases == Spec => []RubOut
<1>1. ASSUME IInv PROVE RubOut
  BY <1>1, BackspaceErases DEF IInv, TypeOK, RubOut
<1>2. QED
  BY <1>1, Invariant, PTL

-----------------------------------------------------------------------------
(* The cursor is where the next character goes, unless the console's hook  *)
(* is at work.                                                             *)
Synced ==
  \/ dev = "tty_vgatm" /\ pc \in {"hook", "fault"}
  \/ cursor = Position(screen)

(* The register has room for the position. *)
LEMMA RegisterHolds ==
  ASSUME width * height <= 65536, screen \in Screen
  PROVE  CursorRegister(screen) = Position(screen)
<1> DEFINE p == Position(screen)
           size == width * height
<1>1. p \in Cell
  BY ScreenFields, IndexInCell DEF Position
<1>2. size \in Nat /\ p \in 0 .. size - 1 /\ size <= 65536
  BY <1>1, ScreenAssumption DEF Cell
<1> HIDE DEF p, size
<1>3. p \in Nat /\ p < 65536
  BY <1>2
<1>4. p % 65536 = p
  BY <1>3
<1> QED
  BY <1>4 DEF CursorRegister, p

LEMMA SyncedNext ==
  ASSUME width * height <= 65536
  PROVE  IInv /\ Synced /\ [Next]_vars => Synced'
<1> SUFFICES ASSUME IInv, Synced, [Next]_vars PROVE Synced'
  OBVIOUS
<1>1. CASE HookEnd
  <2>1. pc = "hook" /\ UNCHANGED <<dev, screen>>
        /\ cursor' = IF dev = "tty_vgatm" THEN CursorRegister(screen) ELSE cursor
    BY <1>1 DEF HookEnd
  <2>2. CursorRegister(screen) = Position(screen)
    BY RegisterHolds DEF IInv, TypeOK
  <2>3. cursor' = Position(screen)
    BY <2>1, <2>2 DEF Synced
  <2>4. screen' = screen
    BY <2>1
  <2>5. cursor' = Position(screen')
    BY <2>3, <2>4
  <2> QED
    BY <2>5 DEF Synced
<1>2. CASE VgaTake
  BY <1>2 DEF VgaTake, Hook, Synced
<1>3. CASE NullTake \/ SerialTake \/ SerialSend \/ UartTransmits \/ UNCHANGED vars
  <2>1. /\ UNCHANGED <<dev, screen, cursor>>
        /\ \/ pc' = pc
           \/ dev # "tty_vgatm"
           \/ pc \notin {"hook", "fault"}
    BY <1>3 DEF NullTake, SerialTake, SerialSend, UartTransmits, vars, Hook
  <2>2. CASE dev = "tty_vgatm" /\ pc \in {"hook", "fault"}
    BY <2>1, <2>2 DEF Synced
  <2>3. CASE cursor = Position(screen)
    <3>1. screen' = screen /\ cursor' = cursor
      BY <2>1
    <3>2. cursor' = Position(screen')
      BY <2>3, <3>1
    <3> QED
      BY <3>2 DEF Synced
  <2> QED
    BY <2>2, <2>3 DEF Synced
<1>4. CASE Return \/ Chunk \/ Fill \/ FillEnd \/ WaitEnd
  <2>1. UNCHANGED <<dev, screen, cursor>> /\ pc \notin {"hook", "fault"}
    BY <1>4 DEF Return, Chunk, Fill, FillEnd, WaitEnd
  <2>2. screen' = screen /\ cursor' = cursor /\ cursor = Position(screen)
    BY <2>1 DEF Synced
  <2>3. cursor' = Position(screen')
    BY <2>2
  <2> QED
    BY <2>3 DEF Synced
<1>5. ASSUME NEW call \in Calls, CallUnknown(call[1]) \/ Call(call[1], call[2])
      PROVE  Synced'
  <2>1. UNCHANGED <<screen, cursor>> /\ pc \notin {"hook", "fault"}
    BY <1>5 DEF CallUnknown, Call
  <2>2. screen' = screen /\ cursor' = cursor /\ cursor = Position(screen)
    BY <2>1 DEF Synced
  <2>3. cursor' = Position(screen')
    BY <2>2
  <2> QED
    BY <2>3 DEF Synced
<1> QED
  BY <1>1, <1>2, <1>3, <1>4, <1>5 DEF Next, Writer

(* When a write to the screen returns, the cursor is where the next        *)
(* character goes, on every screen whose cells the register can count.     *)
THEOREM CursorFollows ==
  ASSUME width * height <= 65536
  PROVE  Spec => []CursorShown
<1>1. Init => Synced
  <2>1. Position(ClearScreen) = 0
    BY ScreenAssumption DEF ClearScreen, Position, Index
  <2> QED
    BY <2>1 DEF Init, Synced
<1>2. Synced => CursorShown
  BY DEF Synced, CursorShown
<1> QED
  BY <1>1, <1>2, SyncedNext, Invariant, PTL DEF Spec

-----------------------------------------------------------------------------
(* The glyphs at the end of t are in the cells before the position of s,   *)
(* as many as there are before it: the n-th from the end, if none after it *)
(* is a control character.                                                 *)
ShownBefore(s, t) ==
  \A n \in 1 .. Len(t) :
    n <= Position(s) /\ (\A d \in 1 .. n : t[Len(t) + 1 - d] \in Glyph) =>
      s.vidmem[Position(s) - n] = t[Len(t) + 1 - n]

Text ==
  /\ dev = "tty_vgatm" => ShownBefore(screen, sent)
  /\ pc = "send" => dev = "tty_serial"

(* A character more. *)
LEMMA TextGrows ==
  ASSUME NEW s \in Screen, NEW t \in Seq(Char), NEW c \in Char, ShownBefore(s, t)
  PROVE  ShownBefore(send(s, c), Append(t, c))
<1> DEFINE u == Append(t, c)
           r == send(s, c)
           len == Len(t)
<1>1. len \in Nat /\ Len(u) = len + 1 /\ (\A i \in 1 .. len : u[i] = t[i]) /\ u[len + 1] = c
  BY LenProperties, AppendProperties
<1>2. \A n \in 1 .. len :
        n <= Position(s) /\ (\A d \in 1 .. n : t[len + 1 - d] \in Glyph) =>
          s.vidmem[Position(s) - n] = t[len + 1 - n]
  BY DEF ShownBefore
<1>3. Position(s) \in Int
  BY ScreenAssumption, ScreenFields DEF Position, Index
<1> HIDE DEF u, len
<1>4. SUFFICES ASSUME NEW n \in 1 .. len + 1, n <= Position(r),
                      \A d \in 1 .. n : u[len + 1 + 1 - d] \in Glyph
               PROVE  r.vidmem[Position(r) - n] = u[len + 1 + 1 - n]
  BY <1>1, Zenon DEF ShownBefore, u
<1>5. c \in Glyph
  BY <1>1, <1>4
<1>6. /\ n <= Position(s) + 1
      /\ r.vidmem[Position(r) - n] = IF n = 1 THEN c ELSE s.vidmem[Position(s) + 1 - n]
  <2>1. n \in Nat \ {0}
    BY <1>1, <1>4
  <2> QED
    BY <1>4, <1>5, <2>1, GlyphMovesText
<1> HIDE DEF r
<1>7. CASE n = 1
  BY <1>1, <1>6, <1>7
<1>8. CASE n # 1
  <2> DEFINE b == n - 1
  <2>1. /\ b \in 1 .. len /\ n = b + 1 /\ b <= Position(s)
        /\ Position(s) + 1 - n = Position(s) - b
        /\ len + 1 + 1 - n = len + 1 - b
    BY <1>1, <1>3, <1>4, <1>6, <1>8
  <2>2. \A d \in 1 .. b : t[len + 1 - d] \in Glyph
    <3>1. SUFFICES ASSUME NEW d \in 1 .. b PROVE t[len + 1 - d] \in Glyph
      OBVIOUS
    <3>2. /\ d + 1 \in 1 .. n /\ len + 1 + 1 - (d + 1) = len + 1 - d
          /\ len + 1 - d \in 1 .. len
      BY <1>1, <2>1
    <3>3. u[len + 1 + 1 - (d + 1)] \in Glyph
      BY <1>4, <3>2
    <3> QED
      BY <1>1, <3>2, <3>3
  <2>3. len + 1 - b \in 1 .. len
    BY <1>1, <2>1
  <2> HIDE DEF b
  <2>4. s.vidmem[Position(s) - b] = t[len + 1 - b]
    BY <1>2, <2>1, <2>2
  <2> QED
    BY <1>1, <1>6, <1>8, <2>1, <2>3, <2>4
<1> QED
  BY <1>7, <1>8

LEMMA TextNext == IInv /\ Text /\ [Next]_vars => Text'
<1> SUFFICES ASSUME IInv, Text, [Next]_vars PROVE Text'
  OBVIOUS
<1>1. CASE VgaTake
  <2>1. dev = "tty_vgatm" /\ Hook(dev) /\ Pop /\ dev' = dev /\ dev \in Devices /\ pc = "hook"
    BY <1>1 DEF VgaTake, Hook, IInv, TypeOK
  <2>2. CASE DividesByZero(ch')
    <3>1. sent' = sent /\ screen' = screen /\ pc' = "fault" /\ ShownBefore(screen, sent)
      BY <1>1, <2>1, <2>2 DEF VgaTake, Text
    <3>2. ShownBefore(screen', sent')
      BY <3>1
    <3> QED
      BY <2>1, <3>1, <3>2 DEF Text
  <2>3. CASE ~DividesByZero(ch')
    <3>1. /\ screen' = send(screen, ch') /\ sent' = Append(sent, ch') /\ pc' = pc
          /\ ShownBefore(screen, sent)
      BY <1>1, <2>1, <2>3 DEF VgaTake, Text
    <3>2. screen \in Screen /\ sent \in Seq(Char) /\ ch' \in Char
      BY <2>1, PopStep DEF IInv, TypeOK
    <3>3. ShownBefore(send(screen, ch'), Append(sent, ch'))
      BY <3>1, <3>2, TextGrows
    <3>4. ShownBefore(screen', sent')
      BY <3>1, <3>3
    <3> QED
      BY <2>1, <3>1, <3>4 DEF Text
  <2> QED
    BY <2>2, <2>3
<1>2. CASE NullTake \/ SerialTake \/ SerialSend
  <2>1. dev' = dev /\ dev # "tty_vgatm" /\ (pc' = "send" => dev = "tty_serial")
    BY <1>2 DEF NullTake, SerialTake, SerialSend, Hook, Text
  <2> QED
    BY <2>1 DEF Text
<1>3. CASE UartTransmits \/ UNCHANGED vars \/ Return \/ Chunk \/ Fill \/ FillEnd \/ WaitEnd \/ HookEnd
  <2>1. /\ sent' = sent /\ screen' = screen /\ dev' = dev
        /\ pc' = pc \/ pc' \in {"idle", "fill", "hook", "outer", "wait"}
    BY <1>3 DEF UartTransmits, vars, Return, Chunk, Fill, FillEnd, WaitEnd, HookEnd
  <2>2. dev' = "tty_vgatm" => ShownBefore(screen', sent')
    BY <2>1 DEF Text
  <2> QED
    BY <2>1, <2>2 DEF Text
<1>4. ASSUME NEW call \in Calls, CallUnknown(call[1])
      PROVE  Text'
  <2>1. sent' = sent /\ screen' = screen /\ dev' = dev /\ pc' = pc
    BY <1>4 DEF CallUnknown
  <2>2. dev' = "tty_vgatm" => ShownBefore(screen', sent')
    BY <2>1 DEF Text
  <2> QED
    BY <2>1, <2>2 DEF Text
<1>5. ASSUME NEW call \in Calls, Call(call[1], call[2])
      PROVE  Text'
  <2>1. sent' = << >> /\ pc' = "outer"
    BY <1>5 DEF Call
  <2>2. ShownBefore(screen', sent')
    BY <2>1 DEF ShownBefore
  <2> QED
    BY <2>1, <2>2 DEF Text
<1> QED
  BY <1>1, <1>2, <1>3, <1>4, <1>5 DEF Next, Writer

(* The run of visible characters written last is in the cells before the   *)
(* cursor, in order, however often it wrapped or scrolled the screen.      *)
THEOREM TextStaysShown == Spec => []TextIsShown
<1>1. Init => Text
  BY DEF Init, Text
<1>2. IInv /\ Text => TextIsShown
  <2> SUFFICES ASSUME IInv, ShownBefore(screen, sent), NEW n \in 1 .. Len(sent),
                      LastSent(n) \in Seq(Glyph), n <= Position(screen), NEW k \in 1 .. n
               PROVE  screen.vidmem[Position(screen) - n + k - 1] = LastSent(n)[k]
    BY DEF TextIsShown, Text
  <2> DEFINE len == Len(sent)
             last == LastSent(n)
             p == Position(screen)
  <2>1. sent \in Seq(Char) /\ len \in Nat
    BY LenProperties DEF IInv, TypeOK
  <2>2. Len(last) = n /\ \A i \in 1 .. n : last[i] = sent[len - n + i]
    <3> DEFINE a == len - n + 1
    <3>1. a \in 1 .. len /\ len - a + 1 = n
      BY <2>1
    <3>2. \A i \in a .. len : sent[i] \in Char
      BY <2>1, <3>1, ElementOfSeq
    <3> HIDE DEF a
    <3>3. /\ Len(SubSeq(sent, a, len)) = IF a <= len THEN len - a + 1 ELSE 0
          /\ \A i \in 1 .. len - a + 1 : SubSeq(sent, a, len)[i] = sent[a + i - 1]
      BY <2>1, <3>1, <3>2, SubSeqProperties
    <3>4. last = SubSeq(sent, a, len)
      BY DEF LastSent, a
    <3>5. \A i \in 1 .. n : a + i - 1 = len - n + i
      BY <2>1 DEF a
    <3> HIDE DEF last
    <3> QED
      BY <2>1, <3>1, <3>3, <3>4, <3>5
  <2>3. \A i \in 1 .. n : last[i] \in Glyph
    BY <2>2, ElementOfSeq
  <2>4. p \in Int
    <3>1. screen.posx \in 0 .. width - 1 /\ screen.posy \in 0 .. height - 1
      BY ScreenFields DEF IInv, TypeOK
    <3> QED
      BY ScreenAssumption, <3>1 DEF Position, Index
  <2> DEFINE d == n + 1 - k
  <2> HIDE DEF last, len, p
  <2>5. /\ d \in 1 .. len /\ d <= p /\ p - d = p - n + k - 1 /\ len + 1 - d = len - n + k
    BY <2>1, <2>4 DEF len, p
  <2>6. \A e \in 1 .. d : sent[len + 1 - e] \in Glyph
    <3>1. SUFFICES ASSUME NEW e \in 1 .. d PROVE sent[len + 1 - e] \in Glyph
      OBVIOUS
    <3>2. n + 1 - e \in 1 .. n /\ len - n + (n + 1 - e) = len + 1 - e
      BY <2>1
    <3> QED
      BY <2>2, <2>3, <3>2
  <2> HIDE DEF d
  <2>7. screen.vidmem[p - d] = sent[len + 1 - d]
    BY <2>5, <2>6 DEF ShownBefore, p, len
  <2>8. last[k] = sent[len - n + k]
    BY <2>2
  <2> QED
    BY <2>5, <2>7, <2>8 DEF p, last
<1> QED
  BY <1>1, <1>2, TextNext, Invariant, PTL DEF Spec
=============================================================================
