-------------------------- MODULE InterruptsProofs --------------------------
(***************************************************************************)
(* The stubs restore what was interrupted, for every nesting of interrupts *)
(* and exceptions (other than those with an error code, whose stub does    *)
(* not), and what follows from it.                                         *)
(***************************************************************************)
EXTENDS Interrupts, SequenceTheorems, TLAPS

-----------------------------------------------------------------------------
(* Stacks: sequences of words of any kind. *)

IsSeq(s) == \E S : s \in Seq(S)

(* The stack s is base and on it the first n of the words. *)
On(base, words, n, s) ==
  /\ IsSeq(s)
  /\ Len(s) = Len(base) + n
  /\ \A i \in 1 .. Len(base) : s[i] = base[i]
  /\ \A i \in 1 .. n : s[Len(base) + i] = words[i]

LEMMA SeqLength ==
  ASSUME NEW s, IsSeq(s)
  PROVE  Len(s) \in Nat /\ DOMAIN s = 1 .. Len(s)
BY LenProperties DEF IsSeq

LEMMA SeqSame ==
  ASSUME NEW s, NEW t, IsSeq(s), IsSeq(t), Len(s) = Len(t),
         \A i \in 1 .. Len(s) : s[i] = t[i]
  PROVE  s = t
<1>1. PICK S : s \in Seq(S)
  BY DEF IsSeq
<1>2. PICK T : t \in Seq(T)
  BY DEF IsSeq
<1>3. s \in Seq(S \cup T) /\ t \in Seq(S \cup T)
  BY <1>1, <1>2, SeqMonotonic
<1> QED
  BY <1>3, SeqEqual

LEMMA SeqJoin ==
  ASSUME NEW s, NEW t, IsSeq(s), IsSeq(t)
  PROVE  /\ IsSeq(s \o t)
         /\ Len(s \o t) = Len(s) + Len(t)
         /\ \A i \in 1 .. Len(s) + Len(t) :
              (s \o t)[i] = IF i <= Len(s) THEN s[i] ELSE t[i - Len(s)]
<1>1. PICK S : s \in Seq(S)
  BY DEF IsSeq
<1>2. PICK T : t \in Seq(T)
  BY DEF IsSeq
<1> DEFINE U == S \cup T
<1>3. s \in Seq(U) /\ t \in Seq(U)
  BY <1>1, <1>2, SeqMonotonic
<1> HIDE DEF U
<1>4. /\ s \o t \in Seq(U)
      /\ Len(s \o t) = Len(s) + Len(t)
      /\ \A i \in 1 .. Len(s) + Len(t) :
           (s \o t)[i] = IF i <= Len(s) THEN s[i] ELSE t[i - Len(s)]
  BY <1>3, ConcatProperties
<1> QED
  BY <1>4, Zenon DEF IsSeq

LEMMA SeqAppend ==
  ASSUME NEW s, NEW w, IsSeq(s)
  PROVE  /\ IsSeq(Append(s, w))
         /\ Len(Append(s, w)) = Len(s) + 1
         /\ \A i \in 1 .. Len(s) : Append(s, w)[i] = s[i]
         /\ Append(s, w)[Len(s) + 1] = w
<1>1. PICK S : s \in Seq(S)
  BY DEF IsSeq
<1> DEFINE U == S \cup {w}
<1>2. s \in Seq(U) /\ w \in U
  BY <1>1, SeqMonotonic
<1> HIDE DEF U
<1>3. /\ Append(s, w) \in Seq(U)
      /\ Len(Append(s, w)) = Len(s) + 1
      /\ \A i \in 1 .. Len(s) : Append(s, w)[i] = s[i]
      /\ Append(s, w)[Len(s) + 1] = w
  BY <1>2, AppendProperties
<1> QED
  BY <1>3, Zenon DEF IsSeq

LEMMA SeqPrefix ==
  ASSUME NEW s, IsSeq(s), NEW n \in 0 .. Len(s)
  PROVE  /\ IsSeq(SubSeq(s, 1, n))
         /\ Len(SubSeq(s, 1, n)) = n
         /\ \A i \in 1 .. n : SubSeq(s, 1, n)[i] = s[i]
<1>1. PICK S : s \in Seq(S)
  BY DEF IsSeq
<1>2. \A i \in 1 .. n : s[i] \in S
  BY <1>1, ElementOfSeq, LenProperties
<1>3. /\ SubSeq(s, 1, n) \in Seq(S)
      /\ Len(SubSeq(s, 1, n)) = IF 1 <= n THEN n - 1 + 1 ELSE 0
      /\ \A i \in 1 .. n - 1 + 1 : SubSeq(s, 1, n)[i] = s[1 + i - 1]
  <2>1. n \in Int /\ 1 \in Int
    BY <1>1, LenProperties
  <2> QED
    BY <1>2, <2>1, SubSeqProperties
<1>4. n \in Nat
  BY <1>1, LenProperties
<1>5. Len(SubSeq(s, 1, n)) = n /\ \A i \in 1 .. n : SubSeq(s, 1, n)[i] = s[i]
  BY <1>3, <1>4
<1> QED
  BY <1>3, <1>5, Zenon DEF IsSeq

(* Words are pushed and popped one after the other. *)
LEMMA Grow ==
  ASSUME NEW base, NEW words, NEW n \in Nat, NEW s, NEW w,
         IsSeq(base), On(base, words, n, s), w = words[n + 1]
  PROVE  On(base, words, n + 1, Append(s, w))
<1>1. Len(base) \in Nat /\ Len(s) = Len(base) + n /\ IsSeq(s)
  BY SeqLength DEF On
<1>2. /\ IsSeq(Append(s, w))
      /\ Len(Append(s, w)) = Len(s) + 1
      /\ \A i \in 1 .. Len(s) : Append(s, w)[i] = s[i]
      /\ Append(s, w)[Len(s) + 1] = w
  BY <1>1, SeqAppend
<1>3. \A i \in 1 .. Len(base) : Append(s, w)[i] = base[i]
  BY <1>1, <1>2 DEF On
<1>4. ASSUME NEW i \in 1 .. n + 1
      PROVE  Append(s, w)[Len(base) + i] = words[i]
  <2>1. CASE i = n + 1
    BY <1>1, <1>2, <2>1
  <2>2. CASE i # n + 1
    <3>1. i \in 1 .. n /\ Len(base) + i \in 1 .. Len(s)
      BY <1>1, <2>2
    <3> QED
      BY <1>2, <3>1 DEF On
  <2> QED
    BY <2>1, <2>2
<1>5. Len(Append(s, w)) = Len(base) + (n + 1)
  BY <1>1, <1>2
<1> QED
  BY <1>2, <1>3, <1>4, <1>5, Zenon DEF On

LEMMA Shrink ==
  ASSUME NEW base, NEW words, NEW n \in Nat, NEW s, NEW k \in 0 .. n,
         IsSeq(base), On(base, words, n, s)
  PROVE  On(base, words, n - k, SubSeq(s, 1, Len(s) - k))
<1>1. Len(base) \in Nat /\ Len(s) = Len(base) + n /\ IsSeq(s) /\ Len(s) - k \in 0 .. Len(s)
  BY SeqLength DEF On
<1> DEFINE m == Len(s) - k
           t == SubSeq(s, 1, m)
<1>2. m \in 0 .. Len(s) /\ m = Len(base) + (n - k)
  BY <1>1
<1> HIDE DEF m
<1>3. /\ IsSeq(t)
      /\ Len(t) = m
      /\ \A i \in 1 .. m : t[i] = s[i]
  BY <1>1, <1>2, SeqPrefix
<1> HIDE DEF t
<1>4. \A i \in 1 .. Len(base) : t[i] = base[i]
  BY <1>1, <1>2, <1>3 DEF On
<1>5. \A i \in 1 .. n - k : t[Len(base) + i] = words[i]
  BY <1>1, <1>2, <1>3 DEF On
<1>6. On(base, words, n - k, t)
  BY <1>1, <1>2, <1>3, <1>4, <1>5 DEF On
<1> QED
  BY <1>6 DEF t, m

LEMMA Top ==
  ASSUME NEW base, NEW words, NEW n \in Nat, NEW s, NEW k \in 0 .. n - 1,
         IsSeq(base), On(base, words, n, s)
  PROVE  s[Len(s) - k] = words[n - k]
BY SeqLength DEF On

LEMMA Base ==
  ASSUME NEW base, NEW words, NEW s, IsSeq(base), On(base, words, 0, s)
  PROVE  s = base
<1>1. Len(base) \in Nat
  BY SeqLength
<1> QED
  BY <1>1, SeqSame DEF On

(* The word on top is exchanged. *)
LEMMA Changed ==
  ASSUME NEW base, NEW words, NEW other, NEW n \in Nat, NEW s,
         IsSeq(base), On(base, words, n + 1, s),
         \A i \in 1 .. n : other[i] = words[i]
  PROVE  On(base, other, n + 1, [s EXCEPT ![Len(s)] = other[n + 1]])
<1> DEFINE slot == Len(s)
           w == other[n + 1]
           t == [s EXCEPT ![slot] = w]
<1>1. Len(base) \in Nat /\ Len(s) = Len(base) + (n + 1) /\ IsSeq(s)
  BY SeqLength DEF On
<1>2. slot \in 1 .. Len(s) /\ slot = Len(s)
  BY <1>1
<1> HIDE DEF slot, w
<1>3. IsSeq(t) /\ Len(t) = Len(s) /\ \A i \in 1 .. Len(s) : t[i] = IF i = slot THEN w ELSE s[i]
  <2>1. PICK S : s \in Seq(S)
    BY <1>1 DEF IsSeq
  <2> DEFINE U == S \cup {w}
  <2>2. s \in Seq(U) /\ w \in U
    BY <2>1, SeqMonotonic
  <2> HIDE DEF U
  <2>3. t \in Seq(U) /\ Len(t) = Len(s) /\ \A i \in 1 .. Len(s) : t[i] = IF i = slot THEN w ELSE s[i]
    BY <1>2, <2>2, ExceptSeq
  <2> QED
    BY <2>3, Zenon DEF IsSeq
<1> HIDE DEF t
<1>4. \A i \in 1 .. Len(base) : t[i] = base[i]
  BY <1>1, <1>2, <1>3 DEF On
<1> USE DEF w
<1>5. ASSUME NEW i \in 1 .. n + 1
      PROVE  t[Len(base) + i] = other[i]
  <2>1. Len(base) + i \in 1 .. Len(s)
    BY <1>1
  <2>2. CASE i = n + 1
    <3>1. Len(base) + i = slot
      BY <1>1, <1>2, <2>2
    <3> QED
      BY <1>3, <2>1, <2>2, <3>1
  <2>3. CASE i # n + 1
    <3>1. i \in 1 .. n /\ Len(base) + i # slot
      BY <1>1, <1>2, <2>3
    <3>2. s[Len(base) + i] = words[i]
      BY DEF On
    <3> QED
      BY <1>3, <2>1, <3>1, <3>2
  <2> QED
    BY <2>2, <2>3
<1>6. On(base, other, n + 1, t)
  BY <1>1, <1>3, <1>4, <1>5 DEF On
<1> QED
  BY <1>6 DEF t, slot

-----------------------------------------------------------------------------
(* What the program counter, registers and stack of an interrupted program *)
(* are, in terms of the frame f that it got when it was entered.           *)

Entered == Vector \ ErrorVectors

Segmented(r) == r = [x \in Register |-> r[x]] /\ \A x \in Segment : r[x] = KernelData

(* All but some general registers are as they were. *)
Kept(f, r, changed) == Segmented(r) /\ \A x \in General \ changed : r[x] = f.regs[x]

(* The first d of the words are on the stack, and the registers are kept. *)
Holds(f, words, d, changed, r, s) == On(f.stack, words, d, s) /\ Kept(f, r, changed)

(* An exception or an NMI: what the stub puts onto the stack, from the     *)
(* words of the processor to the address that the handler returns to.      *)
TrapWords(f) ==
  << <<"flags", f.iflag>>, <<"selector", 8>>, f.pc, f.regs["eax"], f.regs["ebx"],
     f.regs["ecx"], f.regs["edx"], f.regs["esi"], f.regs["edi"], f.regs["ebp"],
     f.regs["ds"], f.regs["es"], f.regs["fs"], <<"imm", 0>>,
     <<"address", Len(f.stack) + 3>>, <<"stub", f.vector, 20>> >>

Code(f) == <<"code", TrapHandler(f.vector), 1>>

(* The address of the handler is where eax will be. *)
TrapEntry(f) == [TrapWords(f) EXCEPT ![4] = Code(f)]

(* How many of them there are at each instruction. *)
TrapDepth(n) ==
  CASE n = 1        -> 3
    [] n = 2        -> 4
    [] n \in 3 .. 12  -> n + 1
    [] n \in 13 .. 14 -> 14
    [] n \in 15 .. 20 -> 15
    [] OTHER        -> 34 - n

TrapChanged(n) ==
  CASE n \in 1 .. 2   -> {}
    [] n \in 3 .. 13  -> {"eax"}
    [] n \in 14 .. 19 -> {"eax", "edx"}
    [] n \in 20 .. 27 -> {"eax", "ecx", "edx"}
    [] n = 28       -> {"eax", "ecx"}
    [] n \in 29 .. 30 -> {"eax"}
    [] OTHER        -> {}

TrapStub(f, n, r, s) ==
  /\ n \in 1 .. 31
  /\ Holds(f, IF n = 2 THEN TrapEntry(f) ELSE TrapWords(f), TrapDepth(n), TrapChanged(n), r, s)
  /\ n \in 3 .. 19 => r["eax"] = Code(f)
  /\ n = 14 => r["edx"] = <<"address", Len(f.stack) + 3>>
  /\ n \in 16 .. 18 => r["edx"] = KernelData

Trapped(f, r, p, s) ==
  \/ \E n \in 1 .. 31 : p = <<"stub", f.vector, n>> /\ TrapStub(f, n, r, s)
  \/ \E k \in 1 .. 2 :
       /\ p = <<"code", TrapHandler(f.vector), k>>
       /\ Holds(f, TrapWords(f), 16, {"eax", "ecx", "edx"}, r, s)

(* An interrupt that is handled: the same, around the call of its handler. *)
Order == <<"eax", "ecx", "edx", "ebx", "esp", "ebp", "esi", "edi", "ds", "es", "fs", "gs">>

DeviceWords(f) ==
  << <<"flags", f.iflag>>, <<"selector", 8>>, f.pc, f.regs["eax"], f.regs["ecx"],
     f.regs["edx"], f.regs["ebx"], <<"esp">>, f.regs["ebp"], f.regs["esi"],
     f.regs["edi"], f.regs["ds"], f.regs["es"], f.regs["fs"], f.regs["gs"],
     IF f.vector = 32 THEN <<"address", Len(f.stack) + 15>> ELSE <<"stub", f.vector, 19>>,
     <<"stub", f.vector, 21>> >>

(* The first instruction that restores something. *)
Restores(v) == IF v = 32 THEN 22 ELSE 19

DeviceDepth(v, n) ==
  IF n < 13 THEN n + 2
  ELSE IF n >= Restores(v) THEN Restores(v) + 15 - n
  ELSE IF n >= 20 THEN 16
  ELSE 15

DeviceChanged(v, n) ==
  IF n <= 13 THEN {}
  ELSE IF n <= Restores(v) + 9 THEN {"eax", "ecx", "edx"}
  ELSE IF n = Restores(v) + 10 THEN {"eax", "ecx"}
  ELSE IF n = Restores(v) + 11 THEN {"eax"}
  ELSE {}

DeviceStub(f, n, r, s) ==
  /\ n \in 1 .. Restores(f.vector) + 12
  /\ Holds(f, DeviceWords(f), DeviceDepth(f.vector, n), DeviceChanged(f.vector, n), r, s)
  /\ n \in 14 .. 17 => r["eax"] = KernelData
  /\ f.vector = 32 /\ n = 19 => r["eax"] = <<"address", Len(f.stack) + 15>>

DeviceHandler(v) ==
  CASE v = 32 -> "handle_timer" [] v = 33 -> "handle_keyboard" [] OTHER -> "handle_mouse"

Served(f, r, p, s) ==
  \/ \E n \in 1 .. Restores(f.vector) + 12 : p = <<"stub", f.vector, n>> /\ DeviceStub(f, n, r, s)
  \/ \E k \in 1 .. 2 :
       /\ p = <<"code", DeviceHandler(f.vector), k>>
       /\ Holds(f, DeviceWords(f), IF f.vector = 32 THEN 17 ELSE 16, {"eax", "ecx", "edx"}, r, s)

-----------------------------------------------------------------------------
(* The instructions of the stub of an exception. *)
LEMMA TrapInstructions ==
  ASSUME NEW v \in Entered, v < 32
  PROVE  /\ Stub[v][1] = <<"pushi", <<"code", TrapHandler(v), 1>>>>
         /\ Stub[v][2] = <<"exchange", "eax", 0>>
         /\ \A k \in 1 .. 9 : Stub[v][2 + k] = <<"push", Saved[k]>>
         /\ Stub[v][12] = <<"pushi", <<"imm", 0>>>>
         /\ Stub[v][13] = <<"lea", 11, "edx">>
         /\ Stub[v][14] = <<"push", "edx">>
         /\ Stub[v][15] = <<"load", "edx", KernelData>>
         /\ Stub[v][16] = <<"move", "edx", "ds">>
         /\ Stub[v][17] = <<"move", "edx", "es">>
         /\ Stub[v][18] = <<"move", "edx", "fs">>
         /\ Stub[v][19] = <<"callr", "eax">>
         /\ Stub[v][20] = <<"drop", 2>>
         /\ \A k \in 1 .. 10 : Stub[v][20 + k] = <<"pop", Restored[k]>>
         /\ Stub[v][31] = <<"iret">>
<1>1. Stub[v] = <<<<"pushi", <<"code", TrapHandler(v), 1>>>>>> \o no_error_code
  <2>1. v \in Vector /\ v \notin ErrorStubs
    BY DEF Entered, ErrorVectors, ErrorStubs
  <2> QED
    BY <2>1 DEF Stub, Excep
<1> DEFINE code == <<"code", TrapHandler(v), 1>>
<1> HIDE DEF code
<1>2. Stub[v] = <<<<"pushi", code>>>> \o no_error_code
  BY <1>1 DEF code
<1> USE <1>2 DEF no_error_code, Push, Pop, Saved, Restored, LoadSegments
<1>3. /\ Stub[v][1] = <<"pushi", code>>
      /\ Stub[v][2] = <<"exchange", "eax", 0>>
  OBVIOUS
<1>4. \A k \in 1 .. 9 : Stub[v][2 + k] = <<"push", Saved[k]>>
  <2>1. /\ Stub[v][3] = <<"push", Saved[1]>> /\ Stub[v][4] = <<"push", Saved[2]>>
        /\ Stub[v][5] = <<"push", Saved[3]>> /\ Stub[v][6] = <<"push", Saved[4]>>
        /\ Stub[v][7] = <<"push", Saved[5]>> /\ Stub[v][8] = <<"push", Saved[6]>>
        /\ Stub[v][9] = <<"push", Saved[7]>> /\ Stub[v][10] = <<"push", Saved[8]>>
        /\ Stub[v][11] = <<"push", Saved[9]>>
    OBVIOUS
  <2> HIDE <1>2 DEF no_error_code, Push, Pop, Saved, Restored, LoadSegments
  <2> QED
    BY <2>1
<1>5. /\ Stub[v][12] = <<"pushi", <<"imm", 0>>>>
      /\ Stub[v][13] = <<"lea", 11, "edx">>
      /\ Stub[v][14] = <<"push", "edx">>
  OBVIOUS
<1>6. /\ Stub[v][15] = <<"load", "edx", KernelData>>
      /\ Stub[v][16] = <<"move", "edx", "ds">>
      /\ Stub[v][17] = <<"move", "edx", "es">>
      /\ Stub[v][18] = <<"move", "edx", "fs">>
  OBVIOUS
<1>7. /\ Stub[v][19] = <<"callr", "eax">>
      /\ Stub[v][20] = <<"drop", 2>>
      /\ Stub[v][31] = <<"iret">>
  OBVIOUS
<1>8. \A k \in 1 .. 10 : Stub[v][20 + k] = <<"pop", Restored[k]>>
  <2>1. /\ Stub[v][21] = <<"pop", Restored[1]>> /\ Stub[v][22] = <<"pop", Restored[2]>>
        /\ Stub[v][23] = <<"pop", Restored[3]>> /\ Stub[v][24] = <<"pop", Restored[4]>>
        /\ Stub[v][25] = <<"pop", Restored[5]>> /\ Stub[v][26] = <<"pop", Restored[6]>>
        /\ Stub[v][27] = <<"pop", Restored[7]>> /\ Stub[v][28] = <<"pop", Restored[8]>>
        /\ Stub[v][29] = <<"pop", Restored[9]>> /\ Stub[v][30] = <<"pop", Restored[10]>>
    OBVIOUS
  <2> HIDE <1>2 DEF no_error_code, Push, Pop, Saved, Restored, LoadSegments
  <2> QED
    BY <2>1
<1> QED
  BY <1>3, <1>4, <1>5, <1>6, <1>7, <1>8 DEF code


(* And of the stub of a device. *)
LEMMA DeviceInstructions ==
  ASSUME NEW v \in Handled
  PROVE  /\ \A k \in 1 .. 12 :
              Stub[v][k] = IF k = 5 THEN <<"pushi", <<"esp">>>> ELSE <<"push", Order[k]>>
         /\ Stub[v][13] = <<"load", "eax", KernelData>>
         /\ \A k \in 14 .. 17 : \E x \in Segment : Stub[v][k] = <<"move", "eax", x>>
         /\ v = 32 => /\ Stub[v][18] = <<"lea", 0, "eax">>
                      /\ Stub[v][19] = <<"push", "eax">>
                      /\ Stub[v][20] = <<"call", "handle_timer">>
                      /\ Stub[v][21] = <<"drop", 1>>
         /\ v # 32 => Stub[v][18] = <<"call", DeviceHandler(v)>>
         /\ \A k \in 0 .. 11 :
              Stub[v][Restores(v) + k] =
                IF k = 7 THEN <<"drop", 1>>
                ELSE <<"pop", IF v # 32 /\ k = 3 THEN "fs" ELSE Order[12 - k]>>
         /\ Stub[v][Restores(v) + 12] = <<"iret">>
<1> DEFINE code == Stub[v]
<1>1. v \in Vector /\ v >= 32
  BY DEF Handled, Vector
<1>2. CASE v = 32
  <2>1. code = intr_timer
    BY <1>1, <1>2 DEF Stub
  <2> HIDE DEF code
  <2> USE <2>1 DEF intr_timer, SaveAll, Pushal, Popal, Push, Pop, LoadSegments
  <2>2. /\ code[1] = <<"push", "eax">> /\ code[2] = <<"push", "ecx">> /\ code[3] = <<"push", "edx">>
        /\ code[4] = <<"push", "ebx">> /\ code[5] = <<"pushi", <<"esp">>>>
        /\ code[6] = <<"push", "ebp">> /\ code[7] = <<"push", "esi">> /\ code[8] = <<"push", "edi">>
        /\ code[9] = <<"push", "ds">> /\ code[10] = <<"push", "es">> /\ code[11] = <<"push", "fs">>
        /\ code[12] = <<"push", "gs">>
    OBVIOUS
  <2>3. /\ code[13] = <<"load", "eax", KernelData>> /\ code[14] = <<"move", "eax", "ds">>
        /\ code[15] = <<"move", "eax", "es">> /\ code[16] = <<"move", "eax", "fs">>
        /\ code[17] = <<"move", "eax", "gs">> /\ code[18] = <<"lea", 0, "eax">>
        /\ code[19] = <<"push", "eax">> /\ code[20] = <<"call", "handle_timer">>
        /\ code[21] = <<"drop", 1>>
    OBVIOUS
  <2>4. /\ code[22] = <<"pop", "gs">> /\ code[23] = <<"pop", "fs">> /\ code[24] = <<"pop", "es">>
        /\ code[25] = <<"pop", "ds">> /\ code[26] = <<"pop", "edi">> /\ code[27] = <<"pop", "esi">>
        /\ code[28] = <<"pop", "ebp">> /\ code[29] = <<"drop", 1>> /\ code[30] = <<"pop", "ebx">>
        /\ code[31] = <<"pop", "edx">> /\ code[32] = <<"pop", "ecx">> /\ code[33] = <<"pop", "eax">>
        /\ code[34] = <<"iret">>
    OBVIOUS
  <2> HIDE <2>1 DEF intr_timer, SaveAll, Pushal, Popal, Push, Pop, LoadSegments
  <2>5. \A k \in 1 .. 12 :
          code[k] = IF k = 5 THEN <<"pushi", <<"esp">>>> ELSE <<"push", Order[k]>>
    BY <2>2, SMTT(30) DEF Order
  <2>6. \A k \in 14 .. 17 : \E x \in Segment : code[k] = <<"move", "eax", x>>
    BY <2>3 DEF Segment
  <2>7. \A k \in 0 .. 11 :
          code[Restores(v) + k] = IF k = 7 THEN <<"drop", 1>>
                                  ELSE <<"pop", IF v # 32 /\ k = 3 THEN "fs" ELSE Order[12 - k]>>
    BY <1>2, <2>4, SMTT(30) DEF Order, Restores
  <2>8. code[Restores(v) + 12] = <<"iret">>
    BY <1>2, <2>4 DEF Restores
  <2> QED
    BY <1>2, <2>3, <2>5, <2>6, <2>7, <2>8 DEF code
<1>3. CASE v # 32
  <2> DEFINE handler == DeviceHandler(v)
  <2>1. code = intr_device(handler)
    BY <1>1, <1>3 DEF Stub, Handled, DeviceHandler
  <2> HIDE DEF code, handler
  <2> USE <2>1 DEF intr_device, SaveAll, Pushal, Popal, Push, Pop, LoadSegments
  <2>2. /\ code[1] = <<"push", "eax">> /\ code[2] = <<"push", "ecx">> /\ code[3] = <<"push", "edx">>
        /\ code[4] = <<"push", "ebx">> /\ code[5] = <<"pushi", <<"esp">>>>
        /\ code[6] = <<"push", "ebp">> /\ code[7] = <<"push", "esi">> /\ code[8] = <<"push", "edi">>
        /\ code[9] = <<"push", "ds">> /\ code[10] = <<"push", "es">> /\ code[11] = <<"push", "fs">>
        /\ code[12] = <<"push", "gs">>
    OBVIOUS
  <2>3. /\ code[13] = <<"load", "eax", KernelData>> /\ code[14] = <<"move", "eax", "ds">>
        /\ code[15] = <<"move", "eax", "es">> /\ code[16] = <<"move", "eax", "fs">>
        /\ code[17] = <<"move", "eax", "gs">> /\ code[18] = <<"call", handler>>
    OBVIOUS
  <2>4. /\ code[19] = <<"pop", "gs">> /\ code[20] = <<"pop", "fs">> /\ code[21] = <<"pop", "es">>
        /\ code[22] = <<"pop", "fs">> /\ code[23] = <<"pop", "edi">> /\ code[24] = <<"pop", "esi">>
        /\ code[25] = <<"pop", "ebp">> /\ code[26] = <<"drop", 1>> /\ code[27] = <<"pop", "ebx">>
        /\ code[28] = <<"pop", "edx">> /\ code[29] = <<"pop", "ecx">> /\ code[30] = <<"pop", "eax">>
        /\ code[31] = <<"iret">>
    OBVIOUS
  <2> HIDE <2>1 DEF intr_device, SaveAll, Pushal, Popal, Push, Pop, LoadSegments
  <2>5. \A k \in 1 .. 12 :
          code[k] = IF k = 5 THEN <<"pushi", <<"esp">>>> ELSE <<"push", Order[k]>>
    BY <2>2, SMTT(30) DEF Order
  <2>6. \A k \in 14 .. 17 : \E x \in Segment : code[k] = <<"move", "eax", x>>
    BY <2>3 DEF Segment
  <2>7. \A k \in 0 .. 11 :
          code[Restores(v) + k] = IF k = 7 THEN <<"drop", 1>>
                                  ELSE <<"pop", IF v # 32 /\ k = 3 THEN "fs" ELSE Order[12 - k]>>
    BY <1>3, <2>4, SMTT(30) DEF Order, Restores
  <2>8. code[Restores(v) + 12] = <<"iret">>
    BY <1>3, <2>4 DEF Restores
  <2> QED
    BY <1>3, <2>3, <2>5, <2>6, <2>7, <2>8 DEF code, handler
<1> QED
  BY <1>2, <1>3

-----------------------------------------------------------------------------
(* What the instructions do. *)

(* The handlers of exceptions are none of the other functions. *)
LEMMA HandlerNames ==
  \A h \in TrapHandlers :
    h \notin {"main", "halt", "handle_unhandled", "handle_timer", "handle_keyboard", "handle_mouse"}
BY DEF TrapHandlers, TrapHandler

Does(i, v, n) ==
  /\ isr' = isr
  /\ i[1] # "iret" => UNCHANGED <<iflag, nmi, frames>>
  /\ i[1] \in {"push", "pushi", "drop", "lea", "load", "move", "exchange", "pop"} =>
       pc' = <<"stub", v, n + 1>>
  /\ i[1] \in {"push", "pushi", "drop", "call", "callr", "iret"} => regs' = regs
  /\ i[1] \in {"lea", "load", "move"} => stack' = stack
  /\ i[1] = "push" => stack' = Append(stack, regs[i[2]])
  /\ i[1] = "pushi" => stack' = Append(stack, i[2])
  /\ i[1] = "drop" => stack' = SubSeq(stack, 1, Len(stack) - i[2])
  /\ i[1] = "lea" => regs' = [regs EXCEPT ![i[3]] = <<"address", Len(stack) - i[2]>>]
  /\ i[1] = "load" => regs' = [regs EXCEPT ![i[2]] = i[3]]
  /\ i[1] = "move" => regs' = [regs EXCEPT ![i[3]] = regs[i[2]]]
  /\ i[1] = "exchange" =>
       /\ regs' = [regs EXCEPT ![i[2]] = stack[Len(stack) - i[3]]]
       /\ stack' = [stack EXCEPT ![Len(stack) - i[3]] = regs[i[2]]]
  /\ i[1] = "pop" =>
       /\ regs' = [regs EXCEPT ![i[2]] = stack[Len(stack)]]
       /\ stack' = SubSeq(stack, 1, Len(stack) - 1)
  /\ i[1] = "call" => pc' = <<"code", i[2], 1>>
  /\ i[1] = "callr" => pc' = regs[i[2]]
  /\ i[1] \in {"call", "callr"} => stack' = Append(stack, <<"stub", v, n + 1>>)
  /\ i[1] = "iret" =>
       /\ pc' = stack[Len(stack)]
       /\ iflag' = (stack[Len(stack) - 2] = <<"flags", TRUE>>)
       /\ stack' = SubSeq(stack, 1, Len(stack) - 3)
       /\ frames' = Front(frames)

LEMMA StubStep ==
  ASSUME NEW v, NEW n \in Nat, pc = <<"stub", v, n>>, Processor
  PROVE  Does(Stub[v][n], v, n)
<1> DEFINE i == Stub[v][n]
<1>1. After = <<"stub", v, n + 1>> /\ Instruction = i /\ pc[1] = "stub"
  BY DEF After, Instruction
<1>2. Write \/ Load \/ Exchange \/ PopRegister \/ Call \/ Iret
  BY <1>1 DEF Processor, Int3, SetFlag, AtMain, Trap, Device, Ret, handle_unhandled, halt, In
<1> HIDE DEF i
<1> SUFFICES Does(i, v, n)
  BY DEF i
<1> USE DEF Does
<1>3. CASE Write
  BY <1>1, <1>3 DEF Write, At, Without
<1>4. CASE Load
  BY <1>1, <1>4 DEF Load, At
<1>5. CASE Exchange
  BY <1>1, <1>5 DEF Exchange, At
<1>6. CASE PopRegister
  BY <1>1, <1>6 DEF PopRegister, At, Without, Last
<1>7. CASE Call
  BY <1>1, <1>7 DEF Call, At
<1>8. CASE Iret
  BY <1>1, <1>8 DEF Iret, At, Without, Last
<1> HIDE DEF Does
<1> QED
  BY <1>2, <1>3, <1>4, <1>5, <1>6, <1>7, <1>8

LEMMA CodeStep ==
  ASSUME NEW h, NEW k \in 1 .. 2, pc = <<"code", h, k>>, Processor,
         h \in TrapHandlers \cup {"handle_timer", "handle_keyboard", "handle_mouse"}
  PROVE  /\ UNCHANGED <<iflag, nmi, frames>>
         /\ k = 1 => pc' = <<"code", h, 2>> /\ stack' = stack /\ regs' = Clobbered
         /\ k = 2 => pc' = stack[Len(stack)] /\ regs' = regs
                     /\ stack' = SubSeq(stack, 1, Len(stack) - 1)
         /\ h \in TrapHandlers \/ k = 2 => isr' = isr
         /\ h = "handle_timer" /\ k = 1 => isr' = send_EOI(32)
         /\ h = "handle_keyboard" /\ k = 1 => isr' = send_EOI(33)
         /\ h = "handle_mouse" /\ k = 1 => isr' = send_EOI(44)
<1>1. After = <<"code", h, k + 1>> /\ pc[1] = "code" /\ pc[2] = h /\ pc[3] = k
  BY DEF After
<1>2. h \notin {"main", "halt", "handle_unhandled"}
  BY HandlerNames
<1> HIDE DEF After
<1>3. Trap \/ Device \/ Ret
  BY <1>1, <1>2 DEF Processor, Int3, SetFlag, AtMain, Write, Load, Exchange, PopRegister, Call,
                    Iret, At, handle_unhandled, halt, In
<1>4. CASE Trap
  BY <1>1, <1>4, HandlerNames DEF Trap, In
<1>5. CASE Device
  BY <1>1, <1>5, HandlerNames DEF Device, In
<1>6. CASE Ret
  BY <1>1, <1>6 DEF Ret, Without, Last
<1> QED
  BY <1>3, <1>4, <1>5, <1>6

-----------------------------------------------------------------------------
(* Frames that the processor makes. *)
Frame(f) ==
  /\ f.vector \in Entered
  /\ f.iflag \in BOOLEAN
  /\ Segmented(f.regs)
  /\ IsSeq(f.stack)

LEMMA Flags ==
  ASSUME NEW w, NEW b \in BOOLEAN, NEW c, w = <<"flags", b>>, c = (w = <<"flags", TRUE>>)
  PROVE  c = b
<1>1. CASE b = TRUE
  BY <1>1
<1>2. CASE b = FALSE
  <2>1. w # <<"flags", TRUE>>
    BY <1>2
  <2> QED
    BY <1>2, <2>1
<1> QED
  BY <1>1, <1>2

Local == UNCHANGED <<iflag, nmi, frames, isr>>

LEMMA Weaker ==
  ASSUME NEW f, NEW words, NEW d, NEW c, NEW e, NEW r, NEW s,
         Holds(f, words, d, c, r, s), c \cap General \subseteq e
  PROVE  Holds(f, words, d, e, r, s)
BY DEF Holds, Kept

(* What an instruction of a stub does to what it has saved. *)
LEMMA Pushing ==
  ASSUME NEW f, Frame(f), NEW words, NEW d \in Nat, NEW c, NEW v, NEW n, NEW i,
         Does(i, v, n), Holds(f, words, d, c, regs, stack),
         \/ \E x \in Register : i = <<"push", x>> /\ regs[x] = words[d + 1]
         \/ i = <<"pushi", words[d + 1]>>
  PROVE  /\ Holds(f, words, d + 1, c, regs', stack')
         /\ regs' = regs /\ pc' = <<"stub", v, n + 1>> /\ Local
<1>1. /\ regs' = regs /\ pc' = <<"stub", v, n + 1>> /\ Local
      /\ stack' = Append(stack, words[d + 1])
  <2>1. CASE \E x \in Register : i = <<"push", x>> /\ regs[x] = words[d + 1]
    <3>1. PICK x \in Register : i = <<"push", x>> /\ regs[x] = words[d + 1]
      BY <2>1
    <3> QED
      BY <3>1 DEF Does, Local
  <2>2. CASE i = <<"pushi", words[d + 1]>>
    BY <2>2 DEF Does, Local
  <2> QED
    BY <2>1, <2>2
<1>2. IsSeq(f.stack) /\ On(f.stack, words, d, stack) /\ Kept(f, regs, c)
  BY DEF Frame, Holds
<1>3. On(f.stack, words, d + 1, stack')
  BY <1>1, <1>2, Grow
<1>4. Kept(f, regs', c)
  BY <1>1, <1>2 DEF Kept, Segmented
<1> QED
  BY <1>1, <1>3, <1>4 DEF Holds

LEMMA Dropping ==
  ASSUME NEW f, Frame(f), NEW words, NEW d \in Nat, NEW c, NEW v, NEW n, NEW k \in 0 .. d,
         Does(<<"drop", k>>, v, n), Holds(f, words, d, c, regs, stack)
  PROVE  /\ Holds(f, words, d - k, c, regs', stack')
         /\ regs' = regs /\ pc' = <<"stub", v, n + 1>> /\ Local
<1>1. /\ regs' = regs /\ pc' = <<"stub", v, n + 1>> /\ Local
      /\ stack' = SubSeq(stack, 1, Len(stack) - k)
  BY DEF Does, Local
<1>2. IsSeq(f.stack) /\ On(f.stack, words, d, stack) /\ Kept(f, regs, c)
  BY DEF Frame, Holds
<1>3. On(f.stack, words, d - k, stack')
  BY <1>1, <1>2, Shrink
<1>4. Kept(f, regs', c)
  BY <1>1, <1>2 DEF Kept, Segmented
<1> QED
  BY <1>1, <1>3, <1>4 DEF Holds

LEMMA Popping ==
  ASSUME NEW f, Frame(f), NEW words, NEW d \in Nat, d > 0, NEW c, NEW v, NEW n,
         NEW x \in Register, Does(<<"pop", x>>, v, n), Holds(f, words, d, c, regs, stack),
         words[d] = f.regs[x]
  PROVE  Holds(f, words, d - 1, c \ {x}, regs', stack') /\ pc' = <<"stub", v, n + 1>> /\ Local
<1>1. /\ regs' = [regs EXCEPT ![x] = stack[Len(stack)]] /\ pc' = <<"stub", v, n + 1>> /\ Local
      /\ stack' = SubSeq(stack, 1, Len(stack) - 1)
  BY DEF Does, Local
<1>2. IsSeq(f.stack) /\ On(f.stack, words, d, stack) /\ Kept(f, regs, c) /\ Segmented(f.regs)
  BY DEF Frame, Holds
<1>3. 1 \in 0 .. d
  OBVIOUS
<1>4. On(f.stack, words, d - 1, stack')
  BY <1>1, <1>2, <1>3, Shrink
<1>5. stack[Len(stack)] = f.regs[x]
  <2>1. d \in 1 .. d /\ Len(stack) = Len(f.stack) + d
    BY <1>2 DEF On
  <2>2. stack[Len(f.stack) + d] = words[d]
    BY <1>2, <2>1 DEF On
  <2> QED
    BY <2>1, <2>2
<1>6. Kept(f, regs', c \ {x})
  BY <1>1, <1>2, <1>5 DEF Kept, Segmented, Register
<1> QED
  BY <1>1, <1>4, <1>6 DEF Holds

(* Loading a register, or a segment register with the kernel's selector. *)
LEMMA Loading ==
  ASSUME NEW f, Frame(f), NEW words, NEW d, NEW c, NEW v, NEW n, NEW i, NEW x, NEW w,
         Does(i, v, n), Holds(f, words, d, c, regs, stack),
         \/ i = <<"load", x, w>>
         \/ \E y \in Register : i = <<"move", y, x>> /\ regs[y] = w
         \/ \E k \in Nat : i = <<"lea", k, x>> /\ w = <<"address", Len(stack) - k>>,
         \/ x \in Segment /\ w = KernelData
         \/ x \in General
  PROVE  /\ Holds(f, words, d, c \cup {x}, regs', stack')
         /\ regs' = [regs EXCEPT ![x] = w] /\ pc' = <<"stub", v, n + 1>> /\ Local
<1>1. /\ regs' = [regs EXCEPT ![x] = w] /\ pc' = <<"stub", v, n + 1>> /\ Local
      /\ stack' = stack
  <2>1. CASE i = <<"load", x, w>>
    BY <2>1 DEF Does, Local
  <2>2. CASE \E y \in Register : i = <<"move", y, x>> /\ regs[y] = w
    <3>1. PICK y \in Register : i = <<"move", y, x>> /\ regs[y] = w
      BY <2>2
    <3> QED
      BY <3>1 DEF Does, Local
  <2>3. CASE \E k \in Nat : i = <<"lea", k, x>> /\ w = <<"address", Len(stack) - k>>
    <3>1. PICK k \in Nat : i = <<"lea", k, x>> /\ w = <<"address", Len(stack) - k>>
      BY <2>3
    <3> QED
      BY <3>1 DEF Does, Local
  <2> QED
    BY <2>1, <2>2, <2>3
<1>2. Kept(f, regs, c) /\ On(f.stack, words, d, stack)
  BY DEF Holds
<1>3. Kept(f, regs', c \cup {x})
  BY <1>1, <1>2 DEF Kept, Segmented, Register, General, Segment
<1> QED
  BY <1>1, <1>2, <1>3 DEF Holds

LEMMA Returning ==
  ASSUME NEW f, Frame(f), NEW words, NEW v, NEW n, Does(<<"iret">>, v, n),
         Holds(f, words, 3, {}, regs, stack), words[1] = <<"flags", f.iflag>>, words[3] = f.pc
  PROVE  /\ regs' = f.regs /\ pc' = f.pc /\ iflag' = f.iflag /\ stack' = f.stack
         /\ frames' = Front(frames) /\ isr' = isr
<1>1. /\ pc' = stack[Len(stack)] /\ stack' = SubSeq(stack, 1, Len(stack) - 3)
      /\ iflag' = (stack[Len(stack) - 2] = <<"flags", TRUE>>)
      /\ frames' = Front(frames) /\ regs' = regs /\ isr' = isr
  BY DEF Does
<1>2. /\ IsSeq(f.stack) /\ On(f.stack, words, 3, stack) /\ Kept(f, regs, {}) /\ Segmented(f.regs)
      /\ f.iflag \in BOOLEAN
  BY DEF Frame, Holds
<1>3. 3 \in Nat /\ 0 \in 0 .. 3 - 1 /\ 2 \in 0 .. 3 - 1 /\ 3 \in 0 .. 3
      /\ 3 - 0 = 3 /\ 3 - 2 = 1 /\ 3 - 3 = 0
  OBVIOUS
<1>4. pc' = f.pc
  <2>1. stack[Len(stack) - 0] = words[3 - 0]
    BY <1>2, <1>3, Top
  <2>2. Len(stack) - 0 = Len(stack)
    BY <1>2, SeqLength DEF On
  <2> QED
    BY <1>1, <1>3, <2>1, <2>2
<1>5. iflag' = f.iflag
  <2>1. stack[Len(stack) - 2] = words[3 - 2]
    BY <1>2, <1>3, Top
  <2> DEFINE w == stack[Len(stack) - 2]
  <2>2. w = <<"flags", f.iflag>>
    BY <1>3, <2>1
  <2>3. iflag' = (w = <<"flags", TRUE>>)
    BY <1>1
  <2> HIDE DEF w
  <2> QED
    BY <1>2, <2>2, <2>3, Flags
<1>6. stack' = f.stack
  <2>1. On(f.stack, words, 3 - 3, stack')
    BY <1>1, <1>2, <1>3, Shrink
  <2> QED
    BY <1>2, <1>3, <2>1, Base
<1>7. regs' = f.regs
  BY <1>1, <1>2 DEF Kept, Segmented, Register
<1> QED
  BY <1>1, <1>4, <1>5, <1>6, <1>7

(* What a handler does. *)
LEMMA ClobberedHolds ==
  ASSUME NEW f, NEW words, NEW d, Holds(f, words, d, {"eax", "ecx", "edx"}, regs, stack),
         regs' = Clobbered, stack' = stack
  PROVE  Holds(f, words, d, {"eax", "ecx", "edx"}, regs', stack')
BY DEF Holds, Kept, Segmented, Clobbered, Register, General, Segment

LEMMA CodeReturns ==
  ASSUME NEW f, Frame(f), NEW words, NEW d \in Nat, d > 0, NEW c, NEW h, pc = <<"code", h, 2>>,
         Processor, h \in TrapHandlers \cup {"handle_timer", "handle_keyboard", "handle_mouse"},
         Holds(f, words, d, c, regs, stack)
  PROVE  pc' = words[d] /\ Holds(f, words, d - 1, c, regs', stack')
<1>1. pc' = stack[Len(stack)] /\ regs' = regs /\ stack' = SubSeq(stack, 1, Len(stack) - 1)
  BY CodeStep
<1>2. IsSeq(f.stack) /\ On(f.stack, words, d, stack) /\ Kept(f, regs, c)
  BY DEF Frame, Holds
<1>3. stack[Len(stack)] = words[d]
  <2>1. d \in 1 .. d /\ Len(stack) = Len(f.stack) + d
    BY <1>2 DEF On
  <2>2. stack[Len(f.stack) + d] = words[d]
    BY <1>2, <2>1 DEF On
  <2> QED
    BY <2>1, <2>2
<1>4. On(f.stack, words, d - 1, stack')
  <2>1. 1 \in 0 .. d
    OBVIOUS
  <2> QED
    BY <1>1, <1>2, <2>1, Shrink
<1>5. Kept(f, regs', c)
  BY <1>1, <1>2 DEF Kept, Segmented
<1> QED
  BY <1>1, <1>3, <1>4, <1>5 DEF Holds

(* An exception's stub and handler, up to the return. *)
Returns(f) ==
  /\ regs' = f.regs /\ pc' = f.pc /\ iflag' = f.iflag /\ stack' = f.stack
  /\ frames' = Front(frames) /\ isr' = isr

LEMMA TrapStep ==
  ASSUME NEW f, Frame(f), f.vector < 32, Processor, Trapped(f, regs, pc, stack)
  PROVE  (Trapped(f, regs', pc', stack') /\ Local) \/ Returns(f)
<1> DEFINE v == f.vector
           words == TrapWords(f)
           entry == TrapEntry(f)
           code == Code(f)
           called == {"eax", "ecx", "edx"}
           next == Trapped(f, regs', pc', stack') /\ Local
<1>1. /\ v \in Entered /\ v < 32 /\ IsSeq(f.stack) /\ Len(f.stack) \in Nat
      /\ code = <<"code", TrapHandler(v), 1>>
  BY SeqLength DEF Frame, Code
<1>2. /\ words[1] = <<"flags", f.iflag>> /\ words[3] = f.pc /\ words[4] = f.regs["eax"]
      /\ \A k \in 1 .. 9 : words[4 + k] = f.regs[Saved[k]]
      /\ \A k \in 1 .. 10 : words[14 - k] = f.regs[Restored[k]]
      /\ words[14] = <<"imm", 0>> /\ words[15] = <<"address", Len(f.stack) + 3>>
      /\ words[16] = <<"stub", v, 20>>
  BY DEF TrapWords, Saved, Restored
<1>3. entry[4] = code /\ \A k \in 1 .. 3 : entry[k] = words[k]
  BY DEF TrapEntry, TrapWords
<1>4. \A n \in 1 .. 31 : TrapStub(f, n, regs', stack') /\ pc' = <<"stub", v, n>> =>
        Trapped(f, regs', pc', stack')
  BY DEF Trapped
<1>5. ASSUME NEW n \in 1 .. 31, pc = <<"stub", v, n>>, TrapStub(f, n, regs, stack)
      PROVE  /\ Does(Stub[v][n], v, n)
             /\ n # 2 => Holds(f, words, TrapDepth(n), TrapChanged(n), regs, stack)
             /\ n = 2 => Holds(f, entry, 4, {}, regs, stack)
             /\ n \in 3 .. 19 => regs["eax"] = code
             /\ n = 14 => regs["edx"] = <<"address", Len(f.stack) + 3>>
             /\ n \in 16 .. 18 => regs["edx"] = KernelData
  <2>1. Does(Stub[v][n], v, n)
    BY <1>5, StubStep
  <2>2. TrapDepth(2) = 4 /\ TrapChanged(2) = {}
    BY DEF TrapDepth, TrapChanged
  <2> QED
    BY <1>5, <2>1, <2>2 DEF TrapStub
<1> HIDE DEF v, words, entry, code
<1>6. CASE pc = <<"stub", v, 1>> /\ TrapStub(f, 1, regs, stack)
  <2>1. Does(<<"pushi", code>>, v, 1) /\ Holds(f, words, 3, {}, regs, stack)
    <3>1. Stub[v][1] = <<"pushi", code>>
      BY <1>1, TrapInstructions
    <3>2. TrapDepth(1) = 3 /\ TrapChanged(1) = {}
      BY DEF TrapDepth, TrapChanged
    <3> QED
      BY <1>5, <1>6, <3>1, <3>2
  <2>2. Holds(f, entry, 3, {}, regs, stack) /\ code = entry[3 + 1] /\ 3 \in Nat
    BY <1>3, <2>1 DEF Holds, On
  <2>3. Holds(f, entry, 3 + 1, {}, regs', stack') /\ pc' = <<"stub", v, 1 + 1>> /\ Local
    BY <2>1, <2>2, Pushing
  <2>4. TrapStub(f, 2, regs', stack')
    BY <2>3 DEF TrapStub, TrapDepth, TrapChanged, entry
  <2> QED
    BY <1>4, <2>3, <2>4
<1>7. CASE pc = <<"stub", v, 2>> /\ TrapStub(f, 2, regs, stack)
  <2>1. Does(<<"exchange", "eax", 0>>, v, 2) /\ Holds(f, entry, 4, {}, regs, stack)
    <3>1. Stub[v][2] = <<"exchange", "eax", 0>>
      BY <1>1, TrapInstructions
    <3> QED
      BY <1>5, <1>7, <3>1
  <2>2. On(f.stack, entry, 4, stack) /\ Kept(f, regs, {})
    BY <2>1 DEF Holds
  <2>3. stack[Len(stack) - 0] = code /\ Len(stack) - 0 = Len(stack)
    <3>1. stack[Len(stack) - 0] = entry[4 - 0] /\ Len(stack) = Len(f.stack) + 4
      BY <1>1, <2>2, Top DEF On
    <3> QED
      BY <1>1, <1>3, <3>1
  <2>4. /\ pc' = <<"stub", v, 3>> /\ Local
        /\ regs' = [regs EXCEPT !["eax"] = code]
        /\ stack' = [stack EXCEPT ![Len(stack)] = regs["eax"]]
    BY <2>1, <2>3 DEF Does, Local
  <2>5. On(f.stack, words, 3 + 1, stack')
    <3>1. On(f.stack, entry, 3 + 1, stack) /\ \A i \in 1 .. 3 : words[i] = entry[i]
      BY <1>3, <2>2
    <3>2. On(f.stack, words, 3 + 1, [stack EXCEPT ![Len(stack)] = words[3 + 1]])
      BY <1>1, <3>1, Changed
    <3>3. regs["eax"] = words[3 + 1]
      BY <1>2, <2>2 DEF Kept, General
    <3> QED
      BY <2>4, <3>2, <3>3
  <2>6. Kept(f, regs', {"eax"}) /\ regs'["eax"] = code
    BY <2>2, <2>4 DEF Kept, Segmented, Register, General, Segment
  <2>7. TrapStub(f, 3, regs', stack')
    BY <2>5, <2>6 DEF TrapStub, TrapDepth, TrapChanged, Holds, words, code
  <2> QED
    BY <1>4, <2>4, <2>7
(* The pushes. *)
<1>8. ASSUME NEW n \in (3 .. 12) \cup {14}, pc = <<"stub", v, n>>, TrapStub(f, n, regs, stack)
      PROVE  next
  <2> DEFINE d == TrapDepth(n)
             c == TrapChanged(n)
             i == Stub[v][n]
  <2>1. /\ Does(i, v, n) /\ Holds(f, words, d, c, regs, stack)
        /\ regs["eax"] = code
        /\ n = 14 => regs["edx"] = <<"address", Len(f.stack) + 3>>
    <3>1. n \in 1 .. 31 /\ n # 2 /\ n \in 3 .. 19
      BY <1>8
    <3> QED
      BY <1>5, <1>8, <3>1
  <2>2. /\ d \in Nat /\ TrapDepth(n + 1) = d + 1 /\ n + 1 \in 1 .. 31
        /\ TrapChanged(n + 1) = c /\ n + 1 \notin {2, 14, 16, 17, 18}
    BY <1>8 DEF TrapDepth, TrapChanged
  <2>3. \/ \E x \in Register : i = <<"push", x>> /\ regs[x] = words[d + 1]
        \/ i = <<"pushi", words[d + 1]>>
    <3>1. CASE n \in 3 .. 11
      <4> DEFINE k == n - 2
      <4>1. k \in 1 .. 9 /\ n = 2 + k /\ d + 1 = 4 + k /\ c = {"eax"}
        BY <3>1 DEF TrapDepth, TrapChanged
      <4> HIDE DEF k, d, c, i
      <4>2. Saved[k] \in Register \ {"eax"}
        BY <4>1 DEF Saved, Register, General, Segment
      <4>3. regs[Saved[k]] = f.regs[Saved[k]]
        BY <2>1, <4>1, <4>2 DEF Holds, Kept, Segmented, Frame, Register
      <4>4. words[4 + k] = f.regs[Saved[k]]
        BY <1>2, <4>1
      <4>5. i = <<"push", Saved[k]>>
        BY <1>1, <4>1, TrapInstructions DEF i
      <4> QED
        BY <4>1, <4>2, <4>3, <4>4, <4>5
    <3>2. CASE n = 12
      <4>1. Stub[v][12] = <<"pushi", words[14]>>
        BY <1>1, <1>2, TrapInstructions
      <4>2. d + 1 = 14
        BY <3>2 DEF TrapDepth
      <4> QED
        BY <3>2, <4>1, <4>2
    <3>3. CASE n = 14
      <4>1. Stub[v][14] = <<"push", "edx">>
        BY <1>1, TrapInstructions
      <4>2. regs["edx"] = words[15] /\ d + 1 = 15 /\ "edx" \in Register
        BY <1>2, <2>1, <3>3 DEF TrapDepth, Register, General
      <4> QED
        BY <3>3, <4>1, <4>2
    <3> QED
      BY <1>8, <3>1, <3>2, <3>3
  <2> HIDE DEF d, c, i
  <2>4. /\ Holds(f, words, d + 1, c, regs', stack')
        /\ regs' = regs /\ pc' = <<"stub", v, n + 1>> /\ Local
    BY <2>1, <2>2, <2>3, Pushing
  <2>5. TrapStub(f, n + 1, regs', stack')
    BY <2>1, <2>2, <2>4 DEF TrapStub, words, code
  <2> QED
    BY <1>4, <2>2, <2>4, <2>5
<1>9. CASE pc = <<"stub", v, 13>> /\ TrapStub(f, 13, regs, stack)
  <2>1. /\ Does(<<"lea", 11, "edx">>, v, 13) /\ Holds(f, words, 14, {"eax"}, regs, stack)
        /\ regs["eax"] = code
    <3>1. Stub[v][13] = <<"lea", 11, "edx">>
      BY <1>1, TrapInstructions
    <3>2. TrapDepth(13) = 14 /\ TrapChanged(13) = {"eax"}
      BY DEF TrapDepth, TrapChanged
    <3> QED
      BY <1>5, <1>9, <3>1, <3>2
  <2> DEFINE w == <<"address", Len(f.stack) + 3>>
             c == {"eax"}
             i == <<"lea", 11, "edx">>
  <2>2. w = <<"address", Len(stack) - 11>>
    BY <1>1, <2>1 DEF Holds, On
  <2> HIDE DEF w
  <2>3. /\ "edx" \in General
        /\ \E k \in Nat : i = <<"lea", k, "edx">> /\ w = <<"address", Len(stack) - k>>
    BY <2>2 DEF General
  <2>4. Does(i, v, 13) /\ Holds(f, words, 14, c, regs, stack)
    BY <2>1
  <2> HIDE DEF i, c
  <2>5. /\ Holds(f, words, 14, c \cup {"edx"}, regs', stack')
        /\ regs' = [regs EXCEPT !["edx"] = w] /\ pc' = <<"stub", v, 13 + 1>> /\ Local
    BY <2>4, <2>3, Loading
  <2>6. regs'["eax"] = code /\ regs'["edx"] = w
    BY <2>1, <2>5 DEF Holds, Kept, Segmented, Register, General
  <2>7. Holds(f, words, 14, {"eax", "edx"}, regs', stack')
    BY <2>5, Weaker DEF c
  <2>8. TrapStub(f, 14, regs', stack')
    BY <2>5, <2>6, <2>7 DEF TrapStub, TrapDepth, TrapChanged, words, code, w
  <2> QED
    BY <1>4, <2>5, <2>8
(* The segment registers. *)
<1>10. ASSUME NEW n \in 15 .. 18, pc = <<"stub", v, n>>, TrapStub(f, n, regs, stack)
       PROVE  next
  <2> DEFINE i == Stub[v][n]
             e == {"eax", "edx"}
  <2>1. /\ TrapDepth(n) = 15 /\ TrapDepth(n + 1) = 15 /\ n + 1 \in 1 .. 31
        /\ TrapChanged(n) = e /\ TrapChanged(n + 1) = e /\ n + 1 \notin {2, 14}
    BY <1>10 DEF TrapDepth, TrapChanged
  <2>2. /\ Does(i, v, n) /\ Holds(f, words, 15, e, regs, stack)
        /\ regs["eax"] = code
        /\ n # 15 => regs["edx"] = KernelData
    <3>1. n \in 1 .. 31 /\ n # 2 /\ n \in 3 .. 19 /\ (n = 15 \/ n \in 16 .. 18)
      BY <1>10
    <3> QED
      BY <1>5, <1>10, <2>1, <3>1
  <2>3. PICK x \in {"edx"} \cup Segment :
          /\ n = 15 => x = "edx" /\ i = <<"load", x, KernelData>>
          /\ n # 15 => x \in Segment /\ i = <<"move", "edx", x>>
    <3>1. n = 15 => i = <<"load", "edx", KernelData>>
      BY <1>1, TrapInstructions
    <3>2. n = 16 => i = <<"move", "edx", "ds">>
      BY <1>1, TrapInstructions
    <3>3. n = 17 => i = <<"move", "edx", "es">>
      BY <1>1, TrapInstructions
    <3>4. n = 18 => i = <<"move", "edx", "fs">>
      BY <1>1, TrapInstructions
    <3> QED
      BY <1>10, <3>1, <3>2, <3>3, <3>4 DEF Segment
  <2>4. /\ x \in Segment \/ x \in General
        /\ \/ i = <<"load", x, KernelData>>
           \/ \E y \in Register : i = <<"move", y, x>> /\ regs[y] = KernelData
    <3>1. "edx" \in Register /\ "edx" \in General
      BY DEF General, Register
    <3>2. CASE n = 15
      BY <2>3, <3>1, <3>2
    <3>3. CASE n # 15
      BY <2>2, <2>3, <3>1, <3>3
    <3> QED
      BY <3>2, <3>3
  <2> HIDE DEF i, e
  <2>5. /\ Holds(f, words, 15, e, regs', stack')
        /\ regs' = [regs EXCEPT ![x] = KernelData] /\ pc' = <<"stub", v, n + 1>> /\ Local
    <3>1. /\ Holds(f, words, 15, e \cup {x}, regs', stack')
          /\ regs' = [regs EXCEPT ![x] = KernelData] /\ pc' = <<"stub", v, n + 1>> /\ Local
      BY <2>2, <2>4, Loading
    <3>2. (e \cup {x}) \cap General \subseteq e
      BY <2>3 DEF e, Segment, General
    <3> QED
      BY <3>1, <3>2, Weaker
  <2>6. regs'["eax"] = code /\ regs'["edx"] = KernelData
    <3>1. regs = [y \in Register |-> regs[y]]
      BY <2>2 DEF Holds, Kept, Segmented
    <3>2. "eax" \in Register /\ "edx" \in Register /\ x # "eax" /\ (n # 15 => x # "edx")
      BY <2>3 DEF Register, General, Segment
    <3>3. CASE n = 15
      BY <2>2, <2>3, <2>5, <3>1, <3>2, <3>3
    <3>4. CASE n # 15
      BY <2>2, <2>5, <3>1, <3>2, <3>4
    <3> QED
      BY <3>3, <3>4
  <2>7. TrapStub(f, n + 1, regs', stack')
    BY <2>1, <2>5, <2>6 DEF TrapStub, words, code
  <2> QED
    BY <1>4, <2>1, <2>5, <2>7
<1>11. CASE pc = <<"stub", v, 19>> /\ TrapStub(f, 19, regs, stack)
  <2>1. /\ Does(<<"callr", "eax">>, v, 19) /\ Holds(f, words, 15, {"eax", "edx"}, regs, stack)
        /\ regs["eax"] = code
    <3>1. Stub[v][19] = <<"callr", "eax">>
      BY <1>1, TrapInstructions
    <3>2. TrapDepth(19) = 15 /\ TrapChanged(19) = {"eax", "edx"}
      BY DEF TrapDepth, TrapChanged
    <3>3. /\ Does(Stub[v][19], v, 19)
          /\ Holds(f, words, TrapDepth(19), TrapChanged(19), regs, stack) /\ regs["eax"] = code
      BY <1>5, <1>11
    <3> QED
      BY <3>1, <3>2, <3>3
  <2>2. stack' = Append(stack, words[15 + 1]) /\ regs' = regs /\ pc' = code /\ Local
    <3>1. /\ stack' = Append(stack, <<"stub", v, 19 + 1>>) /\ regs' = regs /\ pc' = regs["eax"]
          /\ Local
      BY <2>1 DEF Does, Local
    <3>2. words[15 + 1] = <<"stub", v, 19 + 1>>
      BY <1>2
    <3> QED
      BY <2>1, <3>1, <3>2
  <2>3. On(f.stack, words, 15 + 1, stack') /\ Kept(f, regs', called)
    <3>1. On(f.stack, words, 15, stack) /\ Kept(f, regs, {"eax", "edx"})
      BY <2>1 DEF Holds
    <3>2. Kept(f, regs', called)
      BY <2>2, <3>1 DEF Kept, Segmented
    <3> QED
      BY <1>1, <2>2, <3>1, <3>2, Grow
  <2> QED
    BY <1>1, <2>2, <2>3 DEF Trapped, Holds, words, v
<1>12. ASSUME NEW k \in 1 .. 2, pc = <<"code", TrapHandler(v), k>>,
              Holds(f, words, 16, called, regs, stack)
       PROVE  next
  <2>1. TrapHandler(v) \in TrapHandlers
    <3>1. v \in (0 .. 31) \ {14}
      BY <1>1 DEF Entered, Vector, ErrorVectors
    <3> QED
      BY <3>1, Zenon DEF TrapHandlers
  <2>2. Local
    BY <1>12, <2>1, CodeStep DEF Local
  <2>3. CASE k = 1
    <3>1. pc' = <<"code", TrapHandler(v), 2>> /\ stack' = stack /\ regs' = Clobbered
      BY <1>12, <2>1, <2>3, CodeStep
    <3>2. Holds(f, words, 16, called, regs', stack')
      BY <1>12, <3>1, ClobberedHolds
    <3> QED
      BY <2>2, <3>1, <3>2 DEF Trapped, words, v
  <2>4. CASE k = 2
    <3>1. pc' = words[16] /\ Holds(f, words, 16 - 1, called, regs', stack')
      <4>1. 16 \in Nat /\ 16 > 0
        OBVIOUS
      <4> QED
        BY <1>12, <2>1, <2>4, <4>1, CodeReturns
    <3>2. TrapStub(f, 20, regs', stack')
      BY <3>1 DEF TrapStub, TrapDepth, TrapChanged, words
    <3> QED
      BY <1>2, <1>4, <2>2, <3>1, <3>2
  <2> QED
    BY <2>3, <2>4
<1>13. CASE pc = <<"stub", v, 20>> /\ TrapStub(f, 20, regs, stack)
  <2>1. Does(<<"drop", 2>>, v, 20) /\ Holds(f, words, 15, called, regs, stack)
    <3>1. Stub[v][20] = <<"drop", 2>>
      BY <1>1, TrapInstructions
    <3>2. TrapDepth(20) = 15 /\ TrapChanged(20) = called
      BY DEF TrapDepth, TrapChanged
    <3> QED
      BY <1>5, <1>13, <3>1, <3>2
  <2>2. 15 \in Nat /\ 2 \in 0 .. 15
    OBVIOUS
  <2>3. Holds(f, words, 15 - 2, called, regs', stack') /\ pc' = <<"stub", v, 20 + 1>> /\ Local
    BY <2>1, <2>2, Dropping
  <2>4. TrapStub(f, 21, regs', stack')
    BY <2>3 DEF TrapStub, TrapDepth, TrapChanged, words
  <2> QED
    BY <1>4, <2>3, <2>4
(* The pops. *)
<1>14. ASSUME NEW k \in 1 .. 10, pc = <<"stub", v, 20 + k>>, TrapStub(f, 20 + k, regs, stack)
       PROVE  next
  <2> DEFINE x == Restored[k]
             n == 20 + k
             d == 14 - k
             c == TrapChanged(n)
             e == TrapChanged(n + 1)
  <2>1. /\ n \in 21 .. 30 /\ n \in 1 .. 31 /\ n # 2 /\ d \in Nat /\ d > 0
        /\ TrapDepth(n) = d /\ TrapDepth(n + 1) = d - 1
    BY DEF TrapDepth
  <2>2. x \in Register /\ c \subseteq e \cup {x}
    BY DEF Restored, TrapChanged, Register, General, Segment
  <2>3. words[d] = f.regs[x]
    BY <1>2
  <2>4. Stub[v][n] = <<"pop", x>>
    BY <1>1, TrapInstructions
  <2> HIDE DEF x, d, c, e
  <2>5. Does(<<"pop", x>>, v, n) /\ Holds(f, words, d, c, regs, stack)
    BY <1>5, <1>14, <2>1, <2>4 DEF c
  <2> HIDE DEF n
  <2>6. Holds(f, words, d - 1, e, regs', stack') /\ pc' = <<"stub", v, n + 1>> /\ Local
    <3>1. Holds(f, words, d - 1, c \ {x}, regs', stack') /\ pc' = <<"stub", v, n + 1>> /\ Local
      BY <2>1, <2>2, <2>3, <2>5, Popping
    <3>2. (c \ {x}) \cap General \subseteq e
      BY <2>2
    <3> QED
      BY <3>1, <3>2, Weaker
  <2>7. TrapStub(f, n + 1, regs', stack') /\ n + 1 \in 1 .. 31
    <3>1. n + 1 \in 22 .. 31 /\ n + 1 \notin 3 .. 19 /\ n + 1 # 14 /\ n + 1 \notin 16 .. 18 /\ n + 1 # 2
          /\ n + 1 \in 1 .. 31
      BY <2>1
    <3> QED
      BY <2>1, <2>6, <3>1 DEF TrapStub, words, e
  <2> QED
    BY <1>4, <2>6, <2>7
<1>15. CASE pc = <<"stub", v, 31>> /\ TrapStub(f, 31, regs, stack)
  <2>1. Does(<<"iret">>, v, 31) /\ Holds(f, words, 3, {}, regs, stack)
    <3>1. Stub[v][31] = <<"iret">>
      BY <1>1, TrapInstructions
    <3>2. TrapDepth(31) = 3 /\ TrapChanged(31) = {}
      BY DEF TrapDepth, TrapChanged
    <3> QED
      BY <1>5, <1>15, <3>1, <3>2
  <2> QED
    BY <1>2, <2>1, Returning DEF Returns
<1> QED
  <2>1. CASE \E n \in 1 .. 31 : pc = <<"stub", v, n>> /\ TrapStub(f, n, regs, stack)
    <3>1. PICK n \in 1 .. 31 : pc = <<"stub", v, n>> /\ TrapStub(f, n, regs, stack)
      BY <2>1
    <3>2. n \in {1, 2, 13, 19, 20, 31} \cup (3 .. 12) \cup {14} \cup (15 .. 18) \cup (21 .. 30)
      OBVIOUS
    <3>3. CASE n \in 21 .. 30
      <4>1. n - 20 \in 1 .. 10 /\ 20 + (n - 20) = n
        BY <3>3
      <4> QED
        BY <1>14, <3>1, <4>1
    <3>4. CASE n \in {1, 2, 13, 19, 20, 31}
      BY <1>6, <1>7, <1>9, <1>11, <1>13, <1>15, <3>1, <3>4
    <3>5. CASE n \in 15 .. 18
      BY <1>10, <3>1, <3>5
    <3>6. CASE n \in (3 .. 12) \cup {14}
      BY <1>8, <3>1, <3>6
    <3> QED
      BY <3>2, <3>3, <3>4, <3>5, <3>6
  <2> QED
    BY <1>12, <2>1 DEF Trapped, words, v

(* A device's stub and handler, up to the return; the handler acknowledges *)
(* the interrupt.                                                          *)
CallAt(v) == IF v = 32 THEN 20 ELSE 18

Waiting(f, p) ==
  \/ \E n \in 1 .. CallAt(f.vector) : p = <<"stub", f.vector, n>>
  \/ p = <<"code", DeviceHandler(f.vector), 1>>

LEMMA DeviceStep ==
  ASSUME NEW f, Frame(f), f.vector \in Handled, Processor, Served(f, regs, pc, stack)
  PROVE  \/ Served(f, regs', pc', stack') /\ Local /\ (Waiting(f, pc) => Waiting(f, pc'))
         \/ /\ Served(f, regs', pc', stack') /\ UNCHANGED <<iflag, nmi, frames>>
            /\ isr' = send_EOI(f.vector)
         \/ Returns(f) /\ ~ Waiting(f, pc)
<1> DEFINE v == f.vector
           words == DeviceWords(f)
           called == {"eax", "ecx", "edx"}
           top == IF v = 32 THEN 17 ELSE 16
           next == Served(f, regs', pc', stack') /\ Local /\ (Waiting(f, pc) => Waiting(f, pc'))
           acknowledged == /\ Served(f, regs', pc', stack') /\ UNCHANGED <<iflag, nmi, frames>>
                           /\ isr' = send_EOI(v)
<1>1. /\ v \in Handled /\ IsSeq(f.stack) /\ Len(f.stack) \in Nat
      /\ Restores(v) = IF v = 32 THEN 22 ELSE 19
  BY SeqLength DEF Frame, Restores
<1>2. /\ words[1] = <<"flags", f.iflag>> /\ words[3] = f.pc
      /\ \A k \in (1 .. 12) \ {5} : words[3 + k] = f.regs[Order[k]] /\ Order[k] \in Register
      /\ words[8] = <<"esp">>
      /\ words[16] = IF v = 32 THEN <<"address", Len(f.stack) + 15>> ELSE <<"stub", v, 19>>
      /\ words[17] = <<"stub", v, 21>>
  <2>1. words[1] = <<"flags", f.iflag>> /\ words[3] = f.pc /\ words[8] = <<"esp">>
    BY DEF DeviceWords
  <2>2. /\ words[16] = IF v = 32 THEN <<"address", Len(f.stack) + 15>> ELSE <<"stub", v, 19>>
        /\ words[17] = <<"stub", v, 21>>
    BY DEF DeviceWords
  <2>3. \A k \in (1 .. 12) \ {5} : Order[k] \in Register
    BY SMTT(30) DEF Order, Register, General, Segment
  <2>4. \A k \in (1 .. 12) \ {5} : words[3 + k] = f.regs[Order[k]]
    BY SMTT(30) DEF DeviceWords, Order
  <2> QED
    BY <2>1, <2>2, <2>3, <2>4, Zenon
<1>3. \A n \in 1 .. Restores(v) + 12 : DeviceStub(f, n, regs', stack') /\ pc' = <<"stub", v, n>> =>
        Served(f, regs', pc', stack')
  BY DEF Served
<1>4. ASSUME NEW n \in 1 .. Restores(v) + 12, pc = <<"stub", v, n>>, DeviceStub(f, n, regs, stack)
      PROVE  /\ Does(Stub[v][n], v, n)
             /\ Holds(f, words, DeviceDepth(v, n), DeviceChanged(v, n), regs, stack)
             /\ n \in 14 .. 17 => regs["eax"] = KernelData
             /\ v = 32 /\ n = 19 => regs["eax"] = <<"address", Len(f.stack) + 15>>
  <2>1. n \in Nat
    BY <1>1
  <2> QED
    BY <1>4, <2>1, StubStep DEF DeviceStub
<1>5. ASSUME NEW n \in Nat, pc = <<"stub", v, n>>, pc' = <<"stub", v, n + 1>>,
             n < CallAt(v) \/ n > CallAt(v)
      PROVE  Waiting(f, pc) => Waiting(f, pc')
  <2>1. CallAt(v) \in Nat
    BY DEF CallAt
  <2> QED
    BY <1>5, <2>1 DEF Waiting
<1> HIDE DEF v, words, top
(* The pushes. *)
<1>6. ASSUME NEW n \in 1 .. 12, pc = <<"stub", v, n>>, DeviceStub(f, n, regs, stack)
      PROVE  next
  <2> DEFINE i == Stub[v][n]
             d == n + 2
             c == {}
  <2>1. /\ DeviceDepth(v, n) = d /\ DeviceDepth(v, n + 1) = d + 1 /\ d \in Nat
        /\ DeviceChanged(v, n) = c /\ DeviceChanged(v, n + 1) = c
        /\ n \in 1 .. Restores(v) + 12 /\ n + 1 \in 1 .. Restores(v) + 12
        /\ n + 1 \notin 14 .. 17 /\ n + 1 # 19 /\ n < CallAt(v) /\ n \in Nat
    <3>1. DeviceDepth(v, n) = d /\ DeviceDepth(v, n + 1) = d + 1 /\ d \in Nat
      BY <1>1 DEF DeviceDepth
    <3>2. DeviceChanged(v, n) = c /\ DeviceChanged(v, n + 1) = c
      BY <1>1 DEF DeviceChanged
    <3>3. /\ n \in 1 .. Restores(v) + 12 /\ n + 1 \in 1 .. Restores(v) + 12
          /\ n + 1 \notin 14 .. 17 /\ n + 1 # 19 /\ n < CallAt(v) /\ n \in Nat
      BY <1>1 DEF CallAt
    <3> QED
      BY <3>1, <3>2, <3>3
  <2>2. Does(i, v, n) /\ Holds(f, words, d, c, regs, stack)
    BY <1>4, <1>6, <2>1
  <2>3. \/ \E x \in Register : i = <<"push", x>> /\ regs[x] = words[d + 1]
        \/ i = <<"pushi", words[d + 1]>>
    <3>1. i = IF n = 5 THEN <<"pushi", <<"esp">>>> ELSE <<"push", Order[n]>>
      BY <1>1, DeviceInstructions
    <3>2. CASE n = 5
      BY <1>2, <3>1, <3>2
    <3>3. CASE n # 5
      <4>1. words[d + 1] = f.regs[Order[n]] /\ Order[n] \in Register
        <5>1. n \in (1 .. 12) \ {5} /\ d + 1 = 3 + n
          BY <3>3
        <5> QED
          BY <1>2, <5>1
      <4>2. regs[Order[n]] = f.regs[Order[n]]
        BY <2>2, <4>1 DEF Holds, Kept, Segmented, Frame, Register
      <4> QED
        BY <3>1, <3>3, <4>1, <4>2
    <3> QED
      BY <3>2, <3>3
  <2> HIDE DEF i, d, c
  <2>4. /\ Holds(f, words, d + 1, c, regs', stack')
        /\ regs' = regs /\ pc' = <<"stub", v, n + 1>> /\ Local
    BY <2>1, <2>2, <2>3, Pushing
  <2>5. DeviceStub(f, n + 1, regs', stack')
    BY <2>1, <2>4 DEF DeviceStub, words, v
  <2> QED
    BY <1>3, <1>5, <1>6, <2>1, <2>4, <2>5
(* The segment registers. *)
<1>7. ASSUME NEW n \in 13 .. 17, pc = <<"stub", v, n>>, DeviceStub(f, n, regs, stack)
      PROVE  next
  <2> DEFINE i == Stub[v][n]
             c == DeviceChanged(v, n)
  <2>1. /\ DeviceDepth(v, n) = 15 /\ DeviceDepth(v, n + 1) = 15
        /\ c \subseteq called /\ DeviceChanged(v, n + 1) = called
        /\ n \in 1 .. Restores(v) + 12 /\ n + 1 \in 1 .. Restores(v) + 12
        /\ n + 1 # 19 /\ n < CallAt(v) /\ n \in Nat
    <3>1. DeviceDepth(v, n) = 15 /\ DeviceDepth(v, n + 1) = 15
      BY <1>1 DEF DeviceDepth
    <3>2. c \subseteq called /\ DeviceChanged(v, n + 1) = called
      BY <1>1 DEF DeviceChanged
    <3>3. /\ n \in 1 .. Restores(v) + 12 /\ n + 1 \in 1 .. Restores(v) + 12
          /\ n + 1 # 19 /\ n < CallAt(v) /\ n \in Nat
      BY <1>1 DEF CallAt
    <3> QED
      BY <3>1, <3>2, <3>3
  <2>2. /\ Does(i, v, n) /\ Holds(f, words, 15, c, regs, stack)
        /\ n # 13 => regs["eax"] = KernelData
    <3>1. n = 13 \/ n \in 14 .. 17
      OBVIOUS
    <3> QED
      BY <1>4, <1>7, <2>1, <3>1
  <2>3. PICK x \in {"eax"} \cup Segment :
          /\ n = 13 => x = "eax" /\ i = <<"load", x, KernelData>>
          /\ n # 13 => x \in Segment /\ i = <<"move", "eax", x>>
    <3>1. CASE n = 13
      BY <1>1, <3>1, DeviceInstructions
    <3>2. CASE n # 13
      <4>1. n \in 14 .. 17
        BY <3>2
      <4>2. \E x \in Segment : i = <<"move", "eax", x>>
        BY <1>1, <4>1, DeviceInstructions
      <4> QED
        BY <3>2, <4>2
    <3> QED
      BY <3>1, <3>2
  <2>4. /\ x \in Segment \/ x \in General
        /\ \/ i = <<"load", x, KernelData>>
           \/ \E y \in Register : i = <<"move", y, x>> /\ regs[y] = KernelData
    <3>1. "eax" \in Register /\ "eax" \in General
      BY DEF General, Register
    <3>2. CASE n = 13
      BY <2>3, <3>1, <3>2
    <3>3. CASE n # 13
      BY <2>2, <2>3, <3>1, <3>3
    <3> QED
      BY <3>2, <3>3
  <2> HIDE DEF i, c
  <2>5. /\ Holds(f, words, 15, called, regs', stack')
        /\ regs' = [regs EXCEPT ![x] = KernelData] /\ pc' = <<"stub", v, n + 1>> /\ Local
    <3>1. /\ Holds(f, words, 15, c \cup {x}, regs', stack')
          /\ regs' = [regs EXCEPT ![x] = KernelData] /\ pc' = <<"stub", v, n + 1>> /\ Local
      BY <2>2, <2>4, Loading
    <3>2. (c \cup {x}) \cap General \subseteq called
      BY <2>1, <2>3 DEF Segment, General
    <3> QED
      BY <3>1, <3>2, Weaker
  <2>6. regs'["eax"] = KernelData
    <3>1. regs = [y \in Register |-> regs[y]]
      BY <2>2 DEF Holds, Kept, Segmented
    <3>2. "eax" \in Register /\ (n # 13 => x # "eax")
      BY <2>3 DEF Register, General, Segment
    <3>3. CASE n = 13
      BY <2>3, <2>5, <3>1, <3>2, <3>3
    <3>4. CASE n # 13
      BY <2>2, <2>5, <3>1, <3>2, <3>4
    <3> QED
      BY <3>3, <3>4
  <2>7. DeviceStub(f, n + 1, regs', stack')
    BY <2>1, <2>5, <2>6 DEF DeviceStub, words, v
  <2> QED
    BY <1>3, <1>5, <1>7, <2>1, <2>5, <2>7
(* The argument of handle_timer. *)
<1>8. CASE v = 32 /\ pc = <<"stub", v, 18>> /\ DeviceStub(f, 18, regs, stack)
  <2>1. Does(<<"lea", 0, "eax">>, v, 18) /\ Holds(f, words, 15, called, regs, stack)
    <3>1. Stub[v][18] = <<"lea", 0, "eax">>
      BY <1>1, <1>8, DeviceInstructions
    <3>2. DeviceDepth(v, 18) = 15 /\ DeviceChanged(v, 18) = called /\ 18 \in 1 .. Restores(v) + 12
      BY <1>1, <1>8 DEF DeviceDepth, DeviceChanged, Restores
    <3> QED
      BY <1>4, <1>8, <3>1, <3>2
  <2> DEFINE w == <<"address", Len(f.stack) + 15>>
             i == <<"lea", 0, "eax">>
  <2>2. w = <<"address", Len(stack) - 0>>
    BY <1>1, <2>1 DEF Holds, On
  <2> HIDE DEF w
  <2>3. "eax" \in General /\ \E k \in Nat : i = <<"lea", k, "eax">> /\ w = <<"address", Len(stack) - k>>
    BY <2>2 DEF General
  <2> HIDE DEF called
  <2>4. Does(i, v, 18) /\ Holds(f, words, 15, called, regs, stack)
    BY <2>1
  <2> HIDE DEF i
  <2>5. /\ Holds(f, words, 15, called \cup {"eax"}, regs', stack')
        /\ regs' = [regs EXCEPT !["eax"] = w] /\ pc' = <<"stub", v, 18 + 1>> /\ Local
    BY <2>3, <2>4, Loading
  <2>6. Holds(f, words, 15, called, regs', stack') /\ regs'["eax"] = w
    <3>1. (called \cup {"eax"}) \cap General \subseteq called
      BY DEF called
    <3>2. regs = [y \in Register |-> regs[y]] /\ "eax" \in Register
      BY <2>1 DEF Holds, Kept, Segmented, Register, General
    <3> QED
      BY <2>5, <3>1, <3>2, Weaker
  <2>7. DeviceDepth(v, 19) = 15 /\ DeviceChanged(v, 19) = called /\ 19 \in 1 .. Restores(v) + 12
        /\ 18 < CallAt(v)
    BY <1>1, <1>8 DEF DeviceDepth, DeviceChanged, CallAt, Restores, called
  <2>8. DeviceStub(f, 19, regs', stack')
    BY <2>6, <2>7 DEF DeviceStub, words, v, w
  <2>9. Served(f, regs', pc', stack')
    <3>1. pc' = <<"stub", v, 19>>
      BY <2>5
    <3>2. 19 \in 1 .. Restores(v) + 12
      BY <2>7
    <3> QED
      BY <1>3, <2>8, <3>1, <3>2
  <2>10. Waiting(f, pc) => Waiting(f, pc')
    BY <1>5, <1>8, <2>5, <2>7
  <2> QED
    BY <2>5, <2>9, <2>10
<1>9. CASE v = 32 /\ pc = <<"stub", v, 19>> /\ DeviceStub(f, 19, regs, stack)
  <2> DEFINE i == <<"push", "eax">>
  <2>1. /\ Does(i, v, 19) /\ Holds(f, words, 15, called, regs, stack)
        /\ regs["eax"] = <<"address", Len(f.stack) + 15>>
    <3>1. Stub[v][19] = <<"push", "eax">>
      BY <1>1, <1>9, DeviceInstructions
    <3>2. DeviceDepth(v, 19) = 15 /\ DeviceChanged(v, 19) = called /\ 19 \in 1 .. Restores(v) + 12
      BY <1>1, <1>9 DEF DeviceDepth, DeviceChanged, Restores
    <3> QED
      BY <1>4, <1>9, <3>1, <3>2
  <2>2. 15 \in Nat /\ \E x \in Register : i = <<"push", x>> /\ regs[x] = words[15 + 1]
    <3>1. words[15 + 1] = regs["eax"] /\ "eax" \in Register
      BY <1>2, <1>9, <2>1 DEF Register, General
    <3> QED
      BY <3>1
  <2> HIDE DEF i
  <2>3. /\ Holds(f, words, 15 + 1, called, regs', stack')
        /\ pc' = <<"stub", v, 19 + 1>> /\ Local
    BY <2>1, <2>2, Pushing
  <2>4. DeviceDepth(v, 20) = 16 /\ DeviceChanged(v, 20) = called /\ 20 \in 1 .. Restores(v) + 12
        /\ 19 < CallAt(v)
    BY <1>1, <1>9 DEF DeviceDepth, DeviceChanged, CallAt, Restores
  <2>5. DeviceStub(f, 20, regs', stack')
    BY <2>3, <2>4 DEF DeviceStub, words, v
  <2> QED
    BY <1>3, <1>5, <1>9, <2>3, <2>4, <2>5
<1>10. CASE v = 32 /\ pc = <<"stub", v, 21>> /\ DeviceStub(f, 21, regs, stack)
  <2>1. Does(<<"drop", 1>>, v, 21) /\ Holds(f, words, 16, called, regs, stack)
    <3>1. Stub[v][21] = <<"drop", 1>>
      BY <1>1, <1>10, DeviceInstructions
    <3>2. DeviceDepth(v, 21) = 16 /\ DeviceChanged(v, 21) = called /\ 21 \in 1 .. Restores(v) + 12
      BY <1>1, <1>10 DEF DeviceDepth, DeviceChanged, Restores
    <3> QED
      BY <1>4, <1>10, <3>1, <3>2
  <2>2. 16 \in Nat /\ 1 \in 0 .. 16
    OBVIOUS
  <2>3. Holds(f, words, 16 - 1, called, regs', stack') /\ pc' = <<"stub", v, 21 + 1>> /\ Local
    BY <2>1, <2>2, Dropping
  <2>4. DeviceDepth(v, 22) = 15 /\ DeviceChanged(v, 22) = called /\ 22 \in 1 .. Restores(v) + 12
        /\ 21 > CallAt(v)
    BY <1>1, <1>10 DEF DeviceDepth, DeviceChanged, CallAt, Restores
  <2>5. DeviceStub(f, 22, regs', stack')
    BY <2>3, <2>4 DEF DeviceStub, words, v
  <2> QED
    BY <1>3, <1>5, <1>10, <2>3, <2>4, <2>5
(* The handler. *)
<1>11. CASE pc = <<"stub", v, CallAt(v)>> /\ DeviceStub(f, CallAt(v), regs, stack)
  <2> DEFINE n == CallAt(v)
             d == IF v = 32 THEN 16 ELSE 15
  <2>1. /\ DeviceDepth(v, n) = d /\ DeviceChanged(v, n) = called /\ n \in 1 .. Restores(v) + 12
        /\ d \in Nat /\ d + 1 = top /\ <<"stub", v, n + 1>> = words[d + 1]
    <3>1. CASE v = 32
      <4>1. n = 20 /\ d = 16 /\ top = 17 /\ words[17] = <<"stub", v, 21>>
        BY <1>2, <3>1 DEF top, CallAt
      <4> QED
        BY <3>1, <4>1 DEF DeviceDepth, DeviceChanged, Restores
    <3>2. CASE v # 32
      <4>1. n = 18 /\ d = 15 /\ top = 16 /\ words[16] = <<"stub", v, 19>>
        BY <1>2, <3>2 DEF top, CallAt
      <4> QED
        BY <3>2, <4>1 DEF DeviceDepth, DeviceChanged, Restores
    <3> QED
      BY <3>1, <3>2
  <2>2. Stub[v][n] = <<"call", DeviceHandler(v)>>
    <3>1. CASE v = 32
      <4>1. n = 20 /\ DeviceHandler(v) = "handle_timer"
        BY <3>1 DEF CallAt, DeviceHandler
      <4>2. Stub[v][20] = <<"call", "handle_timer">>
        BY <1>1, <3>1, DeviceInstructions
      <4> QED
        BY <4>1, <4>2
    <3>2. CASE v # 32
      BY <1>1, <3>2, DeviceInstructions DEF CallAt
    <3> QED
      BY <3>1, <3>2
  <2> HIDE DEF n, d, called
  <2>3. Does(<<"call", DeviceHandler(v)>>, v, n) /\ Holds(f, words, d, called, regs, stack)
    BY <1>4, <1>11, <2>1, <2>2 DEF n
  <2>4. /\ stack' = Append(stack, words[d + 1]) /\ regs' = regs
        /\ pc' = <<"code", DeviceHandler(v), 1>> /\ Local
    BY <2>1, <2>3 DEF Does, Local
  <2>5. Holds(f, words, d + 1, called, regs', stack')
    <3>1. On(f.stack, words, d, stack) /\ Kept(f, regs, called)
      BY <2>3 DEF Holds
    <3>2. On(f.stack, words, d + 1, stack')
      BY <1>1, <2>1, <2>4, <3>1, Grow
    <3>3. Kept(f, regs', called)
      BY <2>4, <3>1 DEF Kept, Segmented
    <3> QED
      BY <3>2, <3>3 DEF Holds
  <2>6. Served(f, regs', pc', stack') /\ Waiting(f, pc')
    BY <2>1, <2>4, <2>5 DEF Served, Waiting, words, v, top, called
  <2> QED
    BY <2>4, <2>6
<1>12. ASSUME NEW k \in 1 .. 2, pc = <<"code", DeviceHandler(v), k>>,
              Holds(f, words, top, called, regs, stack)
       PROVE  next \/ acknowledged
  <2>1. /\ DeviceHandler(v) \in {"handle_timer", "handle_keyboard", "handle_mouse"}
        /\ v = 32 => DeviceHandler(v) = "handle_timer"
        /\ v = 33 => DeviceHandler(v) = "handle_keyboard"
        /\ v = 44 => DeviceHandler(v) = "handle_mouse"
    BY <1>1 DEF DeviceHandler, Handled
  <2>2. UNCHANGED <<iflag, nmi, frames>>
    BY <1>12, <2>1, CodeStep
  <2>3. CASE k = 1
    <3>1. pc' = <<"code", DeviceHandler(v), 2>> /\ stack' = stack /\ regs' = Clobbered
      BY <1>12, <2>1, <2>3, CodeStep
    <3>2. Holds(f, words, top, called, regs', stack')
      BY <1>12, <3>1, ClobberedHolds
    <3>3. Served(f, regs', pc', stack')
      BY <3>1, <3>2 DEF Served, words, v, top
    <3>4. isr' = send_EOI(v)
      <4>1. v \in {32, 33, 44}
        BY <1>1 DEF Handled
      <4>2. v = 32 => isr' = send_EOI(32)
        BY <1>12, <2>1, <2>3, CodeStep
      <4>3. v = 33 => isr' = send_EOI(33)
        BY <1>12, <2>1, <2>3, CodeStep
      <4>4. v = 44 => isr' = send_EOI(44)
        BY <1>12, <2>1, <2>3, CodeStep
      <4> QED
        BY <4>1, <4>2, <4>3, <4>4
    <3> QED
      BY <2>2, <3>3, <3>4
  <2>4. CASE k = 2
    <3>1. pc' = words[top] /\ Holds(f, words, top - 1, called, regs', stack') /\ isr' = isr
      <4>1. top \in Nat /\ top > 0
        BY DEF top
      <4>2. isr' = isr
        BY <1>12, <2>1, <2>4, CodeStep
      <4> QED
        BY <1>12, <2>1, <2>4, <4>1, <4>2, CodeReturns
    <3> DEFINE n == CallAt(v) + 1
    <3>2. /\ words[top] = <<"stub", v, n>> /\ n \in 1 .. Restores(v) + 12
          /\ DeviceDepth(v, n) = top - 1 /\ DeviceChanged(v, n) = called
          /\ n \notin 14 .. 17 /\ ~ (v = 32 /\ n = 19)
      <4>1. CASE v = 32
        <5>1. n = 21 /\ top = 17 /\ words[17] = <<"stub", v, 21>>
          BY <1>2, <4>1 DEF top, CallAt
        <5> QED
          BY <4>1, <5>1 DEF DeviceDepth, DeviceChanged, Restores
      <4>2. CASE v # 32
        <5>1. n = 19 /\ top = 16 /\ words[16] = <<"stub", v, 19>>
          BY <1>2, <4>2 DEF top, CallAt
        <5> QED
          BY <4>2, <5>1 DEF DeviceDepth, DeviceChanged, Restores
      <4> QED
        BY <4>1, <4>2
    <3> HIDE DEF n
    <3>3. DeviceStub(f, n, regs', stack')
      BY <3>1, <3>2 DEF DeviceStub, words, v
    <3>4. ~ Waiting(f, pc)
      BY <1>12, <2>4 DEF Waiting
    <3> QED
      BY <1>3, <2>2, <3>1, <3>2, <3>3, <3>4 DEF Local
  <2> QED
    BY <2>3, <2>4
(* The pops. *)
<1>13. ASSUME NEW k \in 0 .. 11, pc = <<"stub", v, Restores(v) + k>>,
              DeviceStub(f, Restores(v) + k, regs, stack)
       PROVE  next
  <2> DEFINE n == Restores(v) + k
             d == 15 - k
             c == DeviceChanged(v, n)
             e == DeviceChanged(v, n + 1)
             x == IF v # 32 /\ k = 3 THEN "fs" ELSE Order[12 - k]
  <2>1. /\ n \in 1 .. Restores(v) + 12 /\ n + 1 \in 1 .. Restores(v) + 12 /\ d \in Nat /\ d > 0
        /\ DeviceDepth(v, n) = d /\ DeviceDepth(v, n + 1) = d - 1
        /\ n + 1 \notin 14 .. 17 /\ ~ (v = 32 /\ n + 1 = 19) /\ n > CallAt(v) /\ n \in Nat
    <3>1. /\ n \in 1 .. Restores(v) + 12 /\ n + 1 \in 1 .. Restores(v) + 12 /\ d \in Nat /\ d > 0
          /\ n + 1 \notin 14 .. 17 /\ ~ (v = 32 /\ n + 1 = 19) /\ n > CallAt(v) /\ n \in Nat
      BY <1>1 DEF CallAt
    <3>2. n >= Restores(v) /\ ~ (n < 13) /\ ~ (n + 1 < 13) /\ Restores(v) \in Nat
      BY <1>1
    <3>3. DeviceDepth(v, n) = d /\ DeviceDepth(v, n + 1) = d - 1
      BY <3>2 DEF DeviceDepth
    <3> QED
      BY <3>1, <3>3
  <2>2. Stub[v][n] = IF k = 7 THEN <<"drop", 1>> ELSE <<"pop", x>>
    BY <1>1, DeviceInstructions
  <2>3. /\ k = 7 => c \subseteq e
        /\ k # 7 => /\ x \in Register /\ c \subseteq e \cup {x} /\ words[d] = f.regs[x]
    <3>1. c = IF k <= 9 THEN called ELSE IF k = 10 THEN {"eax", "ecx"} ELSE {"eax"}
      <4>1. Restores(v) \in Nat /\ Restores(v) >= 19
        BY <1>1
      <4> QED
        BY <4>1 DEF DeviceChanged
    <3>2. e = IF k <= 8 THEN called ELSE IF k = 9 THEN {"eax", "ecx"}
              ELSE IF k = 10 THEN {"eax"} ELSE {}
      <4>1. Restores(v) \in Nat /\ Restores(v) >= 19
        BY <1>1
      <4> QED
        BY <4>1 DEF DeviceChanged
    <3>3. CASE k # 7
      <4>1. 12 - k \in (1 .. 12) \ {5} /\ 3 + (12 - k) = d
        BY <3>3
      <4>2. words[d] = f.regs[Order[12 - k]] /\ Order[12 - k] \in Register
        BY <1>2, <4>1
      <4>3. x \in Register
        BY <4>2 DEF Register, Segment
      <4>4. words[d] = f.regs[x]
        <5>1. v # 32 /\ k = 3 => Order[12 - k] = "ds" /\ x = "fs"
          BY DEF Order
        <5>2. f.regs["ds"] = f.regs["fs"]
          BY DEF Frame, Segmented, Segment
        <5> QED
          BY <4>2, <5>1, <5>2
      <4>5. c \subseteq e \cup {x}
        <5>1. k = 9 => x = "edx"
          BY DEF Order
        <5>2. k = 10 => x = "ecx"
          BY DEF Order
        <5>3. k = 11 => x = "eax"
          BY DEF Order
        <5> HIDE DEF c, e, x
        <5> QED
          BY <3>1, <3>2, <5>1, <5>2, <5>3
      <4> QED
        BY <3>3, <4>3, <4>4, <4>5
    <3> QED
      BY <3>1, <3>2, <3>3
  <2>4. Does(Stub[v][n], v, n) /\ Holds(f, words, d, c, regs, stack)
    BY <1>4, <1>13, <2>1
  <2> HIDE DEF n, d, c, e, x
  <2>5. Holds(f, words, d - 1, e, regs', stack') /\ pc' = <<"stub", v, n + 1>> /\ Local
    <3>1. CASE k = 7
      <4>1. Holds(f, words, d - 1, c, regs', stack') /\ pc' = <<"stub", v, n + 1>> /\ Local
        <5>1. Does(<<"drop", 1>>, v, n) /\ 1 \in 0 .. d
          BY <2>1, <2>2, <2>4, <3>1
        <5> QED
          BY <2>1, <2>4, <5>1, Dropping
      <4> QED
        BY <2>3, <3>1, <4>1, Weaker
    <3>2. CASE k # 7
      <4>1. Does(<<"pop", x>>, v, n)
        BY <2>2, <2>4, <3>2
      <4>2. Holds(f, words, d - 1, c \ {x}, regs', stack') /\ pc' = <<"stub", v, n + 1>> /\ Local
        BY <2>1, <2>3, <2>4, <3>2, <4>1, Popping
      <4>3. (c \ {x}) \cap General \subseteq e
        BY <2>3, <3>2
      <4> QED
        BY <4>2, <4>3, Weaker
    <3> QED
      BY <3>1, <3>2
  <2>6. DeviceStub(f, n + 1, regs', stack')
    BY <2>1, <2>5 DEF DeviceStub, words, v, e
  <2>7. pc = <<"stub", v, n>>
    BY <1>13 DEF n
  <2> QED
    BY <1>3, <1>5, <2>1, <2>5, <2>6, <2>7
<1>14. CASE pc = <<"stub", v, Restores(v) + 12>> /\ DeviceStub(f, Restores(v) + 12, regs, stack)
  <2> DEFINE n == Restores(v) + 12
  <2>1. /\ n \in 1 .. Restores(v) + 12 /\ DeviceDepth(v, n) = 3 /\ DeviceChanged(v, n) = {}
        /\ n > CallAt(v) /\ CallAt(v) \in Nat /\ n \in Nat
    BY <1>1 DEF DeviceDepth, DeviceChanged, Restores, CallAt
  <2>2. Stub[v][n] = <<"iret">>
    BY <1>1, DeviceInstructions
  <2>3. Does(<<"iret">>, v, n) /\ Holds(f, words, 3, {}, regs, stack)
    BY <1>4, <1>14, <2>1, <2>2
  <2>4. ~ Waiting(f, pc)
    BY <1>14, <2>1 DEF Waiting, v
  <2> QED
    BY <1>2, <2>3, <2>4, Returning DEF Returns
<1> QED
  <2>1. CASE \E n \in 1 .. Restores(v) + 12 : pc = <<"stub", v, n>> /\ DeviceStub(f, n, regs, stack)
    <3>1. PICK n \in 1 .. Restores(v) + 12 : pc = <<"stub", v, n>> /\ DeviceStub(f, n, regs, stack)
      BY <2>1
    <3>2. \/ n \in 1 .. 12
          \/ n \in 13 .. 17
          \/ v = 32 /\ n \in {18, 19, 21}
          \/ n = CallAt(v)
          \/ n - Restores(v) \in 0 .. 11 /\ Restores(v) + (n - Restores(v)) = n
          \/ n = Restores(v) + 12
      BY <1>1 DEF CallAt
    <3>3. CASE n - Restores(v) \in 0 .. 11 /\ Restores(v) + (n - Restores(v)) = n
      BY <1>13, <3>1, <3>3
    <3>4. CASE v = 32 /\ n \in {18, 19, 21}
      BY <1>8, <1>9, <1>10, <3>1, <3>4
    <3>5. CASE n \in 1 .. 12
      BY <1>6, <3>1, <3>5
    <3>6. CASE n \in 13 .. 17
      BY <1>7, <3>1, <3>6
    <3>7. CASE n = CallAt(v) \/ n = Restores(v) + 12
      BY <1>11, <1>14, <3>1, <3>7
    <3> QED
      BY <3>2, <3>3, <3>4, <3>5, <3>6, <3>7
  <2> QED
    BY <1>12, <2>1 DEF Served, words, v, top

-----------------------------------------------------------------------------
(* The programs that run or were interrupted. *)

(* An interrupt that nobody handles never gets beyond halt. *)
Stopped(f, r, p, s) ==
  /\ Segmented(r) /\ IsSeq(s)
  /\ \/ p = <<"stub", f.vector, 1>>
     \/ p = <<"code", "handle_unhandled", 1>>
     \/ \E k \in 1 .. 3 : p = <<"code", "halt", k>>

(* What the program that was entered with frame f is up to. *)
Level(f, r, p, s) ==
  /\ Frame(f)
  /\ f.vector < 32 => Trapped(f, r, p, s)
  /\ f.vector \in Handled => Served(f, r, p, s)
  /\ f.vector >= 32 /\ f.vector \notin Handled => Stopped(f, r, p, s)

(* The lines of a device whose handler has not acknowledged them yet. *)
Pending(f, p) == f.vector >= 32 /\ (f.vector \in Handled => Waiting(f, p))

(* Each program is interrupted by the next; the last one is at r, p and s. *)
Levels(fr, r, p, s) ==
  \A i \in 1 .. Len(fr) :
    Level(fr[i], IF i = Len(fr) THEN r ELSE fr[i + 1].regs,
                 IF i = Len(fr) THEN p ELSE fr[i + 1].pc,
                 IF i = Len(fr) THEN s ELSE fr[i + 1].stack)

(* The first is the kernel's main program. *)
InMain(r, p, s) == Segmented(r) /\ IsSeq(s) /\ \E k \in 1 .. 5 : p = <<"code", "main", k>>

Bottom(fr, r, p, s) ==
  InMain(IF Len(fr) = 0 THEN r ELSE fr[1].regs,
         IF Len(fr) = 0 THEN p ELSE fr[1].pc,
         IF Len(fr) = 0 THEN s ELSE fr[1].stack)

(* A device interrupts a program whose interrupts are enabled, and disables *)
(* them up to its return.                                                   *)
FlagsAreDown(fr, b) ==
  \A i \in 1 .. Len(fr) :
    fr[i].vector >= 32 =>
      /\ fr[i].iflag = TRUE
      /\ \A j \in i .. Len(fr) : (IF j = Len(fr) THEN b ELSE fr[j + 1].iflag) = FALSE

(* The lines in service are those of a device that was not acknowledged yet. *)
InService(fr, p, lines) ==
  \/ lines = {}
  \/ \E i \in 1 .. Len(fr) : \E n \in 0 .. 15 :
       /\ fr[i].vector = IrqVector(n) /\ lines = Lines(n)
       /\ Pending(fr[i], IF i = Len(fr) THEN p ELSE fr[i + 1].pc)

Nested(fr, r, p, s, b, lines) ==
  /\ IsSeq(fr)
  /\ Bottom(fr, r, p, s)
  /\ Levels(fr, r, p, s)
  /\ FlagsAreDown(fr, b)
  /\ InService(fr, p, lines)

(* The last program goes on. *)
LEMMA NestedStays ==
  ASSUME NEW fr, NEW r, NEW p, NEW s, NEW b, NEW lines, Nested(fr, r, p, s, b, lines),
         NEW r2, NEW p2, NEW s2, NEW b2, NEW lines2,
         Len(fr) = 0 => InMain(r2, p2, s2) /\ lines2 = lines,
         Len(fr) > 0 => /\ Level(fr[Len(fr)], r2, p2, s2)
                        /\ b2 = b \/ b2 = FALSE
                        /\ \/ lines2 = {}
                           \/ lines2 = lines /\ (Pending(fr[Len(fr)], p) => Pending(fr[Len(fr)], p2))
  PROVE  Nested(fr, r2, p2, s2, b2, lines2)
<1>1. IsSeq(fr) /\ Len(fr) \in Nat
  BY SeqLength DEF Nested
<1>2. Bottom(fr, r2, p2, s2)
  BY <1>1 DEF Nested, Bottom
<1>3. Levels(fr, r2, p2, s2)
  BY <1>1 DEF Nested, Levels
<1>4. FlagsAreDown(fr, b2)
  BY <1>1 DEF Nested, FlagsAreDown
<1>5. InService(fr, p2, lines2)
  <2>1. CASE lines2 = {}
    BY <2>1 DEF InService
  <2>2. CASE lines2 # {} /\ Len(fr) > 0
    BY <1>1, <2>2 DEF Nested, InService
  <2>3. CASE Len(fr) = 0
    BY <1>1, <2>3 DEF Nested, InService
  <2> QED
    BY <1>1, <2>1, <2>2, <2>3
<1> QED
  BY <1>1, <1>2, <1>3, <1>4, <1>5 DEF Nested

(* It is interrupted. *)
LEMMA NestedEnters ==
  ASSUME NEW fr, NEW r, NEW p, NEW s, NEW b, NEW lines, NEW f,
         Nested(fr, r, f.pc, s, b, lines),
         f.regs = r, f.stack = s, f.iflag = b,
         NEW r2, NEW p2, NEW s2, NEW b2, NEW lines2,
         Level(f, r2, p2, s2), b2 = FALSE \/ b2 = b,
         \/ f.vector < 32 /\ lines2 = lines
         \/ /\ b = TRUE /\ b2 = FALSE /\ Pending(f, p2)
            /\ \E n \in 0 .. 15 : f.vector = IrqVector(n) /\ lines2 = lines \cup Lines(n)
  PROVE  Nested(Append(fr, f), r2, p2, s2, b2, lines2)
<1> DEFINE up == Append(fr, f)
<1>1. /\ IsSeq(fr) /\ IsSeq(up) /\ Len(fr) \in Nat /\ Len(up) = Len(fr) + 1
      /\ \A i \in 1 .. Len(fr) : up[i] = fr[i]
      /\ up[Len(fr) + 1] = f
  BY SeqAppend, SeqLength DEF Nested
<1>2. f.vector \in Nat
  BY DEF Level, Frame, Entered, Vector
<1> HIDE DEF up
<1>3. Bottom(up, r2, p2, s2)
  BY <1>1 DEF Nested, Bottom
<1>4. Levels(up, r2, p2, s2)
  <2> SUFFICES ASSUME NEW i \in 1 .. Len(up)
               PROVE  Level(up[i], IF i = Len(up) THEN r2 ELSE up[i + 1].regs,
                                   IF i = Len(up) THEN p2 ELSE up[i + 1].pc,
                                   IF i = Len(up) THEN s2 ELSE up[i + 1].stack)
    BY DEF Levels
  <2>1. CASE i = Len(up)
    BY <1>1, <2>1
  <2>2. CASE i = Len(fr)
    BY <1>1, <2>2 DEF Nested, Levels
  <2>3. CASE i < Len(fr)
    <3>1. i \in 1 .. Len(fr) /\ i + 1 \in 1 .. Len(fr) /\ i # Len(fr) /\ i # Len(up)
      BY <1>1, <2>3
    <3> QED
      BY <1>1, <3>1 DEF Nested, Levels
  <2> QED
    BY <1>1, <2>1, <2>2, <2>3
<1>5. FlagsAreDown(up, b2)
  <2> SUFFICES ASSUME NEW i \in 1 .. Len(up), up[i].vector >= 32
               PROVE  /\ up[i].iflag = TRUE
                      /\ \A j \in i .. Len(up) :
                           (IF j = Len(up) THEN b2 ELSE up[j + 1].iflag) = FALSE
    BY DEF FlagsAreDown
  <2>1. CASE i = Len(up)
    <3>1. ~ (f.vector < 32)
      BY <1>1, <1>2, <2>1
    <3> QED
      BY <1>1, <2>1, <3>1
  <2>2. CASE i # Len(up)
    <3>1. i \in 1 .. Len(fr) /\ up[i] = fr[i]
      BY <1>1, <2>2
    <3>2. /\ fr[i].iflag = TRUE
          /\ \A j \in i .. Len(fr) : (IF j = Len(fr) THEN b ELSE fr[j + 1].iflag) = FALSE
      BY <3>1 DEF Nested, FlagsAreDown
    <3>3. b = FALSE
      BY <1>1, <3>1, <3>2
    <3>4. ASSUME NEW j \in i .. Len(fr)
          PROVE  up[j + 1].iflag = FALSE
      <4>1. CASE j = Len(fr)
        BY <1>1, <3>3, <4>1
      <4>2. CASE j # Len(fr)
        <5>1. j + 1 \in 1 .. Len(fr)
          BY <1>1, <3>1, <4>2
        <5> QED
          BY <1>1, <3>2, <4>2, <5>1
      <4> QED
        BY <4>1, <4>2
    <3>5. ASSUME NEW j \in i .. Len(up), j # Len(up)
          PROVE  up[j + 1].iflag = FALSE
      <4>1. j \in i .. Len(fr)
        BY <1>1, <3>5
      <4> QED
        BY <3>4, <4>1
    <3>6. b2 = FALSE
      BY <3>3
    <3> QED
      BY <3>1, <3>2, <3>5, <3>6
  <2> QED
    BY <2>1, <2>2
<1>6. InService(up, p2, lines2)
  <2>1. CASE f.vector < 32 /\ lines2 = lines
    <3>1. CASE lines = {}
      BY <2>1, <3>1 DEF InService
    <3>2. CASE lines # {}
      <4>1. PICK i \in 1 .. Len(fr), n \in 0 .. 15 :
              /\ fr[i].vector = IrqVector(n) /\ lines = Lines(n)
              /\ Pending(fr[i], IF i = Len(fr) THEN f.pc ELSE fr[i + 1].pc)
        BY <3>2 DEF Nested, InService
      <4>2. i \in 1 .. Len(up) /\ i # Len(up) /\ up[i] = fr[i]
            /\ up[i + 1].pc = IF i = Len(fr) THEN f.pc ELSE fr[i + 1].pc
        BY <1>1
      <4> QED
        BY <2>1, <4>1, <4>2 DEF InService
    <3> QED
      BY <3>1, <3>2
  <2>2. CASE /\ b = TRUE /\ b2 = FALSE /\ Pending(f, p2)
             /\ \E n \in 0 .. 15 : f.vector = IrqVector(n) /\ lines2 = lines \cup Lines(n)
    <3>1. lines = {}
      <4> SUFFICES ASSUME lines # {} PROVE FALSE
        OBVIOUS
      <4>1. PICK i \in 1 .. Len(fr), n \in 0 .. 15 :
              /\ fr[i].vector = IrqVector(n) /\ lines = Lines(n)
              /\ Pending(fr[i], IF i = Len(fr) THEN f.pc ELSE fr[i + 1].pc)
        BY DEF Nested, InService
      <4>2. fr[i].vector >= 32 /\ Len(fr) \in i .. Len(fr)
        BY <1>1, <4>1 DEF Pending
      <4>3. b = FALSE
        BY <4>2 DEF Nested, FlagsAreDown
      <4> QED
        BY <2>2, <4>3
    <3>2. Len(up) \in 1 .. Len(up) /\ up[Len(up)] = f
      BY <1>1
    <3> QED
      BY <2>2, <3>1, <3>2 DEF InService
  <2> QED
    BY <2>1, <2>2
<1>7. Nested(up, r2, p2, s2, b2, lines2)
  BY <1>1, <1>3, <1>4, <1>5, <1>6 DEF Nested
<1> QED
  BY <1>7 DEF up

(* And it returns. *)
LEMMA NestedLeaves ==
  ASSUME NEW fr, NEW r, NEW p, NEW s, NEW b, NEW lines, Nested(fr, r, p, s, b, lines),
         Len(fr) > 0, NEW f, f = fr[Len(fr)], ~ Pending(f, p)
  PROVE  Nested(Front(fr), f.regs, f.pc, f.stack, f.iflag, lines)
<1> DEFINE down == Front(fr)
           m == Len(fr) - 1
<1>1. IsSeq(fr) /\ Len(fr) \in Nat
  BY SeqLength DEF Nested
<1>2. m \in 0 .. Len(fr) /\ m \in Nat /\ Len(fr) = m + 1
  BY <1>1
<1>3. /\ IsSeq(down) /\ Len(down) = m
      /\ \A i \in 1 .. m : down[i] = fr[i]
  BY <1>1, <1>2, SeqPrefix DEF Front
<1> HIDE DEF down, m
<1>4. Bottom(down, f.regs, f.pc, f.stack)
  <2>1. CASE m = 0
    BY <1>2, <1>3, <2>1 DEF Nested, Bottom
  <2>2. CASE m # 0
    BY <1>2, <1>3, <2>2 DEF Nested, Bottom
  <2> QED
    BY <2>1, <2>2
<1>5. Levels(down, f.regs, f.pc, f.stack)
  <2> SUFFICES ASSUME NEW i \in 1 .. m
               PROVE  Level(down[i], IF i = m THEN f.regs ELSE down[i + 1].regs,
                                     IF i = m THEN f.pc ELSE down[i + 1].pc,
                                     IF i = m THEN f.stack ELSE down[i + 1].stack)
    BY <1>3 DEF Levels
  <2>1. i \in 1 .. Len(fr) /\ i # Len(fr)
    BY <1>2
  <2>2. Level(fr[i], fr[i + 1].regs, fr[i + 1].pc, fr[i + 1].stack)
    BY <2>1 DEF Nested, Levels
  <2>3. CASE i = m
    BY <1>2, <1>3, <2>2, <2>3
  <2>4. CASE i # m
    <3>1. i + 1 \in 1 .. m
      BY <1>2, <2>4
    <3> QED
      BY <1>3, <2>2, <2>4, <3>1
  <2> QED
    BY <2>3, <2>4
<1>6. FlagsAreDown(down, f.iflag)
  <2> SUFFICES ASSUME NEW i \in 1 .. m, fr[i].vector >= 32
               PROVE  /\ fr[i].iflag = TRUE
                      /\ \A j \in i .. m :
                           (IF j = m THEN f.iflag ELSE down[j + 1].iflag) = FALSE
    BY <1>3 DEF FlagsAreDown
  <2>1. /\ fr[i].iflag = TRUE
        /\ \A j \in i .. Len(fr) : (IF j = Len(fr) THEN b ELSE fr[j + 1].iflag) = FALSE
    <3>1. i \in 1 .. Len(fr)
      BY <1>2
    <3> QED
      BY <3>1 DEF Nested, FlagsAreDown
  <2>2. ASSUME NEW j \in i .. m
        PROVE  (IF j = m THEN f.iflag ELSE down[j + 1].iflag) = FALSE
    <3>1. fr[j + 1].iflag = FALSE
      BY <1>2, <2>1
    <3>2. j = m \/ j + 1 \in 1 .. m
      BY <1>2
    <3> QED
      BY <1>2, <1>3, <3>1, <3>2
  <2> QED
    BY <2>1, <2>2
<1>7. InService(down, f.pc, lines)
  <2>1. CASE lines # {}
    <3>1. PICK i \in 1 .. Len(fr), n \in 0 .. 15 :
            /\ fr[i].vector = IrqVector(n) /\ lines = Lines(n)
            /\ Pending(fr[i], IF i = Len(fr) THEN p ELSE fr[i + 1].pc)
      BY <2>1 DEF Nested, InService
    <3>2. i # Len(fr)
      BY <3>1
    <3>3. i \in 1 .. m /\ fr[i] = down[i] /\ Pending(fr[i], fr[i + 1].pc)
      BY <1>2, <1>3, <3>1, <3>2
    <3>4. fr[i + 1].pc = IF i = Len(down) THEN f.pc ELSE down[i + 1].pc
      <4>1. i = m \/ i + 1 \in 1 .. m
        BY <1>2, <3>3
      <4> QED
        BY <1>2, <1>3, <4>1
    <3> QED
      BY <1>3, <3>1, <3>3, <3>4 DEF InService
  <2> QED
    BY <2>1 DEF InService
<1>8. Nested(down, f.regs, f.pc, f.stack, f.iflag, lines)
  BY <1>3, <1>4, <1>5, <1>6, <1>7 DEF Nested
<1> QED
  BY <1>8 DEF down

-----------------------------------------------------------------------------
(* One step of the program that was entered with frame f. *)
LEMMA LevelBasics ==
  ASSUME NEW f, NEW r, NEW p, NEW s, Level(f, r, p, s)
  PROVE  Segmented(r) /\ IsSeq(s) /\ f.vector \in Nat /\ f.vector \in Entered
<1>1. f.vector \in Nat /\ f.vector \in Entered
  BY DEF Level, Frame, Entered, Vector
<1>2. CASE f.vector < 32
  BY <1>1, <1>2 DEF Level, Trapped, TrapStub, Holds, Kept, On
<1>3. CASE f.vector \in Handled
  BY <1>1, <1>3 DEF Level, Served, DeviceStub, Holds, Kept, On
<1>4. CASE f.vector >= 32 /\ f.vector \notin Handled
  BY <1>1, <1>4 DEF Level, Stopped
<1> QED
  BY <1>1, <1>2, <1>3, <1>4

LEMMA StoppedStep ==
  ASSUME NEW f, Frame(f), f.vector >= 32, f.vector \notin Handled, Processor,
         Stopped(f, regs, pc, stack)
  PROVE  /\ Stopped(f, regs', pc', stack')
         /\ frames' = frames /\ nmi' = nmi /\ isr' = isr
         /\ iflag' = iflag \/ iflag' = FALSE
<1> DEFINE v == f.vector
<1>1. IsSeq(stack) /\ Segmented(regs) /\ v \in Vector /\ v \in Nat
  BY DEF Stopped, Frame, Entered, Vector
<1>2. CASE pc = <<"stub", v, 1>>
  <2>1. Stub[v][1] = <<"call", "handle_unhandled">>
    <3>1. v \notin {32, 33, 44} /\ ~ (v < 32)
      BY <1>1 DEF Handled
    <3>2. Stub[v] = <<<<"call", "handle_unhandled">>>> \o Excep(8)
      BY <1>1, <3>1 DEF Stub
    <3>3. Excep(8) = <<<<"pushi", <<"code", TrapHandler(8), 1>>>>>> \o error_code
      BY DEF Excep, ErrorStubs
    <3> QED
      BY <3>2, <3>3 DEF error_code, Push, Pop, Saved, Restored, LoadSegments
  <2>2. Does(<<"call", "handle_unhandled">>, v, 1)
    BY <1>2, <2>1, StubStep
  <2>3. /\ pc' = <<"code", "handle_unhandled", 1>> /\ regs' = regs
        /\ stack' = Append(stack, <<"stub", v, 1 + 1>>)
        /\ frames' = frames /\ nmi' = nmi /\ isr' = isr /\ iflag' = iflag
    BY <2>2 DEF Does
  <2> QED
    BY <1>1, <2>3, SeqAppend DEF Stopped
<1>3. CASE pc = <<"code", "handle_unhandled", 1>>
  <2>1. "handle_unhandled" \notin TrapHandlers
    BY HandlerNames
  <2>2. handle_unhandled
    BY <1>3, <2>1 DEF Processor, Int3, SetFlag, AtMain, Write, Load, Exchange, PopRegister, Call,
                      Iret, At, Trap, Device, Ret, halt, In
  <2>3. /\ pc' = <<"code", "halt", 1>> /\ regs' = Clobbered /\ stack' = Append(stack, After)
        /\ frames' = frames /\ nmi' = nmi /\ isr' = isr /\ iflag' = iflag
    BY <2>2 DEF handle_unhandled
  <2>4. Segmented(regs')
    BY <1>1, <2>3 DEF Segmented, Clobbered, Register, General, Segment
  <2>5. IsSeq(stack')
    BY <1>1, <2>3, SeqAppend
  <2> QED
    BY <2>3, <2>4, <2>5 DEF Stopped
<1>4. ASSUME NEW k \in 1 .. 3, pc = <<"code", "halt", k>>
      PROVE  /\ Stopped(f, regs', pc', stack')
             /\ frames' = frames /\ nmi' = nmi /\ isr' = isr
             /\ iflag' = iflag \/ iflag' = FALSE
  <2>1. "halt" \notin TrapHandlers
    BY HandlerNames
  <2>2. halt
    BY <1>4, <2>1 DEF Processor, Int3, SetFlag, AtMain, Write, Load, Exchange, PopRegister, Call,
                      Iret, At, Trap, Device, Ret, handle_unhandled, In
  <2>3. After = <<"code", "halt", k + 1>>
    BY <1>4 DEF After
  <2>4. \E j \in 1 .. 3 : pc' = <<"code", "halt", j>>
    BY <1>4, <2>2, <2>3 DEF halt, In
  <2>5. /\ regs' = regs /\ stack' = stack /\ frames' = frames /\ nmi' = nmi /\ isr' = isr
        /\ iflag' = iflag \/ iflag' = FALSE
    BY <2>2 DEF halt
  <2> QED
    BY <1>1, <2>4, <2>5 DEF Stopped
<1> QED
  BY <1>2, <1>3, <1>4 DEF Stopped

LEMMA LevelStep ==
  ASSUME NEW f, Level(f, regs, pc, stack), Processor
  PROVE  \/ /\ Level(f, regs', pc', stack')
            /\ frames' = frames /\ nmi' = nmi
            /\ iflag' = iflag \/ iflag' = FALSE
            /\ \/ isr' = isr /\ (Pending(f, pc) => Pending(f, pc'))
               \/ isr' = send_EOI(f.vector) /\ f.vector \in Handled
         \/ /\ Returns(f) /\ ~ Pending(f, pc)
            /\ f.vector < 32 \/ f.vector \in Handled
<1>1. f.vector \in Nat /\ Frame(f) /\ \A n \in Handled : n >= 32
  BY LevelBasics DEF Level, Handled
<1>2. CASE f.vector < 32
  <2>1. (Trapped(f, regs', pc', stack') /\ Local) \/ Returns(f)
    BY <1>1, <1>2, TrapStep DEF Level
  <2> QED
    BY <1>1, <1>2, <2>1 DEF Level, Local, Pending
<1>3. CASE f.vector \in Handled
  <2>1. \/ Served(f, regs', pc', stack') /\ Local /\ (Waiting(f, pc) => Waiting(f, pc'))
        \/ /\ Served(f, regs', pc', stack') /\ UNCHANGED <<iflag, nmi, frames>>
           /\ isr' = send_EOI(f.vector)
        \/ Returns(f) /\ ~ Waiting(f, pc)
    BY <1>1, <1>3, DeviceStep DEF Level
  <2>2. ~ (f.vector < 32) /\ f.vector >= 32
    BY <1>1, <1>3
  <2>3. Served(f, regs', pc', stack') => Level(f, regs', pc', stack')
    BY <1>1, <1>3, <2>2 DEF Level
  <2>4. (Pending(f, pc) <=> Waiting(f, pc)) /\ (Pending(f, pc') <=> Waiting(f, pc'))
    BY <1>3, <2>2 DEF Pending, Waiting
  <2>5. CASE Served(f, regs', pc', stack') /\ Local /\ (Waiting(f, pc) => Waiting(f, pc'))
    BY <2>3, <2>4, <2>5 DEF Local
  <2>6. CASE /\ Served(f, regs', pc', stack') /\ UNCHANGED <<iflag, nmi, frames>>
             /\ isr' = send_EOI(f.vector)
    BY <1>3, <2>3, <2>6
  <2>7. CASE Returns(f) /\ ~ Waiting(f, pc)
    BY <1>3, <2>4, <2>7
  <2> QED
    BY <2>1, <2>5, <2>6, <2>7
<1>4. CASE f.vector >= 32 /\ f.vector \notin Handled
  <2>1. /\ Stopped(f, regs', pc', stack')
        /\ frames' = frames /\ nmi' = nmi /\ isr' = isr
        /\ iflag' = iflag \/ iflag' = FALSE
    BY <1>1, <1>4, StoppedStep DEF Level
  <2> QED
    BY <1>1, <1>4, <2>1 DEF Level, Pending
<1>5. f.vector < 32 \/ f.vector \in Handled \/ (f.vector >= 32 /\ f.vector \notin Handled)
  BY <1>1
<1> QED
  BY <1>2, <1>3, <1>4, <1>5, Zenon

-----------------------------------------------------------------------------
(* The inductive invariant. *)
IInv ==
  /\ Nested(frames, regs, pc, stack, iflag, isr)
  /\ iflag \in BOOLEAN /\ nmi \in BOOLEAN
  /\ isr \subseteq 0 .. 15
  /\ Len(frames) <= MaxDepth

NoErrorCodes == Faults \cap ErrorVectors = {}

LEMMA NestedBasics ==
  ASSUME IInv
  PROVE  /\ IsSeq(frames) /\ Len(frames) \in Nat
         /\ Segmented(regs) /\ IsSeq(stack)
         /\ Len(frames) = 0 => InMain(regs, pc, stack)
         /\ Len(frames) > 0 => Level(frames[Len(frames)], regs, pc, stack)
<1>1. IsSeq(frames) /\ Len(frames) \in Nat
  BY SeqLength DEF IInv, Nested
<1>2. Len(frames) = 0 => InMain(regs, pc, stack)
  BY DEF IInv, Nested, Bottom
<1>3. Len(frames) > 0 => Level(frames[Len(frames)], regs, pc, stack)
  BY <1>1 DEF IInv, Nested, Levels
<1>4. Segmented(regs) /\ IsSeq(stack)
  BY <1>1, <1>2, <1>3, LevelBasics DEF InMain
<1> QED
  BY <1>1, <1>2, <1>3, <1>4

(* The interrupt gates keep devices from interrupting each other. *)
LEMMA OneDevice ==
  ASSUME IInv
  PROVE  RunToCompletion
<1>1. IsSeq(frames) /\ Len(frames) \in Nat /\ DOMAIN frames = 1 .. Len(frames)
  BY SeqLength DEF IInv, Nested
<1>2. ASSUME NEW i \in DOMAIN frames, NEW j \in DOMAIN frames, i < j,
             frames[i].vector >= 32, frames[j].vector >= 32
      PROVE  FALSE
  <2>1. i \in 1 .. Len(frames) /\ j \in 1 .. Len(frames)
    BY <1>1
  <2>2. frames[j].iflag = TRUE
    BY <1>2, <2>1 DEF IInv, Nested, FlagsAreDown
  <2> DEFINE k == j - 1
  <2>3. k \in i .. Len(frames) /\ k # Len(frames) /\ k + 1 = j
    BY <1>1, <1>2, <2>1
  <2> HIDE DEF k
  <2>4. frames[k + 1].iflag = FALSE
    BY <1>2, <2>1, <2>3 DEF IInv, Nested, FlagsAreDown
  <2> QED
    BY <2>2, <2>3, <2>4
<1>3. ASSUME NEW i \in DOMAIN frames, NEW j \in DOMAIN frames,
             frames[i].vector >= 32, frames[j].vector >= 32
      PROVE  i = j
  <2>1. i \in Nat /\ j \in Nat
    BY <1>1
  <2>2. ~ (i < j) /\ ~ (j < i)
    BY <1>2, <1>3
  <2> QED
    BY <2>1, <2>2
<1> QED
  BY <1>3 DEF RunToCompletion

(* send_EOI reaches all controllers that the interrupt came through. *)
LEMMA Acknowledged ==
  ASSUME NEW n \in 0 .. 15, IrqVector(n) \in Handled, isr = Lines(n)
  PROVE  send_EOI(IrqVector(n)) = {}
<1>1. n \in {0, 1, 12}
  BY DEF IrqVector, Handled
<1>2. CASE n = 12
  <2>1. isr = {2, 12} /\ IrqVector(n) = 44
    BY <1>2 DEF Lines, IrqVector
  <2>2. isr \cap Controller(0) = {2} /\ isr \cap Controller(8) = {12}
    BY <2>1 DEF Controller
  <2>3. Highest({2}) = {2} /\ Highest({12}) = {12}
    BY DEF Highest
  <2> QED
    BY <2>1, <2>2, <2>3 DEF send_EOI
<1>3. CASE n < 8
  <2>1. isr = {n} /\ isr \cap Controller(0) = {n}
    <3>1. isr = {n} /\ n \in 0 .. 7
      BY <1>3 DEF Lines
    <3>2. Controller(0) = 0 .. 7
      BY DEF Controller
    <3> QED
      BY <3>1, <3>2
  <2>2. Highest({n}) = {n}
    BY DEF Highest
  <2> QED
    BY <2>1, <2>2 DEF send_EOI
<1> QED
  BY <1>1, <1>2, <1>3

(* A gate is entered. *)
LEMMA Entering ==
  ASSUME NEW v \in Entered, NEW ret, Enter(v, ret), Segmented(regs), IsSeq(stack),
         iflag \in BOOLEAN, NEW f,
         f = [vector |-> v, regs |-> regs, pc |-> ret, iflag |-> iflag, stack |-> stack]
  PROVE  /\ Level(f, regs', pc', stack') /\ frames' = Append(frames, f)
         /\ Len(frames) < MaxDepth
         /\ iflag' = FALSE \/ iflag' = iflag
         /\ v >= 32 => iflag' = FALSE /\ Pending(f, pc')
<1> DEFINE t == <<<<"flags", iflag>>, <<"selector", 8>>, ret>>
<1>1. /\ v \in Vector /\ v \notin ErrorVectors /\ v \in Nat
  BY DEF Entered, Vector
<1>2. /\ Len(frames) < MaxDepth /\ frames' = Append(frames, f) /\ regs' = regs
      /\ pc' = <<"stub", v, 1>>
      /\ iflag' = (iflag /\ ~ InterruptGate(v))
      /\ stack' = stack \o t \o <<>>
  BY <1>1 DEF Enter
<1>3. iflag' = FALSE \/ iflag' = iflag
  <2>1. CASE InterruptGate(v)
    BY <1>2, <2>1
  <2>2. CASE ~ InterruptGate(v)
    BY <1>2, <2>2
  <2> QED
    BY <2>1, <2>2
<1>4. v >= 32 => iflag' = FALSE
  BY <1>2 DEF InterruptGate
<1>5. IsSeq(t) /\ Len(t) = 3 /\ IsSeq(<<>>) /\ Len(<<>>) = 0
  <2>1. t \in Seq({<<"flags", iflag>>, <<"selector", 8>>, ret})
    OBVIOUS
  <2>2. <<>> \in Seq({})
    OBVIOUS
  <2>3. IsSeq(t) /\ IsSeq(<<>>)
    BY <2>1, <2>2, Zenon DEF IsSeq
  <2> QED
    BY <2>3
<1>6. t[1] = <<"flags", iflag>> /\ t[2] = <<"selector", 8>> /\ t[3] = ret
  OBVIOUS
<1> HIDE DEF t
<1>7. /\ IsSeq(stack') /\ Len(stack') = Len(stack) + 3
      /\ \A i \in 1 .. Len(stack) : stack'[i] = stack[i]
      /\ \A i \in 1 .. 3 : stack'[Len(stack) + i] = t[i]
  <2> DEFINE u == stack \o t
  <2>1. Len(stack) \in Nat
    BY SeqLength
  <2>2. /\ IsSeq(u) /\ Len(u) = Len(stack) + 3
        /\ \A i \in 1 .. Len(stack) + 3 : u[i] = IF i <= Len(stack) THEN stack[i] ELSE t[i - Len(stack)]
    <3>1. /\ IsSeq(u) /\ Len(u) = Len(stack) + Len(t)
          /\ \A i \in 1 .. Len(stack) + Len(t) :
               u[i] = IF i <= Len(stack) THEN stack[i] ELSE t[i - Len(stack)]
      BY <1>5, SeqJoin
    <3> HIDE DEF u
    <3> QED
      BY <1>5, <3>1
  <2> HIDE DEF u
  <2>3. /\ IsSeq(u \o <<>>) /\ Len(u \o <<>>) = Len(u)
        /\ \A i \in 1 .. Len(u) : (u \o <<>>)[i] = u[i]
    <3>1. /\ IsSeq(u \o <<>>) /\ Len(u \o <<>>) = Len(u) + Len(<<>>)
          /\ \A i \in 1 .. Len(u) + Len(<<>>) :
               (u \o <<>>)[i] = IF i <= Len(u) THEN u[i] ELSE <<>>[i - Len(u)]
      BY <1>5, <2>2, SeqJoin, Zenon
    <3> QED
      BY <1>5, <2>1, <2>2, <3>1
  <2>4. stack' = u \o <<>>
    BY <1>2 DEF u
  <2>5. ASSUME NEW i \in 1 .. 3
        PROVE  stack'[Len(stack) + i] = t[i]
    BY <2>1, <2>2, <2>3, <2>4
  <2> QED
    BY <2>1, <2>2, <2>3, <2>4, <2>5
<1>8. ASSUME NEW words, words[1] = <<"flags", f.iflag>>, words[2] = <<"selector", 8>>,
             words[3] = f.pc
      PROVE  Holds(f, words, 3, {}, regs', stack')
  <2>1. On(stack, words, 3, stack')
    <3>1. \A i \in 1 .. 3 : t[i] = words[i]
      BY <1>6, <1>8
    <3> QED
      BY <1>7, <3>1 DEF On
  <2>2. Kept(f, regs', {})
    BY <1>2 DEF Kept, Segmented
  <2> QED
    BY <2>1, <2>2 DEF Holds
<1>9. Frame(f)
  BY DEF Frame
<1>10. f.vector = v
  OBVIOUS
<1>11. CASE v < 32
  <2>1. Holds(f, TrapWords(f), 3, {}, regs', stack')
    BY <1>8 DEF TrapWords
  <2>2. TrapStub(f, 1, regs', stack')
    BY <2>1 DEF TrapStub, TrapDepth, TrapChanged
  <2>3. v \notin Handled
    BY <1>1, <1>11 DEF Handled
  <2> QED
    BY <1>1, <1>2, <1>3, <1>9, <1>10, <1>11, <2>2, <2>3 DEF Level, Trapped
<1>12. CASE v \in Handled
  <2>1. Holds(f, DeviceWords(f), 3, {}, regs', stack')
    BY <1>8 DEF DeviceWords
  <2>2. DeviceDepth(v, 1) = 3 /\ DeviceChanged(v, 1) = {} /\ 1 \in 1 .. Restores(v) + 12
        /\ 1 \in 1 .. CallAt(v)
    BY DEF DeviceDepth, DeviceChanged, Restores, CallAt
  <2>3. DeviceStub(f, 1, regs', stack')
    BY <1>10, <2>1, <2>2 DEF DeviceStub
  <2>4. v >= 32 /\ ~ (v < 32)
    BY <1>12 DEF Handled
  <2>5. Served(f, regs', pc', stack') /\ Waiting(f, pc')
    BY <1>2, <1>10, <2>2, <2>3 DEF Served, Waiting
  <2> QED
    BY <1>2, <1>3, <1>4, <1>9, <1>10, <1>12, <2>4, <2>5 DEF Level, Pending
<1>13. CASE v >= 32 /\ v \notin Handled
  <2>1. Stopped(f, regs', pc', stack')
    BY <1>2, <1>7, <1>10 DEF Stopped
  <2>2. ~ (v < 32)
    BY <1>1, <1>13
  <2>3. Level(f, regs', pc', stack')
    BY <1>9, <1>10, <1>13, <2>1, <2>2 DEF Level
  <2>4. Pending(f, pc')
    BY <1>10, <1>13 DEF Pending
  <2> QED
    BY <1>2, <1>3, <1>4, <2>3, <2>4
<1>14. v < 32 \/ v \in Handled \/ (v >= 32 /\ v \notin Handled)
  BY <1>1
<1> QED
  BY <1>11, <1>12, <1>13, <1>14, Zenon

-----------------------------------------------------------------------------
LEMMA Initially ==
  Init => IInv
<1> SUFFICES ASSUME Init PROVE IInv
  OBVIOUS
<1>1. frames = <<>> /\ IsSeq(frames) /\ Len(frames) = 0
  <2>1. <<>> \in Seq({})
    OBVIOUS
  <2> QED
    BY <2>1, Zenon DEF Init, IsSeq, EmptySeq
<1>2. InMain(regs, pc, stack)
  <2>1. Segmented(regs)
    BY DEF Init, Segmented, Register, General, Segment
  <2>2. stack \in Seq({<<"main", "magic">>, <<"main", "mbs">>})
    BY DEF Init
  <2>3. IsSeq(stack)
    BY <2>2, Zenon DEF IsSeq
  <2> QED
    BY <2>1, <2>3 DEF InMain, Init
<1>3. Nested(frames, regs, pc, stack, iflag, isr)
  BY <1>1, <1>2 DEF Nested, Bottom, Levels, FlagsAreDown, InService, Init
<1>4. Len(frames) <= MaxDepth
  BY <1>1, InterruptsAssumption
<1>5. iflag \in BOOLEAN /\ nmi \in BOOLEAN /\ isr \subseteq 0 .. 15
  BY DEF Init
<1> QED
  BY <1>3, <1>4, <1>5 DEF IInv

LEMMA Booleans ==
  ASSUME IInv, Next
  PROVE  iflag' \in BOOLEAN /\ nmi' \in BOOLEAN
<1>1. iflag \in BOOLEAN /\ nmi \in BOOLEAN
  BY DEF IInv
<1>2. ASSUME NEW v, NEW ret, Enter(v, ret)
      PROVE  iflag' \in BOOLEAN
  <2>1. iflag' = (iflag /\ ~ InterruptGate(v))
    BY <1>2 DEF Enter
  <2>2. CASE InterruptGate(v)
    BY <2>1, <2>2
  <2>3. CASE ~ InterruptGate(v)
    BY <1>1, <2>1, <2>3
  <2> QED
    BY <2>2, <2>3
<1>3. CASE Int3
  BY <1>1, <1>2, <1>3 DEF Int3
<1>4. CASE SetFlag
  BY <1>1, <1>4 DEF SetFlag
<1>5. CASE Write \/ Load \/ Exchange \/ PopRegister \/ Call
  BY <1>1, <1>5 DEF Write, Load, Exchange, PopRegister, Call
<1>6. CASE Iret
  BY <1>6 DEF Iret
<1>7. CASE Trap \/ Device \/ Ret \/ handle_unhandled \/ halt
  BY <1>1, <1>7 DEF Trap, Device, Ret, handle_unhandled, halt
<1>8. CASE Nmi
  BY <1>2, <1>8 DEF Nmi
<1>9. CASE \E n \in Irqs : Irq(n)
  BY <1>1, <1>2, <1>9 DEF Irq
<1>10. CASE \E v \in Faults : Fault(v)
  BY <1>1, <1>2, <1>10 DEF Fault
<1> QED
  BY <1>3, <1>4, <1>5, <1>6, <1>7, <1>8, <1>9, <1>10 DEF Next, Processor

(* What was interrupted goes on, or returns. *)
LEMMA ProcessorStep ==
  ASSUME IInv, Len(frames) > 0, Processor, iflag' \in BOOLEAN, NEW f, f = frames[Len(frames)]
  PROVE  \/ /\ Nested(frames, regs', pc', stack', iflag', isr')
            /\ frames' = frames /\ isr' \subseteq isr
         \/ /\ Nested(Front(frames), regs', pc', stack', iflag', isr')
            /\ Returns(f) /\ (f.vector < 32 \/ f.vector \in Handled)
<1>1. /\ IsSeq(frames) /\ Len(frames) \in Nat /\ Level(f, regs, pc, stack)
      /\ Nested(frames, regs, pc, stack, iflag, isr)
  BY NestedBasics DEF IInv
<1>2. CASE /\ Returns(f) /\ ~ Pending(f, pc)
           /\ f.vector < 32 \/ f.vector \in Handled
  <2>1. Nested(Front(frames), f.regs, f.pc, f.stack, f.iflag, isr)
    BY <1>1, <1>2, NestedLeaves
  <2> QED
    BY <1>2, <2>1 DEF Returns
<1>3. CASE /\ Level(f, regs', pc', stack')
           /\ frames' = frames /\ nmi' = nmi
           /\ iflag' = iflag \/ iflag' = FALSE
           /\ \/ isr' = isr /\ (Pending(f, pc) => Pending(f, pc'))
              \/ isr' = send_EOI(f.vector) /\ f.vector \in Handled
  <2>1. isr' \subseteq isr
    BY <1>3 DEF send_EOI
  <2>2. isr' = {} \/ (isr' = isr /\ (Pending(f, pc) => Pending(f, pc')))
    <3>1. CASE isr' = send_EOI(f.vector) /\ f.vector \in Handled /\ isr # {}
      <4>1. PICK i \in 1 .. Len(frames), n \in 0 .. 15 :
              /\ frames[i].vector = IrqVector(n) /\ isr = Lines(n)
              /\ Pending(frames[i], IF i = Len(frames) THEN pc ELSE frames[i + 1].pc)
        BY <1>1, <3>1 DEF Nested, InService
      <4>2. frames[i].vector >= 32 /\ f.vector >= 32
        BY <3>1, <4>1 DEF Pending, Handled
      <4>3. DOMAIN frames = 1 .. Len(frames) /\ Len(frames) \in 1 .. Len(frames)
        BY <1>1, SeqLength
      <4>4. i = Len(frames)
        BY <4>2, <4>3, OneDevice DEF RunToCompletion
      <4> QED
        BY <3>1, <4>1, <4>4, Acknowledged
    <3> QED
      BY <1>3, <2>1, <3>1
  <2>3. Nested(frames, regs', pc', stack', iflag', isr')
    <3>1. Len(frames) = 0 => InMain(regs', pc', stack') /\ isr' = isr
      BY <1>1
    <3>2. Len(frames) > 0 =>
            /\ Level(frames[Len(frames)], regs', pc', stack')
            /\ iflag' = iflag \/ iflag' = FALSE
            /\ \/ isr' = {}
               \/ /\ isr' = isr
                  /\ Pending(frames[Len(frames)], pc) => Pending(frames[Len(frames)], pc')
      BY <1>3, <2>2
    <3> QED
      BY <1>1, <3>1, <3>2, NestedStays
  <2> QED
    BY <1>3, <2>1, <2>3
<1> QED
  BY <1>1, <1>2, <1>3, LevelStep

LEMMA MainStep ==
  ASSUME IInv, Len(frames) = 0, Processor, iflag' \in BOOLEAN
  PROVE  \/ /\ Nested(frames, regs', pc', stack', iflag', isr')
            /\ frames' = frames /\ isr' = isr
         \/ \E ret : InMain(regs, ret, stack) /\ Enter(3, ret) /\ isr' = isr
<1>1. /\ Nested(frames, regs, pc, stack, iflag, isr) /\ InMain(regs, pc, stack)
      /\ Len(frames) = 0
  BY NestedBasics DEF IInv
<1>2. PICK k \in 1 .. 5 : pc = <<"code", "main", k>>
  BY <1>1 DEF InMain
<1>3. After = <<"code", "main", k + 1>> /\ pc[1] = "code" /\ pc[2] = "main" /\ pc[3] = k
  BY <1>2 DEF After
<1>4. "main" \notin TrapHandlers
  BY HandlerNames
<1> HIDE DEF After
<1>5. Int3 \/ SetFlag
  BY <1>2, <1>3, <1>4 DEF Processor, Write, Load, Exchange, PopRegister, Call, Iret, At, Trap,
                          Device, Ret, handle_unhandled, halt, In
<1>6. Main[5] = "loop" /\ AtMain({"int3", "sti", "cli"})
  BY <1>5 DEF Main, Int3, SetFlag, AtMain
<1>7. k # 5
  BY <1>3, <1>6 DEF AtMain
<1>8. InMain(regs, After, stack)
  <2>1. k + 1 \in 1 .. 5
    BY <1>7
  <2> QED
    BY <1>1, <1>3, <2>1 DEF InMain
<1>9. CASE Int3
  BY <1>8, <1>9 DEF Int3
<1>10. CASE SetFlag
  <2>1. /\ regs' = regs /\ stack' = stack /\ pc' = After /\ frames' = frames /\ isr' = isr
    BY <1>10 DEF SetFlag
  <2>2. InMain(regs', pc', stack')
    BY <1>8, <2>1
  <2>3. ~ (Len(frames) > 0)
    BY <1>1
  <2>4. Nested(frames, regs', pc', stack', iflag', isr')
    <3>1. Len(frames) = 0 => InMain(regs', pc', stack') /\ isr' = isr
      BY <2>1, <2>2
    <3>2. Nested(frames, regs, pc, stack, iflag, isr)
      BY <1>1
    <3>3. ASSUME NEW r2, NEW p2, NEW s2, NEW b2, NEW lines2,
                 Len(frames) = 0 => InMain(r2, p2, s2) /\ lines2 = isr
          PROVE  Nested(frames, r2, p2, s2, b2, lines2)
      BY <2>3, <3>2, <3>3, NestedStays
    <3> QED
      BY <3>1, <3>3, Zenon
  <2> QED
    BY <2>1, <2>4
<1> QED
  BY <1>5, <1>9, <1>10

(* A gate is entered wherever an interrupt or exception is possible. *)
LEMMA Interrupted ==
  ASSUME IInv, NEW v \in Entered, NEW ret, Enter(v, ret),
         Len(frames) = 0 => InMain(regs, ret, stack),
         Len(frames) > 0 =>
           /\ Level(frames[Len(frames)], regs, ret, stack)
           /\ Pending(frames[Len(frames)], pc) => Pending(frames[Len(frames)], ret),
         \/ v < 32 /\ isr' = isr
         \/ /\ v >= 32 /\ iflag
            /\ \E n \in 0 .. 15 : v = IrqVector(n) /\ isr' = isr \cup Lines(n)
  PROVE  /\ Nested(frames', regs', pc', stack', iflag', isr')
         /\ Len(frames') <= MaxDepth
         /\ \E f : frames' = Append(frames, f)
<1> DEFINE f == [vector |-> v, regs |-> regs, pc |-> ret, iflag |-> iflag, stack |-> stack]
<1>1. /\ IsSeq(frames) /\ Len(frames) \in Nat /\ Segmented(regs) /\ IsSeq(stack)
      /\ Nested(frames, regs, pc, stack, iflag, isr) /\ iflag \in BOOLEAN
  BY NestedBasics DEF IInv
<1>2. Nested(frames, regs, ret, stack, iflag, isr)
  <2>1. Len(frames) = 0 => InMain(regs, ret, stack) /\ isr = isr
    OBVIOUS
  <2>2. Len(frames) > 0 =>
          /\ Level(frames[Len(frames)], regs, ret, stack)
          /\ iflag = iflag \/ iflag = FALSE
          /\ \/ isr = {}
             \/ /\ isr = isr
                /\ Pending(frames[Len(frames)], pc) => Pending(frames[Len(frames)], ret)
    OBVIOUS
  <2> QED
    BY <1>1, <2>1, <2>2, NestedStays
<1>3. /\ f.vector = v /\ f.regs = regs /\ f.pc = ret /\ f.iflag = iflag /\ f.stack = stack
      /\ f = [vector |-> v, regs |-> regs, pc |-> ret, iflag |-> iflag, stack |-> stack]
  OBVIOUS
<1> HIDE DEF f
<1>4. /\ Level(f, regs', pc', stack') /\ frames' = Append(frames, f)
      /\ Len(frames) < MaxDepth
      /\ iflag' = FALSE \/ iflag' = iflag
      /\ v >= 32 => iflag' = FALSE /\ Pending(f, pc')
  BY <1>1, <1>3, Entering
<1>5. Nested(Append(frames, f), regs', pc', stack', iflag', isr')
  <2>1. \/ f.vector < 32 /\ isr' = isr
        \/ /\ iflag = TRUE /\ iflag' = FALSE /\ Pending(f, pc')
           /\ \E n \in 0 .. 15 : f.vector = IrqVector(n) /\ isr' = isr \cup Lines(n)
    BY <1>1, <1>3, <1>4
  <2>2. Nested(frames, regs, f.pc, stack, iflag, isr)
    BY <1>2, <1>3
  <2> QED
    BY <1>1, <1>3, <1>4, <2>1, <2>2, NestedEnters
<1>6. Len(Append(frames, f)) = Len(frames) + 1
  BY <1>1, SeqAppend
<1>7. Len(frames') <= MaxDepth
  BY <1>1, <1>4, <1>6, InterruptsAssumption
<1> QED
  BY <1>4, <1>5, <1>7

(* Exceptions that the main program runs into have no error code: the stub *)
(* of those that have one does not return to where it should.              *)
LEMMA Step ==
  ASSUME IInv, Next, NoErrorCodes
  PROVE  /\ IInv'
         /\ \/ frames' = frames
            \/ \E f : frames' = Append(frames, f)
            \/ /\ Len(frames) > 0 /\ Returns(frames[Len(frames)])
               /\ frames[Len(frames)].vector < 32 \/ frames[Len(frames)].vector \in Handled
<1> DEFINE top == frames[Len(frames)]
           kept == frames' = frames \/ \E f : frames' = Append(frames, f)
           returned == /\ Len(frames) > 0 /\ Returns(top)
                       /\ top.vector < 32 \/ top.vector \in Handled
           good == /\ Nested(frames', regs', pc', stack', iflag', isr')
                   /\ Len(frames') <= MaxDepth /\ isr' \subseteq 0 .. 15
<1>1. /\ IsSeq(frames) /\ Len(frames) \in Nat /\ isr \subseteq 0 .. 15 /\ Len(frames) <= MaxDepth
      /\ Len(frames) = 0 => InMain(regs, pc, stack)
      /\ Len(frames) > 0 => Level(top, regs, pc, stack)
  BY NestedBasics DEF IInv
<1>2. iflag' \in BOOLEAN /\ nmi' \in BOOLEAN
  BY Booleans
<1>3. ASSUME NEW v \in Entered, NEW ret, Enter(v, ret), v < 32, isr' = isr,
             Len(frames) = 0 => InMain(regs, ret, stack),
             Len(frames) > 0 => /\ Level(top, regs, ret, stack)
                                /\ Pending(top, pc) => Pending(top, ret)
      PROVE  good /\ kept
  BY <1>1, <1>3, Interrupted
<1>4. 2 \in Entered /\ 3 \in Entered
  BY DEF Entered, Vector, ErrorVectors
<1>5. CASE Processor
  <2>1. CASE Len(frames) = 0
    <3>1. ~ (Len(frames) > 0)
      BY <2>1
    <3>2. CASE /\ Nested(frames, regs', pc', stack', iflag', isr')
               /\ frames' = frames /\ isr' = isr
      BY <1>1, <1>2, <3>2 DEF IInv
    <3>3. CASE \E ret : InMain(regs, ret, stack) /\ Enter(3, ret) /\ isr' = isr
      <4>1. PICK ret : InMain(regs, ret, stack) /\ Enter(3, ret) /\ isr' = isr
        BY <3>3
      <4>2. good /\ kept
        BY <1>3, <1>4, <3>1, <4>1
      <4> QED
        BY <1>2, <4>2 DEF IInv
    <3> QED
      BY <1>2, <1>5, <2>1, <3>2, <3>3, MainStep
  <2>2. CASE Len(frames) > 0
    <3>1. CASE /\ Nested(frames, regs', pc', stack', iflag', isr')
               /\ frames' = frames /\ isr' \subseteq isr
      BY <1>1, <1>2, <3>1 DEF IInv
    <3>2. CASE /\ Nested(Front(frames), regs', pc', stack', iflag', isr')
               /\ Returns(top) /\ (top.vector < 32 \/ top.vector \in Handled)
      <4>1. frames' = Front(frames) /\ isr' = isr
        BY <3>2 DEF Returns
      <4>2. Len(frames') = Len(frames) - 1
        <5>1. Len(frames) - 1 \in 0 .. Len(frames)
          BY <1>1, <2>2
        <5> QED
          BY <1>1, <4>1, <5>1, SeqPrefix DEF Front
      <4>3. Len(frames') <= MaxDepth
        BY <1>1, <4>2, InterruptsAssumption
      <4> QED
        BY <1>1, <1>2, <2>2, <3>2, <4>1, <4>3 DEF IInv
    <3> QED
      BY <1>2, <1>5, <2>2, <3>1, <3>2, ProcessorStep
  <2> QED
    BY <1>1, <2>1, <2>2
<1>6. CASE Nmi
  <2> DEFINE ret == IF pc = <<"code", "halt", 2>> THEN After ELSE pc
  <2>1. Enter(2, ret) /\ isr' = isr
    BY <1>6 DEF Nmi
  <2>2. CASE pc = <<"code", "halt", 2>>
    <3>1. ret = <<"code", "halt", 3>>
      BY <2>2 DEF After
    <3>2. Len(frames) # 0
      BY <1>1, <2>2 DEF InMain
    <3>3. Len(frames) > 0 /\ Level(top, regs, pc, stack)
      BY <1>1, <3>2
    <3> HIDE DEF top
    <3>4. top.vector \in Nat /\ Frame(top)
      BY <3>3, LevelBasics DEF Level
    <3>5. ~ (top.vector < 32)
      <4> SUFFICES ASSUME top.vector < 32 PROVE FALSE
        OBVIOUS
      <4>1. Trapped(top, regs, pc, stack)
        BY <3>3 DEF Level
      <4>2. TrapHandler(top.vector) \in TrapHandlers
        <5>1. top.vector \in (0 .. 31) \ {14}
          BY <3>4 DEF Frame, Entered, Vector, ErrorVectors
        <5> QED
          BY <5>1, Zenon DEF TrapHandlers
      <4>3. TrapHandler(top.vector) # "halt"
        BY <4>2, HandlerNames
      <4> QED
        BY <2>2, <4>1, <4>3 DEF Trapped
    <3>6. top.vector \notin Handled
      <4> SUFFICES ASSUME top.vector \in Handled PROVE FALSE
        OBVIOUS
      <4>1. Served(top, regs, pc, stack)
        BY <3>3 DEF Level
      <4> QED
        BY <2>2, <4>1 DEF Served, DeviceHandler
    <3>7. top.vector >= 32
      BY <3>4, <3>5
    <3>8. Level(top, regs, ret, stack) /\ Pending(top, ret)
      BY <3>1, <3>3, <3>5, <3>6, <3>7 DEF Level, Stopped, Pending
    <3> QED
      BY <1>2, <1>3, <1>4, <2>1, <3>2, <3>8 DEF IInv, top
  <2>3. CASE pc # <<"code", "halt", 2>>
    <3>1. ret = pc
      BY <2>3
    <3> HIDE DEF ret
    <3> QED
      BY <1>1, <1>2, <1>3, <1>4, <2>1, <3>1 DEF IInv
  <2> QED
    BY <2>2, <2>3
<1>7. ASSUME NEW n \in Irqs, Irq(n)
      PROVE  good /\ kept
  <2> DEFINE v == IrqVector(n)
  <2>1. n \in 0 .. 15
    BY InterruptsAssumption
  <2>2. v \in Entered /\ v >= 32
    BY <2>1 DEF IrqVector, Entered, Vector, ErrorVectors
  <2>3. Enter(v, pc) /\ iflag /\ isr' = isr \cup Lines(n)
    BY <1>7 DEF Irq
  <2>4. Lines(n) \subseteq 0 .. 15
    BY <2>1 DEF Lines
  <2>5. \E m \in 0 .. 15 : v = IrqVector(m) /\ isr' = isr \cup Lines(m)
    BY <2>1, <2>3
  <2> HIDE DEF v
  <2>6. isr' \subseteq 0 .. 15
    BY <1>1, <2>3, <2>4
  <2> QED
    BY <1>1, <2>2, <2>3, <2>5, <2>6, Interrupted
<1>8. ASSUME NEW v \in Faults, Fault(v)
      PROVE  good /\ kept
  <2>1. v \in Entered /\ v < 32
    <3>1. v \in 0 .. 31 /\ v \notin ErrorVectors
      BY InterruptsAssumption DEF NoErrorCodes
    <3> QED
      BY <3>1 DEF Entered, Vector, ErrorVectors
  <2>2. Enter(v, pc) /\ isr' = isr
    BY <1>8 DEF Fault
  <2> QED
    BY <1>1, <1>3, <2>1, <2>2
<1> QED
  BY <1>2, <1>5, <1>6, <1>7, <1>8 DEF Next, IInv

LEMMA Invariance ==
  ASSUME NoErrorCodes
  PROVE  Spec => []IInv
<1>1. IInv /\ [Next]_vars => IInv'
  <2> SUFFICES ASSUME IInv, [Next]_vars PROVE IInv'
    OBVIOUS
  <2>1. CASE Next
    BY <2>1, Step
  <2>2. CASE UNCHANGED vars
    BY <2>2 DEF IInv, vars
  <2> QED
    BY <2>1, <2>2
<1> QED
  BY <1>1, Initially, PTL DEF Spec

-----------------------------------------------------------------------------
(* Theorems, for any lines in use, any exceptions without an error code and *)
(* any depth of interruptions.                                              *)

(* The program counter stays in code, and the segment registers hold the    *)
(* kernel's selector wherever the kernel is interrupted: intr_keyboard may  *)
(* restore the value of ds into fs.                                         *)
THEOREM TypeCorrect ==
  ASSUME NoErrorCodes
  PROVE  Spec => []TypeOK
<1>1. IInv => TypeOK
  <2> SUFFICES ASSUME IInv PROVE TypeOK
    OBVIOUS
  <2>1. /\ Segmented(regs) /\ IsSeq(frames) /\ Len(frames) \in Nat
        /\ Len(frames) = 0 => InMain(regs, pc, stack)
        /\ Len(frames) > 0 => Level(frames[Len(frames)], regs, pc, stack)
    BY NestedBasics
  <2>2. pc[1] \in {"stub", "code"}
    <3>1. CASE Len(frames) = 0
      BY <2>1, <3>1 DEF InMain
    <3>2. CASE Len(frames) > 0
      <4> DEFINE f == frames[Len(frames)]
      <4>1. Level(f, regs, pc, stack) /\ f.vector \in Nat
        BY <2>1, <3>2, LevelBasics
      <4> HIDE DEF f
      <4>2. f.vector < 32 => pc[1] \in {"stub", "code"}
        BY <4>1 DEF Level, Trapped
      <4>3. f.vector \in Handled => pc[1] \in {"stub", "code"}
        BY <4>1 DEF Level, Served
      <4>4. f.vector >= 32 /\ f.vector \notin Handled => pc[1] \in {"stub", "code"}
        BY <4>1 DEF Level, Stopped
      <4> QED
        BY <4>1, <4>2, <4>3, <4>4
    <3> QED
      BY <2>1, <3>1, <3>2
  <2> QED
    BY <2>1, <2>2 DEF IInv, TypeOK, Segmented
<1> QED
  BY <1>1, Invariance, PTL

(* The handlers of exceptions get the place the processor pushed and the    *)
(* error code, 0 where there is none, as their arguments.                   *)
THEOREM ArgumentsRight ==
  ASSUME NoErrorCodes
  PROVE  Spec => []HandlerArguments
<1>1. IInv => HandlerArguments
  <2> SUFFICES ASSUME IInv, NEW h \in TrapHandlers, pc = <<"code", h, 1>>
               PROVE  LET f == Last(frames)
                          n == Len(stack)
                      IN  /\ stack[n - 1] = <<"address", Len(f.stack) + 3>>
                          /\ stack[n - 2] = IF f.vector \in ErrorVectors THEN <<"error", f.vector>>
                                            ELSE <<"imm", 0>>
    BY DEF HandlerArguments, In
  <2> DEFINE f == frames[Len(frames)]
  <2>1. /\ IsSeq(stack) /\ Len(frames) \in Nat
        /\ Len(frames) = 0 => InMain(regs, pc, stack)
        /\ Len(frames) > 0 => Level(f, regs, pc, stack)
    BY NestedBasics
  <2>2. h \notin {"main", "halt", "handle_unhandled", "handle_timer", "handle_keyboard", "handle_mouse"}
    BY HandlerNames
  <2>3. Last(frames) = f
    BY DEF Last
  <2> HIDE DEF f
  <2>4. Len(frames) # 0
    BY <2>1, <2>2 DEF InMain
  <2>5. Level(f, regs, pc, stack) /\ Frame(f) /\ f.vector \in Nat
    <3>1. Level(f, regs, pc, stack)
      BY <2>1, <2>4
    <3> QED
      BY <3>1, LevelBasics DEF Level
  <2>6. f.vector \notin Handled
    BY <2>2, <2>5 DEF Level, Served, DeviceHandler
  <2>7. f.vector < 32
    BY <2>2, <2>5, <2>6 DEF Level, Stopped
  <2>8. Holds(f, TrapWords(f), 16, {"eax", "ecx", "edx"}, regs, stack)
    BY <2>5, <2>7 DEF Level, Trapped
  <2>9. On(f.stack, TrapWords(f), 16, stack) /\ IsSeq(f.stack)
    BY <2>5, <2>8 DEF Holds, Frame
  <2> DEFINE words == TrapWords(f)
  <2>10. words[15] = <<"address", Len(f.stack) + 3>> /\ words[14] = <<"imm", 0>>
    BY DEF TrapWords
  <2> HIDE DEF words
  <2>11. stack[Len(stack) - 1] = words[15] /\ stack[Len(stack) - 2] = words[14]
    <3>1. /\ Len(f.stack) \in Nat /\ Len(stack) = Len(f.stack) + 16
          /\ \A i \in 1 .. 16 : stack[Len(f.stack) + i] = words[i]
      BY <2>9, SeqLength DEF On, words
    <3>2. /\ stack[Len(f.stack) + 15] = words[15] /\ stack[Len(f.stack) + 14] = words[14]
          /\ Len(stack) - 1 = Len(f.stack) + 15 /\ Len(stack) - 2 = Len(f.stack) + 14
      BY <3>1
    <3> QED
      BY <3>2
  <2>12. f.vector \notin ErrorVectors
    BY <2>5 DEF Frame, Entered
  <2> QED
    BY <2>3, <2>10, <2>11, <2>12
<1> QED
  BY <1>1, Invariance, PTL

(* No device interrupts the handler of another or of its own, nor a stub    *)
(* around one, through whatever exceptions in between.                      *)
THEOREM DevicesRunToCompletion ==
  ASSUME NoErrorCodes
  PROVE  Spec => []RunToCompletion
BY OneDevice, Invariance, PTL

(* When interrupts are enabled, no line is in service: send_EOI has         *)
(* acknowledged the last one at both controllers before the iret.           *)
THEOREM AllAcknowledged ==
  ASSUME NoErrorCodes
  PROVE  Spec => []NoneInService
<1>1. IInv => NoneInService
  <2> SUFFICES ASSUME IInv, iflag, isr # {} PROVE FALSE
    BY DEF NoneInService
  <2>1. PICK i \in 1 .. Len(frames) :
          Pending(frames[i], IF i = Len(frames) THEN pc ELSE frames[i + 1].pc)
    BY DEF IInv, Nested, InService
  <2>2. frames[i].vector >= 32 /\ Len(frames) \in i .. Len(frames)
    BY <2>1, NestedBasics DEF Pending
  <2>3. iflag = FALSE
    BY <2>2 DEF IInv, Nested, FlagsAreDown
  <2> QED
    BY <2>3
<1> QED
  BY <1>1, Invariance, PTL

(* Whatever is interrupted, also another stub, finds its registers, flags,  *)
(* stack and place again.                                                   *)
THEOREM StubsAreTransparent ==
  ASSUME NoErrorCodes
  PROVE  Spec => Transparent
<1> DEFINE restored == Len(frames') < Len(frames) =>
             LET f == Last(frames)
             IN  /\ regs' = f.regs /\ pc' = f.pc /\ iflag' = f.iflag
                 /\ stack' = f.stack
<1>1. IInv /\ [Next]_vars => [restored]_vars
  <2> SUFFICES ASSUME IInv, Next, Len(frames') < Len(frames)
               PROVE  LET f == Last(frames)
                      IN  /\ regs' = f.regs /\ pc' = f.pc /\ iflag' = f.iflag
                          /\ stack' = f.stack
    OBVIOUS
  <2>1. IsSeq(frames) /\ Len(frames) \in Nat
    BY NestedBasics
  <2>2. frames' # frames
    BY <2>1
  <2>3. ~ \E f : frames' = Append(frames, f)
    BY <2>1, SeqAppend
  <2>4. Returns(frames[Len(frames)])
    BY <2>2, <2>3, Step
  <2> QED
    BY <2>4 DEF Returns, Last
<1> QED
  BY <1>1, Invariance, PTL DEF Spec, Transparent

(* A device interrupt without a handler never returns.                      *)
THEOREM UnhandledStops ==
  ASSUME NoErrorCodes
  PROVE  Spec => HaltIsFinal
<1> DEFINE final == \A i \in DOMAIN frames :
             frames[i].vector >= 32 /\ frames[i].vector \notin Handled => i <= Len(frames')
<1>1. IInv /\ [Next]_vars => [final]_vars
  <2> SUFFICES ASSUME IInv, Next, NEW i \in DOMAIN frames,
                      frames[i].vector >= 32, frames[i].vector \notin Handled
               PROVE  i <= Len(frames')
    OBVIOUS
  <2>1. IsSeq(frames) /\ Len(frames) \in Nat /\ i \in 1 .. Len(frames)
    BY NestedBasics, SeqLength
  <2>2. CASE frames' = frames
    BY <2>1, <2>2
  <2>3. CASE \E f : frames' = Append(frames, f)
    BY <2>1, <2>3, SeqAppend
  <2>4. CASE /\ Len(frames) > 0 /\ Returns(frames[Len(frames)])
             /\ frames[Len(frames)].vector < 32 \/ frames[Len(frames)].vector \in Handled
    <3>1. i # Len(frames)
      <4>1. frames[i].vector \in Nat
        BY <2>1, LevelBasics DEF IInv, Nested, Levels
      <4> QED
        BY <2>4, <4>1
    <3>2. Len(frames') = Len(frames) - 1
      <4>1. Len(frames) - 1 \in 0 .. Len(frames)
        BY <2>1, <2>4
      <4> QED
        BY <2>1, <2>4, <4>1, SeqPrefix DEF Front, Returns
    <3> QED
      BY <2>1, <3>1, <3>2
  <2> QED
    BY <2>2, <2>3, <2>4, Step
<1> QED
  BY <1>1, Invariance, PTL DEF Spec, HaltIsFinal
=============================================================================
