--------------------------- MODULE LibraryProofs ---------------------------
(***************************************************************************)
(* The library.  lib/string.c: memcpy, memmove and memset, for a memory of *)
(* every size, every number of chars and every way that the blocks         *)
(* overlap; the comparisons; and the copying of strings.  fs/tarfs.c: the  *)
(* lookup in a tar archive, for every archive, of any number of files, of  *)
(* any sizes, with any data between their headers.  lib/snprintf.c: every  *)
(* call of snprintf whose arguments are what its directives stand for      *)
(* prints what the C standard says.                                        *)
(***************************************************************************)
EXTENDS Library, SequenceTheorems, WellFoundedInduction, TLAPS

-----------------------------------------------------------------------------
(* Induction, and the functions that a recursion describes. *)

(* The least-number principle. *)
LEMMA Least ==
  ASSUME NEW T \in SUBSET Nat, T # {}
  PROVE  \E x \in T : \A y \in T : x <= y
<1> DEFINE R == OpToRel(<, Nat)
<1>1. IsWellFoundedOn(R, Nat)
  BY NatLessThanWellFounded, Zenon
<1>2. \A x, y \in T : <<y, x>> \in R <=> y < x
  BY DEF OpToRel
<1> HIDE DEF R
<1>3. PICK x \in T : \A y \in T : ~(<<y, x>> \in R)
  BY <1>1, WFMin
<1>4. \A y \in T : ~(y < x)
  BY <1>2, <1>3, Zenon
<1>5. \A y \in T : x \in Nat /\ y \in Nat
  OBVIOUS
<1> QED
  BY <1>4, <1>5

(* Mathematical induction, for a set of natural numbers. *)
LEMMA Induction ==
  ASSUME NEW T, 0 \in T, \A n \in Nat : n \in T => n + 1 \in T
  PROVE  \A n \in Nat : n \in T
<1> DEFINE others == {n \in Nat : n \notin T}
<1> SUFFICES ASSUME others # {}
             PROVE  FALSE
  OBVIOUS
<1>1. PICK n \in others : \A k \in others : n <= k
  BY Least
<1>2. n \in Nat /\ n \notin T /\ n # 0
  OBVIOUS
<1>3. n - 1 \in Nat /\ n - 1 \notin T
  BY <1>2
<1>4. n - 1 \in others
  BY <1>3
<1> HIDE DEF others
<1> QED
  BY <1>1, <1>2, <1>4

(* The same from all smaller numbers. *)
LEMMA StrongInduction ==
  ASSUME NEW T, \A n \in Nat : (\A k \in 0 .. n - 1 : k \in T) => n \in T
  PROVE  \A n \in Nat : n \in T
<1> DEFINE others == {n \in Nat : n \notin T}
<1> SUFFICES ASSUME others # {}
             PROVE  FALSE
  OBVIOUS
<1>1. PICK n \in others : \A k \in others : n <= k
  BY Least
<1>2. n \in Nat /\ n \notin T
  OBVIOUS
<1>3. ASSUME NEW k \in 0 .. n - 1
      PROVE  k \in T
  <2>1. k \in Nat /\ ~(n <= k)
    BY <1>2
  <2> QED
    BY <1>1, <2>1
<1> QED
  BY <1>2, <1>3

(* g is described by a recursion from each number to the next one.         *)
Recursive(g, e, N, F) == \A k \in 0 .. N : g[k] = IF k = 0 THEN e ELSE F[<<g[k - 1], k>>]

(* There is a function that a recursion describes.                         *)
LEMMA Recursion ==
  ASSUME NEW S, NEW e \in S, NEW N \in Nat, NEW F \in [S \X (1 .. N) -> S]
  PROVE  \E g \in [0 .. N -> S] : Recursive(g, e, N, F)
<1> DEFINE Good(n, g) == \A k \in 0 .. n : g[k] = IF k = 0 THEN e ELSE F[<<g[k - 1], k>>]
           T == {n \in Nat : n <= N => \E g \in [0 .. n -> S] : Good(n, g)}
<1>1. 0 \in T
  <2> DEFINE g == [k \in 0 .. 0 |-> e]
  <2>1. g \in [0 .. 0 -> S] /\ Good(0, g)
    OBVIOUS
  <2> QED
    BY <2>1
<1>2. ASSUME NEW n \in Nat, n \in T
      PROVE  n + 1 \in T
  <2> SUFFICES ASSUME n + 1 <= N
               PROVE  \E g \in [0 .. n + 1 -> S] : Good(n + 1, g)
    OBVIOUS
  <2>1. PICK g \in [0 .. n -> S] : Good(n, g)
    BY <1>2
  <2> DEFINE h == [k \in 0 .. n + 1 |-> IF k <= n THEN g[k] ELSE F[<<g[n], n + 1>>]]
  <2>2. F[<<g[n], n + 1>>] \in S
    <3>1. <<g[n], n + 1>> \in S \X (1 .. N)
      OBVIOUS
    <3> QED
      BY <3>1
  <2>3. h \in [0 .. n + 1 -> S]
    BY <2>2
  <2>4. ASSUME NEW k \in 0 .. n + 1
        PROVE  h[k] = IF k = 0 THEN e ELSE F[<<h[k - 1], k>>]
    <3>1. CASE k <= n
      <4>1. h[k] = g[k] /\ k \in 0 .. n
        BY <3>1
      <4>2. k # 0 => h[k - 1] = g[k - 1]
        BY <4>1
      <4> HIDE DEF h
      <4> QED
        BY <2>1, <4>1, <4>2
    <3>2. CASE k = n + 1
      <4>1. h[k] = F[<<g[n], n + 1>>] /\ k - 1 = n /\ k # 0 /\ h[n] = g[n]
        BY <3>2
      <4> HIDE DEF h
      <4> QED
        BY <3>2, <4>1
    <3> QED
      BY <3>1, <3>2
  <2> HIDE DEF h
  <2> QED
    BY <2>3, <2>4
<1>3. N \in T
  <2> HIDE DEF T
  <2> QED
    BY <1>1, <1>2, Induction
<1> QED
  BY <1>3 DEF Recursive

(* Octal digits stand for a natural number. *)
LEMMA OctalIsNat ==
  ASSUME NEW e \in Seq(0 .. 7)
  PROVE  Tar!Octal(e) \in Nat
<1> DEFINE F == [p \in Nat \X (1 .. Len(e)) |-> p[1] * 8 + e[p[2]]]
           value == CHOOSE f : f = [n \in 0 .. Len(e) |-> IF n = 0 THEN 0 ELSE f[n - 1] * 8 + e[n]]
<1>1. Len(e) \in Nat /\ \A n \in 1 .. Len(e) : e[n] \in 0 .. 7
  BY LenProperties, ElementOfSeq
<1>2. F \in [Nat \X (1 .. Len(e)) -> Nat]
  BY <1>1
<1>3. ASSUME NEW m \in Nat, NEW n \in 1 .. Len(e)
      PROVE  F[<<m, n>>] = m * 8 + e[n]
  OBVIOUS
<1> HIDE DEF F
<1>4. PICK g \in [0 .. Len(e) -> Nat] : Recursive(g, 0, Len(e), F)
  BY <1>1, <1>2, 0 \in Nat, Recursion, Zenon
<1>5. ASSUME NEW n \in 0 .. Len(e)
      PROVE  g[n] = IF n = 0 THEN 0 ELSE g[n - 1] * 8 + e[n]
  <2>1. n # 0 => n - 1 \in 0 .. Len(e) /\ n \in 1 .. Len(e)
    BY <1>1
  <2> QED
    BY <1>3, <1>4, <2>1 DEF Recursive
<1>6. g = [n \in 0 .. Len(e) |-> IF n = 0 THEN 0 ELSE g[n - 1] * 8 + e[n]]
  BY <1>5
<1>7. value = [n \in 0 .. Len(e) |-> IF n = 0 THEN 0 ELSE value[n - 1] * 8 + e[n]]
  BY <1>6, Zenon
<1>8. Tar!Octal(e) = value[Len(e)]
  BY DEF Tar!Octal
<1> HIDE DEF value
<1> DEFINE T == {n \in Nat : n <= Len(e) => value[n] \in Nat}
<1>9. 0 \in T
  BY <1>1, <1>7
<1>10. ASSUME NEW n \in Nat, n \in T
       PROVE  n + 1 \in T
  <2>1. ASSUME n + 1 <= Len(e)
        PROVE  value[n + 1] \in Nat
    <3>1. /\ n + 1 \in 0 .. Len(e) /\ n + 1 # 0 /\ (n + 1) - 1 = n
          /\ value[n] \in Nat /\ e[n + 1] \in 0 .. 7
      BY <1>1, <1>10, <2>1
    <3>2. value[n + 1] = value[n] * 8 + e[n + 1]
      BY <1>7, <3>1
    <3> QED
      BY <3>1, <3>2
  <2> QED
    BY <2>1
<1>11. \A n \in Nat : n \in T
  <2> HIDE DEF T
  <2> QED
    BY <1>9, <1>10, Induction
<1> QED
  BY <1>1, <1>8, <1>11

-----------------------------------------------------------------------------
(* lib/string.c: the blocks. *)
(* The memory after n chars from the position from of the block are done.  *)
Done(from, n) ==
  [a \in Addr |-> IF a \in call.dest + from .. call.dest + from + n - 1
                    THEN IF call.fn = "memset" THEN call.src % 256
                         ELSE call.mem[call.src + (a - call.dest)]
                    ELSE call.mem[a]]

(* The call is one of the instance, at any time. *)
Called == call \in Calls

(* The loop has done the first i chars, or the last num - i of them.       *)
Progress ==
  call.fn \in Block =>
    /\ pc \in {"loop", "returned"}
    /\ i \in 0 .. call.num
    /\ mem = IF Downwards(call) THEN Done(i, call.num - i) ELSE Done(0, i)

Blocks == Called /\ Progress

LEMMA CallType ==
  ASSUME StringAssumption, Called, call.fn \in Block
  PROVE  /\ Size \in Nat
         /\ call.dest \in Nat /\ call.src \in Nat /\ call.num \in Nat
         /\ call.mem \in [Addr -> Char]
         /\ call.dest + call.num <= Size
         /\ call.fn \in {"memcpy", "memmove"} => call.src + call.num <= Size
         /\ call.fn = "memcpy" =>
              call.dest + call.num <= call.src \/ call.src + call.num <= call.dest
BY DEF StringAssumption, Called, Call

(* One more char done, at the end of those done or in front of them.       *)
LEMMA OneMore ==
  ASSUME NEW from \in Nat, NEW n \in Nat, NEW p \in Nat, call.dest \in Nat,
         p = from + n \/ p + 1 = from,
         call.dest + p \in Addr
  PROVE  [Done(from, n) EXCEPT ![call.dest + p] =
            IF call.fn = "memset" THEN call.src % 256 ELSE call.mem[call.src + p]]
          = Done(IF p < from THEN p ELSE from, n + 1)
<1> DEFINE char(a) == IF call.fn = "memset" THEN call.src % 256
                      ELSE call.mem[call.src + (a - call.dest)]
           low == IF p < from THEN p ELSE from
           new == [Done(from, n) EXCEPT ![call.dest + p] =
                     IF call.fn = "memset" THEN call.src % 256 ELSE call.mem[call.src + p]]
<1> SUFFICES ASSUME NEW a \in Addr
             PROVE  new[a] = Done(low, n + 1)[a]
  BY DEF Done
<1>1. a \in Int /\ low \in Nat
  BY DEF Addr
<1>2. Done(low, n + 1)[a] = IF a \in call.dest + low .. call.dest + low + (n + 1) - 1
                              THEN char(a) ELSE call.mem[a]
  BY DEF Done
<1>3. Done(from, n)[a] = IF a \in call.dest + from .. call.dest + from + n - 1
                           THEN char(a) ELSE call.mem[a]
  BY DEF Done
<1>4. CASE a = call.dest + p
  <2>1. new[a] = IF call.fn = "memset" THEN call.src % 256 ELSE call.mem[call.src + p]
    BY <1>4 DEF Done
  <2>2. a - call.dest = p /\ a \in call.dest + low .. call.dest + low + (n + 1) - 1
    BY <1>1, <1>4
  <2> QED
    BY <1>2, <2>1, <2>2
<1>5. CASE a # call.dest + p
  <2>1. new[a] = Done(from, n)[a]
    BY <1>5 DEF Done
  <2>2. a \in call.dest + low .. call.dest + low + (n + 1) - 1
          <=> a \in call.dest + from .. call.dest + from + n - 1
    BY <1>1, <1>5
  <2> QED
    BY <1>2, <1>3, <2>1, <2>2
<1> QED
  BY <1>4, <1>5

LEMMA InitBlocks == StringAssumption /\ Init => Blocks
<1> SUFFICES ASSUME StringAssumption, Init, call.fn \in Block
             PROVE  Progress
  BY DEF Init, Blocks, Called, Progress
<1>1. Called
  BY DEF Init, Called
<1>2. mem = call.mem /\ pc = "loop" /\ i = IF Downwards(call) THEN call.num ELSE 0
  BY DEF Init, Start, Block
<1>3. ASSUME NEW from \in Nat
      PROVE  Done(from, 0) = call.mem
  <2>1. call.mem \in [Addr -> Char] /\ call.dest \in Nat
    BY <1>1, CallType
  <2>2. \A a \in Addr : a \notin call.dest + from .. call.dest + from + 0 - 1
    BY <2>1 DEF Addr
  <2>3. Done(from, 0) = [a \in Addr |-> call.mem[a]]
    BY <2>2 DEF Done
  <2> QED
    BY <2>1, <2>3
<1> QED
  BY <1>1, <1>2, <1>3, CallType DEF Progress

LEMMA NextBlocks == StringAssumption /\ Blocks /\ [Next]_vars => Blocks'
<1> SUFFICES ASSUME StringAssumption, Blocks, [Next]_vars
             PROVE  Blocks'
  OBVIOUS
<1>1. call' = call
  BY DEF Next, vars, CopyUp, CopyDown, Fill, BlockEnd, Strlen, CopyString, CopyAtMost,
         AtMostEnd, Compare, CompareEnd
<1>2. Called'
  BY <1>1 DEF Blocks, Called
<1> SUFFICES ASSUME call.fn \in Block
             PROVE  Progress'
  BY <1>1, <1>2 DEF Blocks, Progress
<1>3. /\ call.dest \in Nat /\ call.src \in Nat /\ call.num \in Nat /\ Size \in Nat
      /\ call.dest + call.num <= Size
      /\ call.fn \in {"memcpy", "memmove"} => call.src + call.num <= Size
      /\ call.fn = "memcpy" =>
           call.dest + call.num <= call.src \/ call.src + call.num <= call.dest
  BY CallType DEF Blocks
<1>4. /\ pc \in {"loop", "returned"}
      /\ i \in 0 .. call.num
      /\ mem = IF Downwards(call) THEN Done(i, call.num - i) ELSE Done(0, i)
  BY DEF Blocks, Progress
<1>5. CASE CopyUp
  <2>1. ~Downwards(call) /\ call.fn \in {"memcpy", "memmove"} /\ i < call.num
        /\ i' = i + 1 /\ pc' = pc
    BY <1>5 DEF CopyUp, Upwards, Downwards
  <2>2. mem = Done(0, i)
    BY <1>4, <2>1
  <2>3. call.src + i \in Addr /\ call.src + i \notin call.dest + 0 .. call.dest + 0 + i - 1
    BY <1>3, <1>4, <1>5, <2>1 DEF CopyUp, Upwards, Downwards, Addr
  <2>4. mem[call.src + i] = call.mem[call.src + i]
    BY <2>2, <2>3 DEF Done
  <2>5. mem' = [Done(0, i) EXCEPT ![call.dest + i] = call.mem[call.src + i]]
    BY <1>5, <2>2, <2>4 DEF CopyUp
  <2>6. mem' = Done(0, i + 1)
    <3>1. i \in Nat /\ call.dest + i \in Addr /\ ~(i < 0) /\ i = 0 + i
      BY <1>3, <1>4, <2>1 DEF Addr
    <3> QED
      BY <1>3, <2>1, <2>5, <3>1, OneMore
  <2> QED
    BY <1>1, <1>3, <1>4, <2>1, <2>6 DEF Progress, Done
<1>6. CASE CopyDown
  <2>1. Downwards(call) /\ call.fn = "memmove" /\ call.dest > call.src /\ i # 0
        /\ i' = i - 1 /\ pc' = pc
    BY <1>6 DEF CopyDown, Downwards
  <2>2. mem = Done(i, call.num - i)
    BY <1>4, <2>1
  <2>3. /\ call.src + i - 1 \in Addr
        /\ call.src + i - 1 \notin call.dest + i .. call.dest + i + (call.num - i) - 1
    BY <1>3, <1>4, <2>1 DEF Addr
  <2>4. mem[call.src + i - 1] = call.mem[call.src + i - 1]
    BY <2>2, <2>3 DEF Done
  <2>5. mem' = [Done(i, call.num - i) EXCEPT ![call.dest + i - 1] = call.mem[call.src + i - 1]]
    BY <1>6, <2>2, <2>4 DEF CopyDown
  <2>6. mem' = Done(i - 1, call.num - (i - 1))
    <3> DEFINE p == i - 1
               n == call.num - i
    <3>1. /\ i \in Nat /\ p \in Nat /\ n \in Nat
          /\ p + 1 = i /\ p < i /\ n + 1 = call.num - (i - 1)
          /\ call.dest + p \in Addr /\ call.dest + p = call.dest + i - 1
          /\ call.src + p = call.src + i - 1
      BY <1>3, <1>4, <2>1 DEF Addr
    <3>2. mem' = [Done(i, n) EXCEPT ![call.dest + p] = call.mem[call.src + p]]
      BY <2>5, <3>1
    <3> HIDE DEF p, n
    <3>3. \A from \in Nat, k \in Nat, q \in Nat :
            (q = from + k \/ q + 1 = from) /\ call.dest + q \in Addr =>
              [Done(from, k) EXCEPT ![call.dest + q] =
                 IF call.fn = "memset" THEN call.src % 256 ELSE call.mem[call.src + q]]
              = Done(IF q < from THEN q ELSE from, k + 1)
      BY <1>3, OneMore
    <3>4. mem' = Done(p, n + 1)
      <4>1. [Done(i, n) EXCEPT ![call.dest + p] =
               IF call.fn = "memset" THEN call.src % 256 ELSE call.mem[call.src + p]]
            = Done(IF p < i THEN p ELSE i, n + 1)
        <5>1. i \in Nat /\ n \in Nat /\ p \in Nat /\ p + 1 = i /\ call.dest + p \in Addr
          BY <3>1
        <5>2. \A q \in Nat : q + 1 = i /\ call.dest + q \in Addr =>
                [Done(i, n) EXCEPT ![call.dest + q] =
                   IF call.fn = "memset" THEN call.src % 256 ELSE call.mem[call.src + q]]
                = Done(IF q < i THEN q ELSE i, n + 1)
          BY <5>1, <3>3
        <5> QED
          BY <5>1, <5>2, Zenon
      <4> QED
        BY <2>1, <3>1, <3>2, <4>1, Zenon
    <3> QED
      BY <3>1, <3>4 DEF p
  <2> QED
    BY <1>1, <1>3, <1>4, <2>1, <2>6 DEF Progress, Done
<1>7. CASE Fill
  <2>1. ~Downwards(call) /\ call.fn = "memset" /\ i < call.num /\ i' = i + 1 /\ pc' = pc
    BY <1>7 DEF Fill, Downwards
  <2>2. mem = Done(0, i)
    BY <1>4, <2>1
  <2>3. mem' = [Done(0, i) EXCEPT ![call.dest + i] = call.src % 256]
    BY <1>7, <2>2 DEF Fill
  <2>4. mem' = Done(0, i + 1)
    <3>1. i \in Nat /\ call.dest + i \in Addr /\ ~(i < 0) /\ i = 0 + i
      BY <1>3, <1>4, <2>1 DEF Addr
    <3> QED
      BY <1>3, <2>1, <2>3, <3>1, OneMore
  <2> QED
    BY <1>1, <1>3, <1>4, <2>1, <2>4 DEF Progress, Done
<1>8. CASE BlockEnd
  BY <1>1, <1>4, <1>8 DEF BlockEnd, Return, Progress, Done
<1>9. CASE UNCHANGED vars
  BY <1>1, <1>4, <1>9 DEF vars, Progress, Done
(* The other functions have calls of their own. *)
<1>10. ~(Strlen \/ CopyString \/ CopyAtMost \/ AtMostEnd \/ Compare \/ CompareEnd)
  BY <1>4 DEF Strlen, CopyString, CopyAtMost, AtMostEnd, Compare, CompareEnd, Counted,
              Block, Comparing
<1> QED
  BY <1>5, <1>6, <1>7, <1>8, <1>9, <1>10 DEF Next

LEMMA NextRight ==
  StringAssumption /\ Blocks /\ BlocksRight /\ [Next]_vars => BlocksRight'
<1> SUFFICES ASSUME StringAssumption, Blocks, BlocksRight, [Next]_vars,
                    pc' = "returned", call'.fn \in Block
             PROVE  BlocksRight'
  BY DEF BlocksRight
<1>1. call' = call
  BY DEF Next, vars, CopyUp, CopyDown, Fill, BlockEnd, Strlen, CopyString, CopyAtMost,
         AtMostEnd, Compare, CompareEnd
<1>2. BlockEnd \/ UNCHANGED vars
  BY <1>1 DEF Next, CopyUp, CopyDown, Fill, Strlen, CopyString, CopyAtMost,
              AtMostEnd, Compare, CompareEnd, Counted, Block, Comparing
<1>3. CASE BlockEnd
  <2>1. /\ call.dest \in Nat /\ call.src \in Nat /\ call.num \in Nat /\ Size \in Nat
        /\ call.mem \in [Addr -> Char]
        /\ call.dest + call.num <= Size
    BY <1>1, CallType DEF Blocks
  <2>2. i \in 0 .. call.num /\ mem = IF Downwards(call) THEN Done(i, call.num - i) ELSE Done(0, i)
    BY <1>1 DEF Blocks, Progress
  <2>3. mem' = mem /\ ret' = call.dest
    BY <1>3 DEF BlockEnd, Return
  <2>4. CASE call.fn = "memmove" /\ call.dest = call.src
    (* Nothing is done, and nothing had to be. *)
    <3>1. \A a \in Addr : call.src + (a - call.dest) = a
      BY <2>1, <2>4 DEF Addr
    <3>2. Done(0, i) = [a \in Addr |-> call.mem[a]]
      BY <2>4, <3>1 DEF Done
    <3>3. Copied(call.mem, call.dest, call.src, call.num) = [a \in Addr |-> call.mem[a]]
      BY <3>1 DEF Copied
    <3>4. ~Downwards(call)
      BY <2>1, <2>4 DEF Downwards
    <3> QED
      BY <1>1, <2>2, <2>3, <2>4, <3>2, <3>3, <3>4 DEF BlocksRight
  <2>5. CASE ~(call.fn = "memmove" /\ call.dest = call.src)
    <3>1. mem = Done(0, call.num)
      <4>1. CASE Downwards(call)
        BY <1>3, <2>1, <2>2, <4>1 DEF BlockEnd
      <4>2. CASE ~Downwards(call)
        <5>1. i = call.num
          BY <1>3, <2>1, <2>2, <2>5, <4>2 DEF BlockEnd
        <5> QED
          BY <2>2, <4>2, <5>1
      <4> QED
        BY <4>1, <4>2
    <3>2. call.dest + 0 = call.dest
      BY <2>1
    <3> QED
      BY <1>1, <2>3, <3>1, <3>2 DEF BlocksRight, Done, Copied, Block
  <2> QED
    BY <2>4, <2>5
<1>4. CASE UNCHANGED vars
  BY <1>4 DEF vars, BlocksRight
<1> QED
  BY <1>2, <1>3, <1>4

(* A block arrives as it was before the call, in a memory of any size and  *)
(* wherever source and destination lie (lib/string.c).                     *)
THEOREM BlocksArrive == StringAssumption /\ Spec => []BlocksRight
<1>1. StringAssumption /\ Init => Blocks /\ BlocksRight
  BY InitBlocks DEF Init, Start, BlocksRight
<1>2. StringAssumption /\ Blocks /\ BlocksRight /\ [Next]_vars => Blocks' /\ BlocksRight'
  BY NextBlocks, NextRight
<1>3. CASE StringAssumption
  <2>1. Init => Blocks /\ BlocksRight
    BY <1>1, <1>3
  <2>2. Blocks /\ BlocksRight /\ [Next]_vars => Blocks' /\ BlocksRight'
    BY <1>2, <1>3
  <2> QED
    BY <2>1, <2>2, PTL DEF Spec
<1>4. CASE ~StringAssumption
  BY <1>4
<1> QED
  BY <1>3, <1>4

-----------------------------------------------------------------------------
(* So far the two have been equal, and neither a string has ended. *)
EqualSoFar ==
  /\ Called
  /\ call.fn \in Comparing =>
       /\ pc \in {"loop", "returned"}
       /\ mem = call.mem
       /\ i \in Nat
       /\ Counted => i <= call.num
       /\ \A l \in 0 .. i - 1 :
            /\ call.mem[call.dest + l] = call.mem[call.src + l]
            /\ call.fn # "memcmp" => call.mem[call.dest + l] # 0

LEMMA InBetween ==
  ASSUME NEW b \in Nat, NEW k \in Nat, NEW l \in 0 .. k, b + k < Size, Size \in Nat
  PROVE  b + l \in Addr
BY DEF Addr

(* The comparison has not left the memory. *)
LEMMA InMemory ==
  ASSUME StringAssumption, EqualSoFar, call.fn \in Comparing, Counted => i < call.num
  PROVE  /\ Size \in Nat /\ call.dest \in Nat /\ call.src \in Nat /\ call.num \in Nat
         /\ i \in Addr
         /\ \A l \in 0 .. i : call.mem[call.dest + l] \in 0 .. 255 /\ call.mem[call.src + l] \in 0 .. 255
<1>1. call \in Call /\ Size \in Nat /\ i \in Nat
  BY DEF StringAssumption, EqualSoFar, Called
<1>2. call.dest \in Nat /\ call.src \in Nat /\ call.num \in Nat /\ call.mem \in [Addr -> Char]
  BY <1>1 DEF Call
<1>3. call.dest + i < Size /\ call.src + i < Size
  <2>1. CASE call.fn = "memcmp"
    BY <1>1, <1>2, <2>1 DEF StringAssumption, EqualSoFar, Called, Counted
  <2>2. CASE call.fn # "memcmp"
    <3>1. PICK n \in Addr : call.dest + n < Size /\ call.mem[call.dest + n] = 0
      BY <2>2 DEF StringAssumption, EqualSoFar, Called, Terminated, Comparing
    <3>2. PICK p \in Addr : call.src + p < Size /\ call.mem[call.src + p] = 0
      BY <2>2 DEF StringAssumption, EqualSoFar, Called, Terminated, Comparing
    <3>3. n \notin 0 .. i - 1 /\ p \notin 0 .. i - 1
      BY <2>2, <3>1, <3>2 DEF EqualSoFar
    <3>4. n \in Nat /\ p \in Nat
      BY <1>1 DEF Addr
    <3> QED
      BY <1>1, <1>2, <3>1, <3>2, <3>3, <3>4
  <2> QED
    BY <2>1, <2>2
<1>4. ASSUME NEW l \in 0 .. i
      PROVE  call.dest + l \in Addr /\ call.src + l \in Addr
  BY <1>1, <1>2, <1>3, InBetween, Zenon
<1>5. \A a \in Addr : call.mem[a] \in 0 .. 255
  BY <1>2 DEF Char
<1>6. i \in Addr
  BY <1>1, <1>2, <1>3 DEF Addr
<1> QED
  BY <1>1, <1>2, <1>4, <1>5, <1>6

LEMMA NextEqual ==
  StringAssumption /\ EqualSoFar /\ [Next]_vars => EqualSoFar'
<1> SUFFICES ASSUME StringAssumption, EqualSoFar, [Next]_vars
             PROVE  EqualSoFar'
  OBVIOUS
<1>1. call' = call
  BY DEF Next, vars, CopyUp, CopyDown, Fill, BlockEnd, Strlen, CopyString, CopyAtMost,
         AtMostEnd, Compare, CompareEnd
<1> SUFFICES ASSUME call.fn \in Comparing
             PROVE  EqualSoFar'
  BY <1>1 DEF EqualSoFar, Called
<1>2. Compare \/ CompareEnd \/ UNCHANGED vars
  BY DEF EqualSoFar, Next, CopyUp, Upwards, Downwards, CopyDown, Fill, BlockEnd, Strlen,
         CopyString, CopyAtMost, AtMostEnd, Block, Comparing
<1>3. CASE Compare
  <2>1. UNCHANGED i \/ (i' = i + 1 /\ mem[call.dest + i] - mem[call.src + i] = 0
                        /\ (call.fn # "memcmp" => mem[call.dest + i] # 0))
    BY <1>3 DEF Compare, Value
  <2>2. pc' \in {"loop", "returned"} /\ mem' = mem /\ (Counted => i < call.num)
    BY <1>3 DEF Compare, Return, EqualSoFar
  <2>3. CASE UNCHANGED i
    BY <1>1, <2>2, <2>3 DEF EqualSoFar, Called, Counted
  <2>4. CASE i' = i + 1 /\ mem[call.dest + i] - mem[call.src + i] = 0
             /\ (call.fn # "memcmp" => mem[call.dest + i] # 0)
    <3>1. i \in Nat /\ call.num \in Nat /\ mem = call.mem
      BY <2>2, InMemory DEF EqualSoFar
    <3>2. call.mem[call.dest + i] = call.mem[call.src + i]
      <4>1. call.mem[call.dest + i] \in 0 .. 255 /\ call.mem[call.src + i] \in 0 .. 255
        <5>1. \A l \in 0 .. i : call.mem[call.dest + l] \in 0 .. 255
                              /\ call.mem[call.src + l] \in 0 .. 255
          BY <2>2, InMemory, Zenon
        <5>2. i \in 0 .. i
          BY <3>1
        <5> QED
          BY <5>1, <5>2, Zenon
      <4>2. call.mem[call.dest + i] - call.mem[call.src + i] = 0
        BY <2>4, <3>1
      <4>3. \A x, y \in 0 .. 255 : x - y = 0 => x = y
        OBVIOUS
      <4> QED
        BY <4>1, <4>2, <4>3
    <3>3. \A l \in 0 .. i :
            /\ call.mem[call.dest + l] = call.mem[call.src + l]
            /\ call.fn # "memcmp" => call.mem[call.dest + l] # 0
      BY <2>4, <3>1, <3>2 DEF EqualSoFar
    <3> QED
      BY <1>1, <2>2, <2>4, <3>1, <3>3 DEF EqualSoFar, Called, Counted
  <2> QED
    BY <2>1, <2>3, <2>4
<1>4. CASE CompareEnd
  BY <1>1, <1>4 DEF CompareEnd, Return, EqualSoFar, Called, Counted
<1>5. CASE UNCHANGED vars
  BY <1>1, <1>5 DEF vars, EqualSoFar, Called, Counted
<1> QED
  BY <1>2, <1>3, <1>4, <1>5

LEMMA NextCompared ==
  StringAssumption /\ EqualSoFar /\ ComparesRight /\ [Next]_vars => ComparesRight'
<1> SUFFICES ASSUME StringAssumption, EqualSoFar, ComparesRight, [Next]_vars,
                    pc' = "returned", call'.fn \in Comparing
             PROVE  ComparesRight'
  BY DEF ComparesRight
<1>1. call' = call
  BY DEF Next, vars, CopyUp, CopyDown, Fill, BlockEnd, Strlen, CopyString, CopyAtMost,
         AtMostEnd, Compare, CompareEnd
<1>2. Compare \/ CompareEnd \/ UNCHANGED vars
  BY <1>1 DEF EqualSoFar, Next, CopyUp, Upwards, Downwards, CopyDown, Fill, BlockEnd, Strlen,
              CopyString, CopyAtMost, AtMostEnd, Block, Comparing
<1> DEFINE c1(k) == call.mem[call.dest + k]
           c2(k) == call.mem[call.src + k]
           goes_on(k) ==
             /\ Counted => k < call.num
             /\ \A l \in 0 .. k - 1 : c1(l) = c2(l) /\ (call.fn # "memcmp" => c1(l) # 0)
           first == {k \in Addr : goes_on(k) /\ c1(k) # c2(k)}
           Right == /\ mem' = call.mem
                    /\ ret' = 0 <=> first = {}
                    /\ \A k \in first : ret' < 0 <=> c1(k) < c2(k)
<1>3. SUFFICES Right
  BY <1>1, <1>3 DEF ComparesRight, Counted
<1>4. /\ mem = call.mem /\ i \in Nat
      /\ Counted => i <= call.num
      /\ \A l \in 0 .. i - 1 : c1(l) = c2(l) /\ (call.fn # "memcmp" => c1(l) # 0)
  BY <1>1 DEF EqualSoFar
<1>5. Size \in Nat /\ call.num \in Nat /\ \A k \in Addr : k \in Nat
  BY <1>1 DEF StringAssumption, EqualSoFar, Called, Call, Addr
(* No difference is in front of the place where the loop is. *)
<1>6. \A k \in first : k >= i
  BY <1>4, <1>5
<1>7. CASE Compare
  <2>1. /\ Counted => i < call.num
        /\ mem' = call.mem
        /\ ret' = c1(i) - c2(i)
        /\ c1(i) - c2(i) # 0 \/ (call.fn # "memcmp" /\ c1(i) = 0)
    BY <1>4, <1>7, <1>1 DEF Compare, Return, Value, EqualSoFar
  <2>2. c1(i) \in 0 .. 255 /\ c2(i) \in 0 .. 255 /\ i \in Addr
    <3>1. i \in Addr /\ \A l \in 0 .. i : c1(l) \in 0 .. 255 /\ c2(l) \in 0 .. 255
      BY <1>1, <2>1, InMemory
    <3>2. i \in 0 .. i
      BY <1>4
    <3> QED
      BY <3>1, <3>2
  <2>3. \A k \in first : k = i
    <3> SUFFICES ASSUME NEW k \in first, k > i
                 PROVE  FALSE
      BY <1>4, <1>5, <1>6
    <3>1. c1(i) = c2(i) /\ (call.fn # "memcmp" => c1(i) # 0)
      BY <1>4, <1>5
    <3> QED
      BY <2>1, <2>2, <3>1
  <2>4. CASE c1(i) # c2(i)
    <3>1. first = {i}
      BY <1>4, <2>1, <2>2, <2>3, <2>4
    <3>2. ret' # 0 /\ (ret' < 0 <=> c1(i) < c2(i))
      <4>1. \A x, y \in 0 .. 255 : x # y => (x - y # 0 /\ (x - y < 0 <=> x < y))
        OBVIOUS
      <4> QED
        BY <2>1, <2>2, <2>4, <4>1
    <3> QED
      BY <2>1, <3>1, <3>2
  <2>5. CASE c1(i) = c2(i)
    <3>1. first = {}
      BY <2>3, <2>5
    <3>2. ret' = 0
      <4>1. \A x, y \in 0 .. 255 : x = y => x - y = 0
        OBVIOUS
      <4> QED
        BY <2>1, <2>2, <2>5, <4>1
    <3> QED
      BY <2>1, <3>1, <3>2
  <2> QED
    BY <2>4, <2>5
<1>8. CASE CompareEnd
  <2>1. i = call.num /\ Counted /\ mem' = call.mem /\ ret' = 0
    BY <1>4, <1>5, <1>8 DEF CompareEnd, Return
  <2>2. first = {}
    BY <1>4, <1>5, <1>6, <2>1
  <2> QED
    BY <2>1, <2>2
<1>9. CASE UNCHANGED vars
  BY <1>1, <1>9 DEF vars, ComparesRight, Counted
<1> QED
  BY <1>2, <1>7, <1>8, <1>9

(* memcmp, strcmp and strncmp find the first difference, between chars of  *)
(* any value, and look at none behind the end (lib/string.c).              *)
THEOREM FirstDifference == StringAssumption /\ Spec => []ComparesRight
<1>1. CASE StringAssumption
  <2>1. Init => EqualSoFar /\ ComparesRight
    <3> SUFFICES ASSUME Init
                 PROVE  EqualSoFar /\ ComparesRight
      OBVIOUS
    <3>1. call \in Calls /\ mem = call.mem /\ pc # "returned"
      BY DEF Init, Start
    <3>2. call.fn \in Comparing => pc = "loop" /\ i = 0
      BY DEF Init, Start, Downwards, Comparing
    <3>3. call.num \in Nat
      BY <1>1, <3>1 DEF StringAssumption, Call
    <3> QED
      BY <3>1, <3>2, <3>3 DEF EqualSoFar, ComparesRight, Called
  <2>2. EqualSoFar /\ ComparesRight /\ [Next]_vars => EqualSoFar' /\ ComparesRight'
    BY <1>1, NextEqual, NextCompared
  <2> QED
    BY <2>1, <2>2, PTL DEF Spec
<1>2. CASE ~StringAssumption
  BY <1>2
<1> QED
  BY <1>1, <1>2

-----------------------------------------------------------------------------
(* lib/string.c: the copying of strings. *)

(* A string ends at its first '\0'. *)
LEMMA LengthOfString ==
  ASSUME Size \in Nat, NEW m, NEW p \in Nat, Terminated(m, p)
  PROVE  /\ Length(m, p) \in 0 .. Size - p - 1
         /\ m[p + Length(m, p)] = 0
         /\ \A k \in 0 .. Length(m, p) - 1 : m[p + k] # 0
<1> DEFINE ends == {n \in Nat : p + n < Size /\ m[p + n] = 0}
<1>1. ends \in SUBSET Nat /\ ends # {}
  <2>1. PICK n \in Addr : p + n < Size /\ m[p + n] = 0
    BY DEF Terminated
  <2>2. n \in ends
    BY <2>1 DEF Addr
  <2> QED
    BY <2>2
<1>2. PICK n \in ends : \A k \in ends : n <= k
  BY <1>1, Least
<1>3. n \in 0 .. Size - p - 1 /\ m[p + n] = 0
  BY <1>2
<1>4. ASSUME NEW k \in 0 .. n - 1
      PROVE  m[p + k] # 0
  <2>1. k \in Nat /\ k < n /\ n \in Nat /\ p + k < Size
    BY <1>3
  <2>2. k \notin ends
    BY <1>2, <2>1
  <2> QED
    BY <2>1, <2>2
<1>5. \E x \in 0 .. Size - p - 1 : m[p + x] = 0 /\ \A k \in 0 .. x - 1 : m[p + k] # 0
  BY <1>3, <1>4
<1> QED
  BY <1>5 DEF Length

(* One more char of a copy, and a char that the copy leaves as it was.     *)
LEMMA CopyOne ==
  ASSUME NEW m, NEW to \in Nat, NEW src \in Nat, NEW n \in Nat
  PROVE  [Copied(m, to, src, n) EXCEPT ![to + n] = m[src + n]] = Copied(m, to, src, n + 1)
<1> DEFINE new == [Copied(m, to, src, n) EXCEPT ![to + n] = m[src + n]]
<1> SUFFICES ASSUME NEW a \in Addr
             PROVE  new[a] = Copied(m, to, src, n + 1)[a]
  BY DEF Copied
<1>1. a \in Int
  BY DEF Addr
<1>2. Copied(m, to, src, n + 1)[a] =
        IF a \in to .. to + (n + 1) - 1 THEN m[src + (a - to)] ELSE m[a]
  BY DEF Copied
<1>3. Copied(m, to, src, n)[a] = IF a \in to .. to + n - 1 THEN m[src + (a - to)] ELSE m[a]
  BY DEF Copied
<1>4. CASE a = to + n
  <2>1. new[a] = m[src + n]
    BY <1>4 DEF Copied
  <2>2. a - to = n /\ a \in to .. to + (n + 1) - 1
    BY <1>1, <1>4
  <2> QED
    BY <1>2, <2>1, <2>2
<1>5. CASE a # to + n
  <2>1. new[a] = Copied(m, to, src, n)[a]
    BY <1>5 DEF Copied
  <2>2. a \in to .. to + (n + 1) - 1 <=> a \in to .. to + n - 1
    BY <1>1, <1>5
  <2> QED
    BY <1>2, <1>3, <2>1, <2>2
<1> QED
  BY <1>4, <1>5

LEMMA CopyNone ==
  ASSUME NEW m \in [Addr -> Char], NEW to \in Nat, NEW src \in Nat
  PROVE  Copied(m, to, src, 0) = m
<1>1. ASSUME NEW a \in Addr
      PROVE  Copied(m, to, src, 0)[a] = m[a]
  BY DEF Copied, Addr
<1> QED
  BY <1>1 DEF Copied

LEMMA StillThere ==
  ASSUME NEW m, NEW to \in Nat, NEW src \in Nat, NEW n \in Nat,
         NEW a \in Addr, a < to \/ to + n <= a
  PROVE  Copied(m, to, src, n)[a] = m[a]
BY DEF Copied, Addr

Bounded == {"strncpy", "strncat"}
Appending == {"strcat", "strncat"}

(* What an instance says of a call that copies a string.                   *)
LEMMA CopyType ==
  ASSUME StringAssumption, CopyAssumption, Called, call.fn \in Copying
  PROVE  /\ Size \in Nat
         /\ call.dest \in Nat /\ call.src \in Nat /\ call.num \in Nat
         /\ call.mem \in [Addr -> Char]
         /\ To(call) = call.dest
         /\ call.fn \in Appending => call.mem[call.dest] = 0
         /\ Length(call.mem, call.src) \in Nat
         /\ call.src + Length(call.mem, call.src) < Size
         /\ call.mem[call.src + Length(call.mem, call.src)] = 0
         /\ \A k \in 0 .. Length(call.mem, call.src) - 1 : call.mem[call.src + k] # 0
         /\ To(call) + Chars(call) <= Size
         /\ To(call) + Chars(call) <= call.src \/ call.src + Chars(call) <= To(call)
         /\ call.fn \in Bounded => call.num > 1
<1> DEFINE m == call.mem
           len == Length(m, call.src)
           dlen == Length(m, call.dest)
<1>1. /\ Size \in Nat
      /\ call.dest \in Nat /\ call.src \in Nat /\ call.num \in Nat
      /\ m \in [Addr -> Char]
      /\ Terminated(m, call.src)
      /\ call.fn \in Appending => Terminated(m, call.dest)
  BY DEF StringAssumption, Called, Call, Appending
<1>2. /\ len \in 0 .. Size - call.src - 1
      /\ m[call.src + len] = 0
      /\ \A k \in 0 .. len - 1 : m[call.src + k] # 0
  BY <1>1, LengthOfString
<1>3. call.fn \in Appending =>
        /\ dlen \in 0 .. Size - call.dest - 1
        /\ \A k \in 0 .. dlen - 1 : m[call.dest + k] # 0
  BY <1>1, LengthOfString
<1>4. /\ To(call) + Chars(call) <= Size
      /\ To(call) + Chars(call) <= call.src \/ call.src + Chars(call) <= To(call)
      /\ call.fn \in Bounded => call.num > 1
      /\ call.fn \in Appending => m[call.dest] = 0
  BY DEF CopyAssumption, Called, Bounded, Appending
<1>5. call.fn \in Appending => dlen = 0
  <2>1. SUFFICES ASSUME call.fn \in Appending, dlen # 0
                 PROVE  FALSE
    OBVIOUS
  <2>2. 0 \in 0 .. dlen - 1
    BY <1>1, <1>3, <2>1
  <2>3. m[call.dest + 0] # 0
    BY <1>3, <2>1, <2>2
  <2> QED
    BY <1>1, <1>4, <2>1, <2>3
<1>6. To(call) = call.dest
  BY <1>1, <1>5 DEF To, Appending
<1>7. len \in Nat /\ call.src + len < Size
  BY <1>1, <1>2
<1> QED
  BY <1>1, <1>2, <1>4, <1>6, <1>7, Zenon

(* n chars are copied, and which of them was the last.                     *)
CopiedSoFar(n) ==
  /\ d = To(call) + n
  /\ s = call.src + n
  /\ mem = Copied(call.mem, To(call), call.src, n)
  /\ ch = IF n = 0 THEN 0 ELSE call.mem[call.src + n - 1]
  /\ pc = "loop" => n <= Length(call.mem, call.src)
  /\ pc = "broken" => call.fn \in Bounded /\ n = Length(call.mem, call.src) + 1
  /\ call.fn \in Bounded => i = n /\ n <= call.num - 1

(* strcat has not looked at the string it appends to, which is empty.      *)
NotYetAppended ==
  /\ call.fn \in Appending
  /\ d = call.dest /\ s = call.src /\ mem = call.mem /\ ch = 0
  /\ i = 0

CopyProgress ==
  call.fn \in Copying =>
    /\ pc \in {"strlen", "loop", "broken", "returned"}
    /\ pc = "strlen" => NotYetAppended
    /\ pc \in {"loop", "broken"} => \E n \in Nat : CopiedSoFar(n)

Strings == Called /\ CopyProgress /\ StringsRight

LEMMA InitStrings == StringAssumption /\ CopyAssumption /\ Init => Strings
<1> SUFFICES ASSUME StringAssumption, CopyAssumption, Init
             PROVE  Strings
  OBVIOUS
<1>1. Called
  BY DEF Init, Called
<1>2. StringsRight
  BY DEF Init, Start, StringsRight
<1>3. ASSUME call.fn \in Copying
      PROVE  CopyProgress
  <2>1. CASE call.fn \in Appending
    <3>1. pc = "strlen" /\ NotYetAppended
      BY <1>3, <2>1 DEF Init, Start, NotYetAppended, Downwards, Appending
    <3> QED
      BY <3>1 DEF CopyProgress
  <2>2. CASE call.fn \notin Appending
    <3>1. /\ call.dest \in Nat /\ call.src \in Nat /\ call.num \in Nat
          /\ To(call) = call.dest
          /\ Length(call.mem, call.src) \in Nat
          /\ call.fn \in Bounded => call.num > 1
      BY <1>1, <1>3, <2>2, CopyType, Zenon
    <3>2. Copied(call.mem, To(call), call.src, 0) = call.mem
      BY <1>1, <1>3, CopyType, CopyNone
    <3>3. /\ pc = "loop" /\ d = call.dest /\ s = call.src /\ mem = call.mem /\ ch = 0 /\ i = 0
      BY <1>3, <2>2 DEF Init, Start, Downwards, Appending, Copying
    <3>4. CopiedSoFar(0)
      BY <3>1, <3>2, <3>3 DEF CopiedSoFar
    <3> QED
      BY <3>3, <3>4 DEF CopyProgress
  <2> QED
    BY <2>1, <2>2
<1> QED
  BY <1>1, <1>2, <1>3 DEF Strings, CopyProgress

(* One more char of the string is copied. *)
LEMMA CharCopied ==
  ASSUME StringAssumption, CopyAssumption, Strings, call.fn \in Copying, pc = "loop",
         UNCHANGED call, CopyChar, NEW n \in Nat, CopiedSoFar(n),
         call.fn \in Bounded => n < call.num - 1
  PROVE  /\ d' = To(call) + (n + 1) /\ s' = call.src + (n + 1)
         /\ mem' = Copied(call.mem, To(call), call.src, n + 1)
         /\ ch' = call.mem[call.src + n]
         /\ ch' = 0 <=> n = Length(call.mem, call.src)
         /\ n <= Length(call.mem, call.src)
<1> DEFINE m == call.mem
           len == Length(m, call.src)
           to == To(call)
           src == call.src
<1>1. /\ Size \in Nat /\ src \in Nat /\ to \in Nat /\ len \in Nat /\ call.num \in Nat
      /\ src + len < Size
      /\ m[src + len] = 0
      /\ \A k \in 0 .. len - 1 : m[src + k] # 0
      /\ to + Chars(call) <= Size
      /\ to + Chars(call) <= src \/ src + Chars(call) <= to
  BY CopyType DEF Strings
<1>2. /\ d = to + n /\ s = src + n /\ mem = Copied(m, to, src, n)
      /\ n <= len
  BY DEF CopiedSoFar
<1>3. n < Chars(call)
  <2>1. CASE Whole(call)
    BY <1>1, <1>2, <2>1 DEF Chars
  <2>2. CASE ~Whole(call)
    <3>1. call.fn \in Bounded
      BY <2>2 DEF Whole, Bounded, Copying
    <3> QED
      BY <1>1, <2>2, <3>1 DEF Chars
  <2> QED
    BY <2>1, <2>2
<1>4. src + n \in Addr /\ to + n \in Addr
  <2> HIDE DEF len, to, src
  <2>1. Chars(call) \in Int
    BY <1>1 DEF Chars, len
  <2> QED
    BY <1>1, <1>2, <1>3, <2>1 DEF Addr
<1>5. mem[s] = m[src + n]
  <2>1. src + n < to \/ to + n <= src + n
    <3>1. Chars(call) \in Int
      BY <1>1 DEF Chars
    <3> HIDE DEF len, to, src
    <3> QED
      BY <1>1, <1>2, <1>3, <3>1
  <2>2. Copied(m, to, src, n)[src + n] = m[src + n]
    <3> HIDE DEF m, to, src
    <3> QED
      BY <1>1, <1>4, <2>1, StillThere
  <2> QED
    BY <1>2, <2>2
<1>6. mem' = Copied(m, to, src, n + 1)
  <2>1. mem' = [Copied(m, to, src, n) EXCEPT ![to + n] = m[src + n]]
    BY <1>2, <1>5 DEF CopyChar
  <2> HIDE DEF m, to, src
  <2> QED
    <3>1. to \in Nat /\ src \in Nat
      BY <1>1
    <3>2. \A t \in Nat, r \in Nat, k \in Nat :
            [Copied(m, t, r, k) EXCEPT ![t + k] = m[r + k]] = Copied(m, t, r, k + 1)
      BY CopyOne
    <3> QED
      BY <2>1, <3>1, <3>2, Zenon
<1>7. m[src + n] = 0 <=> n = len
  BY <1>1, <1>2
<1>8. d' = to + (n + 1) /\ s' = src + (n + 1)
  BY <1>1, <1>2 DEF CopyChar
<1> QED
  BY <1>2, <1>5, <1>6, <1>7, <1>8 DEF CopyChar

LEMMA StrlenStrings ==
  ASSUME StringAssumption, CopyAssumption, Strings, Strlen, call.fn \in Copying
  PROVE  CopyProgress' /\ StringsRight'
<1>1. /\ pc = "strlen" /\ NotYetAppended
      /\ UNCHANGED <<call, mem, s, ch, ret>>
  BY DEF Strings, CopyProgress, Strlen
<1>2. /\ call.dest \in Nat /\ call.src \in Nat /\ call.num \in Nat
      /\ To(call) = call.dest
      /\ call.mem[call.dest] = 0
      /\ Length(call.mem, call.src) \in Nat
      /\ call.fn \in Bounded => call.num > 1
  BY <1>1, CopyType DEF Strings, NotYetAppended
<1>3. pc' = "loop" /\ d' = call.dest /\ i' = 0
  BY <1>1, <1>2 DEF Strlen, NotYetAppended
<1>4. Copied(call.mem, To(call), call.src, 0) = call.mem
  BY CopyType, CopyNone DEF Strings
<1>5. CopiedSoFar(0)'
  BY <1>1, <1>2, <1>3, <1>4 DEF CopiedSoFar, NotYetAppended
<1> QED
  BY <1>1, <1>3, <1>5 DEF CopyProgress, StringsRight

LEMMA CopyStringStrings ==
  ASSUME StringAssumption, CopyAssumption, Strings, CopyString
  PROVE  CopyProgress' /\ StringsRight'
<1>1. /\ call.fn \in {"strcpy", "strcat"} /\ call.fn \in Copying /\ call.fn \notin Bounded
      /\ pc = "loop" /\ CopyChar /\ UNCHANGED <<call, i>>
  BY DEF CopyString, Copying, Bounded
<1>2. PICK n \in Nat : CopiedSoFar(n)
  BY <1>1 DEF Strings, CopyProgress
<1>3. /\ d' = To(call) + (n + 1) /\ s' = call.src + (n + 1)
      /\ mem' = Copied(call.mem, To(call), call.src, n + 1)
      /\ ch' = call.mem[call.src + n]
      /\ ch' = 0 <=> n = Length(call.mem, call.src)
      /\ n <= Length(call.mem, call.src)
  BY <1>1, <1>2, CharCopied
<1>4. call.src \in Nat /\ Length(call.mem, call.src) \in Nat
  BY <1>1, CopyType DEF Strings
<1>5. CASE ch' = 0
  <2>1. pc' = "returned" /\ Whole(call) /\ Chars(call) = n + 1
    BY <1>1, <1>3, <1>5 DEF CopyString, Return, Whole, Chars
  <2>2. StringsRight'
    BY <1>1, <1>3, <2>1 DEF StringsRight
  <2> QED
    BY <2>1, <2>2 DEF CopyProgress
<1>6. CASE ch' # 0
  <2>1. pc' = "loop"
    BY <1>1, <1>6 DEF CopyString
  <2>2. /\ n + 1 # 0 /\ n + 1 \in Nat
        /\ n + 1 <= Length(call.mem, call.src)
        /\ call.src + (n + 1) - 1 = call.src + n
    BY <1>3, <1>4, <1>6
  <2>3. CopiedSoFar(n + 1)'
    BY <1>1, <1>3, <2>1, <2>2 DEF CopiedSoFar
  <2> QED
    BY <2>1, <2>2, <2>3 DEF CopyProgress, StringsRight
<1> QED
  BY <1>5, <1>6

LEMMA CopyAtMostStrings ==
  ASSUME StringAssumption, CopyAssumption, Strings, CopyAtMost
  PROVE  CopyProgress' /\ StringsRight'
<1>1. /\ call.fn \in Bounded /\ call.fn \in Copying
      /\ pc = "loop" /\ i < Room /\ CopyChar /\ UNCHANGED <<call, ret>>
      /\ pc' = (IF ch' = 0 THEN "broken" ELSE "loop") /\ i' = i + 1
  BY DEF CopyAtMost, Copying, Bounded
<1>2. PICK n \in Nat : CopiedSoFar(n)
  BY <1>1 DEF Strings, CopyProgress
<1>3. /\ call.src \in Nat /\ Length(call.mem, call.src) \in Nat
      /\ call.num \in Nat /\ call.num > 1
  BY <1>1, CopyType DEF Strings
<1>4. i = n /\ n < call.num - 1
  BY <1>1, <1>2, <1>3 DEF CopiedSoFar, Room
<1>5. /\ d' = To(call) + (n + 1) /\ s' = call.src + (n + 1)
      /\ mem' = Copied(call.mem, To(call), call.src, n + 1)
      /\ ch' = call.mem[call.src + n]
      /\ ch' = 0 <=> n = Length(call.mem, call.src)
      /\ n <= Length(call.mem, call.src)
  BY <1>1, <1>2, <1>4, CharCopied
<1>6. /\ n + 1 # 0 /\ n + 1 \in Nat /\ n + 1 <= call.num - 1
      /\ call.src + (n + 1) - 1 = call.src + n
      /\ ch' # 0 => n + 1 <= Length(call.mem, call.src)
  BY <1>3, <1>4, <1>5
<1>7. CopiedSoFar(n + 1)'
  <2>1. pc' = "loop" => n + 1 <= Length(call.mem, call.src)
    BY <1>1, <1>6
  <2>2. pc' = "broken" => n + 1 = Length(call.mem, call.src) + 1
    BY <1>1, <1>5
  <2> QED
    BY <1>1, <1>4, <1>5, <1>6, <2>1, <2>2 DEF CopiedSoFar
<1> QED
  BY <1>1, <1>6, <1>7 DEF CopyProgress, StringsRight

(* What did not fit gets its '\0', and what did has it. *)
LEMMA AtMostEndStrings ==
  ASSUME StringAssumption, CopyAssumption, Strings, AtMostEnd
  PROVE  CopyProgress' /\ StringsRight'
<1> DEFINE m == call.mem
           len == Length(m, call.src)
           to == To(call)
           src == call.src
           num == call.num
<1>1. /\ call.fn \in Bounded /\ call.fn \in Copying
      /\ pc = "broken" \/ (pc = "loop" /\ i >= Room)
      /\ pc' = "returned" /\ UNCHANGED call
      /\ mem' = IF ch # 0 THEN [mem EXCEPT ![d] = 0] ELSE mem
  BY DEF AtMostEnd, Return, Copying, Bounded
<1>2. PICK n \in Nat : CopiedSoFar(n)
  BY <1>1 DEF Strings, CopyProgress
<1>3. /\ src \in Nat /\ len \in Nat /\ to \in Nat
      /\ num \in Nat /\ num > 1
      /\ m \in [Addr -> Char]
      /\ m[src + len] = 0
      /\ \A k \in 0 .. len - 1 : m[src + k] # 0
  BY <1>1, CopyType DEF Strings
<1>4. /\ d = to + n /\ mem = Copied(m, to, src, n)
      /\ ch = IF n = 0 THEN 0 ELSE m[src + n - 1]
      /\ i = n /\ n <= num - 1
      /\ pc = "loop" => n <= len
      /\ pc = "broken" => n = len + 1
  BY <1>1, <1>2 DEF CopiedSoFar
<1>5. Room = num - 1
  BY <1>3 DEF Room
<1>6. call.fn \notin {"strcpy", "strcat"}
  BY <1>1 DEF Bounded
<1>7. CASE pc = "broken"
  <2>1. ch = 0 /\ mem' = Copied(m, to, src, len + 1)
    <3>1. n # 0 /\ src + n - 1 = src + len /\ n = len + 1
      BY <1>3, <1>4, <1>7
    <3> QED
      BY <1>1, <1>3, <1>4, <3>1
  <2>2. num > len
    BY <1>3, <1>4, <1>7
  <2>3. Whole(call) /\ Chars(call) = len + 1
    BY <2>2 DEF Whole, Chars
  <2> QED
    BY <1>1, <2>1, <2>2, <2>3 DEF StringsRight, CopyProgress
<1>8. CASE pc = "loop"
  <2>1. n = num - 1 /\ n # 0 /\ n <= len /\ n - 1 \in 0 .. len - 1
    BY <1>1, <1>3, <1>4, <1>5, <1>8
  <2>2. ch # 0 /\ mem' = [Copied(m, to, src, n) EXCEPT ![to + n] = 0]
    <3>1. src + n - 1 = src + (n - 1)
      BY <1>3
    <3> QED
      BY <1>1, <1>3, <1>4, <2>1, <3>1
  <2>3. CASE n = len
    <3>1. Whole(call) /\ Chars(call) = len + 1
      <4>1. num > len
        BY <1>3, <2>1, <2>3
      <4> QED
        BY <4>1 DEF Whole, Chars
    <3>2. mem' = Copied(m, to, src, len + 1)
      <4>1. mem' = [Copied(m, to, src, len) EXCEPT ![to + len] = m[src + len]]
        BY <1>3, <2>2, <2>3
      <4> HIDE DEF m, to, src, len
      <4> QED
        <5>1. [Copied(m, to, src, len) EXCEPT ![to + len] = m[src + len]]
                = Copied(m, to, src, len + 1)
          BY <1>3, CopyOne
        <5> QED
          BY <4>1, <5>1, Zenon
    <3> QED
      BY <1>1, <1>8, <3>1, <3>2 DEF StringsRight, CopyProgress
  <2>4. CASE n # len
    <3>1. ~Whole(call)
      <4>1. ~(num > len)
        BY <1>3, <2>1, <2>4
      <4> QED
        BY <1>6, <4>1 DEF Whole
    <3>2. to + num - 1 = to + n
      BY <1>3, <2>1
    <3>3. mem' = [Copied(m, to, src, num - 1) EXCEPT ![to + num - 1] = 0]
      BY <2>1, <2>2, <3>2
    <3> QED
      BY <1>1, <1>8, <3>1, <3>3 DEF StringsRight, CopyProgress
  <2> QED
    BY <2>3, <2>4
<1> QED
  BY <1>1, <1>7, <1>8

LEMMA NextStrings ==
  StringAssumption /\ CopyAssumption /\ Strings /\ [Next]_vars => Strings'
<1> SUFFICES ASSUME StringAssumption, CopyAssumption, Strings, [Next]_vars
             PROVE  Strings'
  OBVIOUS
<1>1. call' = call
  BY DEF Next, vars, CopyUp, CopyDown, Fill, BlockEnd, Strlen, CopyString, CopyAtMost,
         AtMostEnd, Compare, CompareEnd
<1>2. Called'
  BY <1>1 DEF Strings, Called
<1>3. CASE call.fn \notin Copying
  BY <1>1, <1>2, <1>3 DEF Strings, CopyProgress, StringsRight
<1>4. CASE call.fn \in Copying
  <2>1. ~(CopyUp \/ CopyDown \/ Fill \/ BlockEnd \/ Compare \/ CompareEnd)
    BY <1>4 DEF CopyUp, Upwards, CopyDown, Downwards, Fill, BlockEnd, Compare, CompareEnd,
                Counted, Copying, Block, Comparing
  <2>2. CASE UNCHANGED vars
    BY <1>4, <2>2 DEF vars, Strings, Called, CopyProgress, StringsRight, NotYetAppended, CopiedSoFar
  <2> QED
    BY <1>2, <1>4, <2>1, <2>2, StrlenStrings, CopyStringStrings, CopyAtMostStrings,
       AtMostEndStrings, Zenon DEF Next, Strings
<1> QED
  BY <1>3, <1>4

(* strcpy and strncpy copy a string, and strcat and strncat append one to  *)
(* an empty string, whole or as much as fits, for a memory of every size   *)
(* and strings of every length, in the calls of CopyAssumption: not with   *)
(* num = 1, and not behind a string that strlen would have to measure.     *)
THEOREM StringsAreCopied ==
  ASSUME StringAssumption, CopyAssumption
  PROVE  Spec => []StringsRight
<1>1. Init => Strings
  BY InitStrings
<1>2. Strings /\ [Next]_vars => Strings'
  BY NextStrings
<1>3. Strings => StringsRight
  BY DEF Strings
<1> QED
  BY <1>1, <1>2, <1>3, PTL DEF Spec

-----------------------------------------------------------------------------
(* fs/tarfs.c. *)
(* The archive is laid out as a tar archive, whatever its data looks like. *)
Laid ==
  /\ files \in Archives
  /\ at \in Tar!Layout(files)
  /\ \A j \in 1 .. Len(files) : archive[at[j]] = Tar!Header(files[j])
  /\ ~archive[at[Len(files) + 1]].ustar

(* The walk is at header j, and none of those before it is looked for. *)
Passed(j) == ptr = at[j] /\ \A k \in 1 .. j - 1 : files[k].name # filename

(* The invariant of the walk, of which LookupRight tells the end only.     *)
Walk ==
  /\ Laid
  /\ place = "loop" => \E j \in 1 .. Len(files) + 1 : Passed(j)
  /\ Tar!LookupRight

LEMMA FilesAreFiles ==
  ASSUME Tar!TarAssumption, Laid
  PROVE  /\ Len(files) \in Nat
         /\ \A j \in 1 .. Len(files) : Tar!Octal(files[j].size) \in Nat
         /\ \A j \in 1 .. Len(files) + 1 : at[j] \in Nat
<1>1. files \in Seq(Tar!File)
  BY DEF Tar!TarAssumption, Laid
<1>2. Len(files) \in Nat /\ DOMAIN files = 1 .. Len(files)
  BY <1>1
<1>3. ASSUME NEW j \in 1 .. Len(files)
      PROVE  Tar!Octal(files[j].size) \in Nat
  <2>1. files[j] \in Tar!File
    BY <1>1, ElementOfSeq
  <2>2. files[j].size \in Seq(0 .. 7)
    BY <2>1 DEF Tar!File
  <2> QED
    BY <2>2, OctalIsNat
<1> QED
  BY <1>2, <1>3 DEF Laid, Tar!Layout

(* The loop steps over exactly the blocks that the layout gives a file. *)
LEMMA NextHeader ==
  ASSUME Tar!TarAssumption, Laid, NEW j \in 1 .. Len(files)
  PROVE  at[j + 1] = at[j] + (Tar!Blocks(Tar!Octal(files[j].size)) + 1)
<1> DEFINE blocks == at[j + 1] - at[j] - 1
           bytes == Tar!Octal(files[j].size)
<1>1. at[j] \in Nat /\ at[j + 1] \in Nat /\ bytes \in Nat
  BY FilesAreFiles
<1>2. bytes <= 512 * blocks /\ 512 * blocks < bytes + 512
  BY DEF Laid, Tar!Layout
<1>3. (bytes + 511) \div 512 = blocks
  <2> HIDE DEF bytes, blocks
  <2>1. blocks \in Int
    BY <1>1 DEF blocks
  <2> QED
    BY <1>1, <1>2, <2>1
<1> QED
  BY <1>1, <1>3 DEF Tar!Blocks

LEMMA InitWalk == Tar!TarAssumption /\ Tar!Init => Walk
<1> SUFFICES ASSUME Tar!TarAssumption, Tar!Init
             PROVE  Walk
  OBVIOUS
<1> DEFINE n == Len(files)
<1>1. PICK data \in [0 .. at[n + 1] - 1 -> Data], end \in {b \in Data : ~b.ustar} :
        archive = [b \in 0 .. at[n + 1] |->
          IF b = at[n + 1] THEN end
          ELSE IF \E j \in 1 .. n : at[j] = b
            THEN Tar!Header(files[CHOOSE j \in 1 .. n : at[j] = b])
            ELSE data[b]]
  BY DEF Tar!Init
<1>2. files \in Archives /\ at \in Tar!Layout(files)
  BY DEF Tar!Init
<1>3. n \in Nat
  BY <1>2 DEF Tar!TarAssumption
<1>4. /\ \A j \in 1 .. n + 1 : at[j] \in Nat
      /\ \A j, k \in 1 .. n + 1 : j < k => at[j] < at[k]
  BY <1>2, <1>3 DEF Tar!Layout
<1>5. ASSUME NEW j \in 1 .. n
      PROVE  archive[at[j]] = Tar!Header(files[j])
  <2>1. at[j] < at[n + 1] /\ at[j] \in 0 .. at[n + 1]
    BY <1>3, <1>4
  <2>2. (CHOOSE k \in 1 .. n : at[k] = at[j]) = j
    <3>1. \A k \in 1 .. n : at[k] = at[j] => k = j
      BY <1>3, <1>4
    <3> QED
      BY <3>1
  <2>3. at[j] # at[n + 1]
    BY <1>3, <1>4, <2>1
  <2>4. archive[at[j]] = IF at[j] = at[n + 1] THEN end
                         ELSE IF \E k \in 1 .. n : at[k] = at[j]
                           THEN Tar!Header(files[CHOOSE k \in 1 .. n : at[k] = at[j]])
                           ELSE data[at[j]]
    BY <1>1, <2>1
  <2>5. \E k \in 1 .. n : at[k] = at[j]
    OBVIOUS
  <2> QED
    BY <2>2, <2>3, <2>4, <2>5
<1>6. ~archive[at[n + 1]].ustar
  BY <1>1, <1>3, <1>4
<1>7. Passed(1)
  BY <1>2 DEF Tar!Init, Passed, Tar!Layout
<1>8. Laid
  BY <1>2, <1>5, <1>6 DEF Laid
<1>9. Tar!LookupRight
  BY DEF Tar!Init, Tar!LookupRight
<1> QED
  BY <1>3, <1>7, <1>8, <1>9 DEF Walk

LEMMA NextWalk == Tar!TarAssumption /\ Walk /\ [Tar!Next]_(Tar!vars) => Walk'
<1> SUFFICES ASSUME Tar!TarAssumption, Walk, [Tar!Next]_(Tar!vars)
             PROVE  Walk'
  OBVIOUS
<1> USE DEF Walk
<1>1. Laid'
  <2>1. UNCHANGED <<files, at, archive>>
    BY DEF Tar!Next, Tar!Found, Tar!Skip, Tar!NotFound, Tar!vars
  <2> QED
    BY <2>1 DEF Laid
<1>2. Len(files) \in Nat
  BY FilesAreFiles
(* What the block at the walk's place tells of the file it belongs to. *)
<1>3. ASSUME place = "loop", NEW j \in 1 .. Len(files) + 1, Passed(j)
      PROVE  /\ archive[ptr].ustar <=> j <= Len(files)
             /\ j <= Len(files) => archive[ptr] = Tar!Header(files[j])
  <2>1. CASE j <= Len(files)
    BY <1>2, <1>3, <2>1 DEF Laid, Passed, Tar!Header
  <2>2. CASE j > Len(files)
    <3>1. j = Len(files) + 1 /\ ~(j <= Len(files))
      BY <1>2, <2>2
    <3> QED
      BY <1>3, <3>1 DEF Laid, Passed
  <2> QED
    BY <1>2, <2>1, <2>2
<1>4. CASE Tar!Found
  <2>1. PICK j \in 1 .. Len(files) + 1 : Passed(j)
    BY <1>4 DEF Tar!Found
  <2>2. j \in 1 .. Len(files) /\ archive[ptr] = Tar!Header(files[j])
    BY <1>2, <1>3, <1>4, <2>1 DEF Tar!Found
  <2>3. Tar!First(j) /\ out' = at[j] + 1 /\ size' = Tar!Octal(files[j].size)
    BY <1>4, <2>1, <2>2 DEF Tar!Found, Tar!First, Passed, Tar!Header
  <2>4. Tar!LookupRight'
    BY <1>4, <2>2, <2>3 DEF Tar!Found, Tar!LookupRight, Tar!First, Tar!ENOENT
  <2> QED
    BY <1>1, <1>4, <2>4 DEF Tar!Found
<1>5. CASE Tar!Skip
  <2>1. PICK j \in 1 .. Len(files) + 1 : Passed(j)
    BY <1>5 DEF Tar!Skip
  <2>2. j \in 1 .. Len(files) /\ archive[ptr] = Tar!Header(files[j])
    BY <1>2, <1>3, <1>5, <2>1 DEF Tar!Skip
  <2>3. files[j].name # filename /\ ptr' = at[j + 1]
    BY <1>5, <2>1, <2>2, NextHeader DEF Tar!Skip, Passed, Tar!Header
  <2>4. Passed(j + 1)'
    BY <1>2, <1>5, <2>1, <2>2, <2>3 DEF Tar!Skip, Passed
  <2>5. j + 1 \in 1 .. Len(files) + 1
    BY <1>2, <2>2
  <2>6. Tar!LookupRight'
    BY <1>5 DEF Tar!Skip, Tar!LookupRight
  <2> QED
    BY <1>1, <1>5, <2>4, <2>5, <2>6 DEF Tar!Skip
<1>6. CASE Tar!NotFound
  <2>1. PICK j \in 1 .. Len(files) + 1 : Passed(j)
    BY <1>6 DEF Tar!NotFound
  <2>2. j = Len(files) + 1
    BY <1>2, <1>3, <1>6, <2>1 DEF Tar!NotFound
  <2>3. \A k \in 1 .. Len(files) : files[k].name # filename
    BY <1>2, <2>1, <2>2 DEF Passed
  <2>4. Tar!LookupRight'
    BY <1>6, <2>3 DEF Tar!NotFound, Tar!LookupRight, Tar!ENOENT
  <2> QED
    BY <1>1, <1>6, <2>4 DEF Tar!NotFound
<1>7. CASE UNCHANGED Tar!vars
  BY <1>1, <1>7 DEF Tar!vars, Tar!LookupRight, Tar!First, Passed
<1> QED
  BY <1>4, <1>5, <1>6, <1>7 DEF Tar!Next

(* The lookup is one of the calls that a behaviour of the libraries may be. *)
Lookup == library = "tar" => Walk

(* The lookup finds the first file of the name, in every archive.          *)
THEOREM LookupFindsFirst == LibrarySpec => []LookupRight
<1>1. LibraryInit => Lookup
  BY InitWalk, LibraryAssumption DEF LibraryInit, Lookup
<1>2. Lookup /\ [LibraryNext]_libraryVars => Lookup'
  <2> SUFFICES ASSUME Lookup, [LibraryNext]_libraryVars, library' = "tar"
               PROVE  Walk'
    BY DEF Lookup
  <2>1. library = "tar" /\ Walk
    BY DEF Lookup, LibraryNext, libraryVars
  <2>2. [Tar!Next]_(Tar!vars)
    BY <2>1 DEF LibraryNext, libraryVars, tarVars, Tar!vars
  <2> QED
    BY <2>1, <2>2, NextWalk, LibraryAssumption
<1>3. Lookup => LookupRight
  BY DEF Lookup, Walk, LookupRight
<1> QED
  BY <1>1, <1>2, <1>3, PTL DEF LibrarySpec

-----------------------------------------------------------------------------
(* lib/snprintf.c. *)
(* Each of the recursive functions is what its definition says. *)
LEMMA QuotientsRecursion ==
  ASSUME NEW v \in Nat, NEW b \in Nat \ {0}, PRINTF_NTOA_BUFFER_SIZE \in Nat
  PROVE  /\ Printf!Quotients(v, b) \in [0 .. PRINTF_NTOA_BUFFER_SIZE -> Nat]
         /\ Printf!Quotients(v, b)[0] = v
         /\ \A k \in 1 .. PRINTF_NTOA_BUFFER_SIZE :
              Printf!Quotients(v, b)[k] = Printf!Quotients(v, b)[k - 1] \div b
<1> DEFINE N == PRINTF_NTOA_BUFFER_SIZE
           F == [p \in Nat \X (1 .. N) |-> p[1] \div b]
           left == Printf!Quotients(v, b)
<1>0. \A n \in Nat : n \div b \in Nat
  OBVIOUS
<1>1. F \in [Nat \X (1 .. N) -> Nat]
  BY <1>0
<1>2. ASSUME NEW n \in Nat, NEW k \in 1 .. N
      PROVE  F[<<n, k>>] = n \div b
  OBVIOUS
<1> HIDE DEF F
<1>3. PICK g \in [0 .. N -> Nat] : Recursive(g, v, N, F)
  BY <1>1, Recursion, Zenon
<1>4. ASSUME NEW k \in 0 .. N
      PROVE  g[k] = IF k = 0 THEN v ELSE g[k - 1] \div b
  <2>1. k # 0 => k - 1 \in 0 .. N /\ k \in 1 .. N
    OBVIOUS
  <2> QED
    BY <1>2, <1>3, <2>1 DEF Recursive
<1>5. g = [k \in 0 .. N |-> IF k = 0 THEN v ELSE g[k - 1] \div b]
  BY <1>4
<1>6. left = CHOOSE f : f = [k \in 0 .. N |-> IF k = 0 THEN v ELSE f[k - 1] \div b]
  BY DEF Printf!Quotients
<1> HIDE DEF left
<1>7. left = [k \in 0 .. N |-> IF k = 0 THEN v ELSE left[k - 1] \div b]
  BY <1>5, <1>6, Zenon
<1>8. left[0] = v /\ \A k \in 1 .. N : left[k] = left[k - 1] \div b
  BY <1>7
<1> DEFINE T == {k \in Nat : k <= N => left[k] \in Nat}
<1>9. 0 \in T
  BY <1>8
<1>10. ASSUME NEW k \in Nat, k \in T
       PROVE  k + 1 \in T
  <2>1. ASSUME k + 1 <= N
        PROVE  left[k + 1] \in Nat
    <3>1. k + 1 \in 1 .. N /\ (k + 1) - 1 = k /\ left[k] \in Nat
      BY <1>10, <2>1
    <3>2. left[k + 1] = left[k] \div b
      BY <1>8, <3>1
    <3> QED
      BY <1>0, <3>1, <3>2
  <2> QED
    BY <2>1
<1>11. \A k \in Nat : k \in T
  <2> HIDE DEF T
  <2> QED
    BY <1>9, <1>10, Induction
<1>12. left \in [0 .. N -> Nat]
  <2>1. \A k \in 0 .. N : left[k] \in Nat
    BY <1>11
  <2> QED
    BY <1>7, <2>1
<1> QED
  BY <1>8, <1>12 DEF left

(* How many words the directives before each one take. *)
LEMMA BeforeRecursion ==
  ASSUME NEW c, c.format \in Seq(Printf!Directives)
  PROVE  /\ \A k \in 0 .. Len(c.format) : Printf!Before(c)[k] \in Nat
         /\ Printf!Before(c)[0] = 0
         /\ \A k \in 1 .. Len(c.format) :
              Printf!Before(c)[k] = Printf!Before(c)[k - 1] + Printf!Arguments(c.format[k])
<1> DEFINE N == Len(c.format)
           F == [p \in Nat \X (1 .. N) |-> p[1] + Printf!Arguments(c.format[p[2]])]
           taken == Printf!Before(c)
<1>1. N \in Nat /\ \A k \in 1 .. N : Printf!Arguments(c.format[k]) \in Nat
  BY DEF Printf!Arguments, Printf!Words
<1>2. F \in [Nat \X (1 .. N) -> Nat]
  BY <1>1
<1>3. ASSUME NEW n \in Nat, NEW k \in 1 .. N
      PROVE  F[<<n, k>>] = n + Printf!Arguments(c.format[k])
  OBVIOUS
<1> HIDE DEF F
<1>4. PICK g \in [0 .. N -> Nat] : Recursive(g, 0, N, F)
  BY <1>1, <1>2, 0 \in Nat, Recursion, Zenon
<1>5. ASSUME NEW k \in 0 .. N
      PROVE  g[k] = IF k = 0 THEN 0 ELSE g[k - 1] + Printf!Arguments(c.format[k])
  <2>1. k # 0 => k - 1 \in 0 .. N /\ k \in 1 .. N
    BY <1>1
  <2> QED
    BY <1>3, <1>4, <2>1 DEF Recursive
<1>6. g = [k \in 0 .. N |-> IF k = 0 THEN 0 ELSE g[k - 1] + Printf!Arguments(c.format[k])]
  BY <1>5
<1>7. taken = CHOOSE f : f = [k \in 0 .. N |-> IF k = 0 THEN 0
                                               ELSE f[k - 1] + Printf!Arguments(c.format[k])]
  BY DEF Printf!Before
<1> HIDE DEF taken
<1>8. taken = [k \in 0 .. N |-> IF k = 0 THEN 0 ELSE taken[k - 1] + Printf!Arguments(c.format[k])]
  BY <1>6, <1>7, Zenon
<1>9. taken[0] = 0 /\ \A k \in 1 .. N : taken[k] = taken[k - 1] + Printf!Arguments(c.format[k])
  <2> HIDE DEF N
  <2> QED
    BY <1>1, <1>8
<1> DEFINE T == {k \in Nat : k <= N => taken[k] \in Nat}
<1>10. 0 \in T
  BY <1>9
<1>11. ASSUME NEW k \in Nat, k \in T
       PROVE  k + 1 \in T
  <2>1. ASSUME k + 1 <= N
        PROVE  taken[k + 1] \in Nat
    <3>1. k + 1 \in 1 .. N /\ (k + 1) - 1 = k /\ taken[k] \in Nat
      BY <1>1, <1>11, <2>1
    <3>2. taken[k + 1] = taken[k] + Printf!Arguments(c.format[k + 1])
      BY <1>9, <3>1
    <3> QED
      BY <1>1, <3>1, <3>2
  <2> QED
    BY <2>1
<1>12. \A k \in Nat : k \in T
  <2> HIDE DEF T
  <2> QED
    BY <1>10, <1>11, Induction
<1>13. \A k \in 0 .. N : taken[k] \in Nat
  BY <1>12
<1> QED
  BY <1>9, <1>13 DEF taken

(* A numeral is the one of all digits but the last, and the last. *)
LEMMA NumeralRecursion ==
  ASSUME NEW b \in Nat, b >= 2
  PROVE  /\ Printf!Numeral(0, b) = << >>
         /\ \A n \in Nat \ {0} :
              Printf!Numeral(n, b) = Append(Printf!Numeral(n \div b, b), n % b)
         /\ \A n \in Nat : Printf!Numeral(n, b) \in Seq(0 .. b - 1)
<1> DEFINE S == Seq(0 .. b - 1)
           Good(f, n) == f = [k \in 0 .. n |-> IF k = 0 THEN << >> ELSE Append(f[k \div b], k % b)]
           D(n) == CHOOSE f : Good(f, n)
<1>1. \A k \in Nat \ {0} : k \div b \in 0 .. k - 1 /\ k % b \in 0 .. b - 1
  OBVIOUS
<1>2. ASSUME NEW n \in Nat
      PROVE  \E f : Good(f, n)
  <2> DEFINE T == {m \in Nat : \E f : Good(f, m)}
  <2>1. 0 \in T
    <3> DEFINE f == [k \in 0 .. 0 |-> << >>]
    <3>1. f = [k \in 0 .. 0 |-> IF k = 0 THEN << >> ELSE Append(f[k \div b], k % b)]
      OBVIOUS
    <3> HIDE DEF f
    <3> QED
      BY <3>1
  <2>2. ASSUME NEW m \in Nat, m \in T
        PROVE  m + 1 \in T
    <3>1. PICK f : Good(f, m)
      BY <2>2
    <3> DEFINE h == [k \in 0 .. m + 1 |-> IF k = 0 THEN << >> ELSE Append(f[k \div b], k % b)]
    <3>2. \A k \in 0 .. m : h[k] = f[k]
      <4>1. \A k \in 0 .. m : f[k] = IF k = 0 THEN << >> ELSE Append(f[k \div b], k % b)
        BY <3>1
      <4> QED
        BY <4>1
    <3>3. \A k \in 0 .. m + 1 : k # 0 => h[k \div b] = f[k \div b]
      <4>1. \A k \in 0 .. m + 1 : k # 0 => k \div b \in 0 .. m
        BY <1>1
      <4> HIDE DEF h
      <4> QED
        BY <3>2, <4>1
    <3>4. ASSUME NEW k \in 0 .. m + 1
          PROVE  h[k] = IF k = 0 THEN << >> ELSE Append(h[k \div b], k % b)
      <4>1. h[k] = IF k = 0 THEN << >> ELSE Append(f[k \div b], k % b)
        OBVIOUS
      <4> HIDE DEF h
      <4> QED
        BY <3>3, <4>1
    <3>5. Good(h, m + 1)
      <4>1. h = [k \in 0 .. m + 1 |-> h[k]]
        OBVIOUS
      <4> HIDE DEF h
      <4> QED
        BY <3>4, <4>1
    <3> HIDE DEF h
    <3>6. m + 1 \in Nat /\ \E g : Good(g, m + 1)
      <4> HIDE DEF Good
      <4> QED
        BY <3>5
    <3> HIDE DEF Good
    <3> QED
      BY <3>6, Zenon
  <2>3. \A m \in Nat : m \in T
    <3> HIDE DEF T
    <3> QED
      BY <2>1, <2>2, Induction
  <2> QED
    BY <2>3
<1>3. ASSUME NEW n \in Nat
      PROVE  Good(D(n), n)
  BY <1>2, Zenon
<1>4. ASSUME NEW n \in Nat
      PROVE  Printf!Numeral(n, b) = D(n)[n]
  BY DEF Printf!Numeral
<1> HIDE DEF D
<1>5. ASSUME NEW n \in Nat, NEW k \in 0 .. n
      PROVE  D(n)[k] = IF k = 0 THEN << >> ELSE Append(D(n)[k \div b], k % b)
  BY <1>3
<1>6. ASSUME NEW n \in Nat, NEW k \in 0 .. n
      PROVE  D(n)[k] = D(k)[k]
  <2> DEFINE T == {j \in Nat : \A m \in Nat : j <= m => D(m)[j] = D(j)[j]}
  <2>1. ASSUME NEW j \in Nat, \A q \in 0 .. j - 1 : q \in T
        PROVE  j \in T
    <3> SUFFICES ASSUME NEW m \in Nat, j <= m
                 PROVE  D(m)[j] = D(j)[j]
      OBVIOUS
    <3>1. j \in 0 .. m /\ j \in 0 .. j
      OBVIOUS
    <3>2. CASE j = 0
      BY <1>5, <3>1, <3>2
    <3>3. CASE j # 0
      <4>1. j \div b \in 0 .. j - 1
        BY <1>1, <3>3
      <4>2. D(m)[j \div b] = D(j \div b)[j \div b] /\ D(j)[j \div b] = D(j \div b)[j \div b]
        BY <2>1, <4>1
      <4> QED
        BY <1>5, <3>1, <3>3, <4>2
    <3> QED
      BY <3>2, <3>3
  <2>2. \A j \in Nat : j \in T
    <3> HIDE DEF T
    <3> QED
      BY <2>1, StrongInduction
  <2> QED
    BY <2>2
<1>7. Printf!Numeral(0, b) = << >>
  BY <1>4, <1>5
<1>8. ASSUME NEW n \in Nat \ {0}
      PROVE  Printf!Numeral(n, b) = Append(Printf!Numeral(n \div b, b), n % b)
  <2>1. n \div b \in 0 .. n /\ n \div b \in Nat
    BY <1>1
  <2>2. D(n)[n] = Append(D(n)[n \div b], n % b)
    <3>1. n \in Nat /\ n \in 0 .. n /\ n # 0
      OBVIOUS
    <3>2. D(n)[n] = IF n = 0 THEN << >> ELSE Append(D(n)[n \div b], n % b)
      BY <1>5, <3>1, Zenon
    <3> QED
      BY <3>1, <3>2
  <2>3. D(n)[n \div b] = D(n \div b)[n \div b]
    BY <1>6, <2>1
  <2> QED
    BY <1>4, <2>1, <2>2, <2>3
<1>9. ASSUME NEW n \in Nat
      PROVE  Printf!Numeral(n, b) \in S
  <2> DEFINE T == {j \in Nat : Printf!Numeral(j, b) \in S}
  <2>1. ASSUME NEW j \in Nat, \A q \in 0 .. j - 1 : q \in T
        PROVE  j \in T
    <3>1. CASE j = 0
      <4>1. << >> \in S
        OBVIOUS
      <4> HIDE DEF S
      <4>2. Printf!Numeral(j, b) \in S
        BY <1>7, <3>1, <4>1
      <4> QED
        BY <4>2
    <3>2. CASE j # 0
      <4>1. j \div b \in T /\ j % b \in 0 .. b - 1
        BY <1>1, <2>1, <3>2
      <4>2. Printf!Numeral(j, b) = Append(Printf!Numeral(j \div b, b), j % b)
        BY <1>8, <3>2
      <4>3. \A t \in S, x \in 0 .. b - 1 : Append(t, x) \in S
        BY AppendProperties
      <4> HIDE DEF S
      <4>4. Printf!Numeral(j, b) \in S
        BY <4>1, <4>2, <4>3
      <4> QED
        BY <4>4
    <3> QED
      BY <3>1, <3>2
  <2>2. \A j \in Nat : j \in T
    <3> HIDE DEF T
    <3> QED
      BY <2>1, StrongInduction
  <2> QED
    BY <2>2
<1> QED
  BY <1>7, <1>8, <1>9

(* Texts and their parts, back to front (those of Snprintf). *)
LEMMA RepeatText ==
  ASSUME NEW S, NEW c \in S, NEW n \in Nat
  PROVE  /\ Printf!Repeat(c, n) \in Seq(S)
         /\ Len(Printf!Repeat(c, n)) = n
         /\ \A k \in 1 .. n : Printf!Repeat(c, n)[k] = c
BY DEF Printf!Repeat

(* No character, and a single one. *)
LEMMA RepeatFew ==
  ASSUME NEW S, NEW c \in S
  PROVE  Printf!Repeat(c, 0) = << >> /\ Printf!Repeat(c, 1) = <<c>>
BY DEF Printf!Repeat

(* u is s, and t behind it. *)
Concats(u, e, t) ==
  /\ Len(u) = Len(e) + Len(t)
  /\ \A k \in 1 .. Len(e) : u[k] = e[k]
  /\ \A k \in Len(e) + 1 .. Len(e) + Len(t) : u[k] = t[k - Len(e)]

(* A text and one behind it, position by position. *)
LEMMA ConcatText ==
  ASSUME NEW S, NEW e \in Seq(S), NEW t \in Seq(S)
  PROVE  e \o t \in Seq(S) /\ Concats(e \o t, e, t)
<1>1. Len(e) \in Nat /\ Len(t) \in Nat
  BY LenProperties
<1> DEFINE u == e \o t
<1>2. /\ u \in Seq(S)
      /\ Len(u) = Len(e) + Len(t)
      /\ \A k \in 1 .. Len(e) + Len(t) : u[k] = IF k <= Len(e) THEN e[k] ELSE t[k - Len(e)]
  BY ConcatProperties
<1> HIDE DEF u
<1>3. \A k \in 1 .. Len(e) : u[k] = e[k]
  BY <1>1, <1>2
<1>4. ASSUME NEW k \in Len(e) + 1 .. Len(e) + Len(t)
      PROVE  u[k] = t[k - Len(e)]
  <2>1. k \in 1 .. Len(e) + Len(t) /\ ~(k <= Len(e))
    BY <1>1
  <2> QED
    BY <1>2, <2>1
<1> QED
  BY <1>2, <1>3, <1>4 DEF u, Concats

(* u is s, and n times c behind it. *)
Continues(u, e, c, n) ==
  /\ Len(u) = Len(e) + n
  /\ \A k \in 1 .. Len(e) : u[k] = e[k]
  /\ \A k \in Len(e) + 1 .. Len(e) + n : u[k] = c

(* A text with n times the same character behind it, position by position. *)
LEMMA TextRepeat ==
  ASSUME NEW S, NEW e \in Seq(S), NEW c \in S, NEW n \in Nat
  PROVE  e \o Printf!Repeat(c, n) \in Seq(S) /\ Continues(e \o Printf!Repeat(c, n), e, c, n)
<1> DEFINE r == Printf!Repeat(c, n)
           u == e \o r
<1>1. r \in Seq(S) /\ Len(r) = n /\ \A k \in 1 .. n : r[k] = c
  BY RepeatText
<1> HIDE DEF r
<1>2. Len(e) \in Nat
  BY LenProperties
<1>3. u \in Seq(S) /\ Concats(u, e, r)
  BY <1>1, ConcatText
<1> HIDE DEF u
<1>4. ASSUME NEW k \in Len(e) + 1 .. Len(e) + n
      PROVE  u[k] = c
  <2>1. k - Len(e) \in 1 .. n
    BY <1>2
  <2> QED
    BY <1>1, <1>3, <2>1 DEF Concats
<1>5. Len(u) = Len(e) + n /\ \A k \in 1 .. Len(e) : u[k] = e[k]
  BY <1>1, <1>3 DEF Concats
<1>6. Continues(u, e, c, n)
  BY <1>4, <1>5 DEF Continues
<1> QED
  BY <1>3, <1>6 DEF u, r

(* One more of the same characters. *)
LEMMA RepeatMore ==
  ASSUME NEW S, NEW c \in S, NEW n \in Nat
  PROVE  Printf!Repeat(c, n) \o <<c>> = Printf!Repeat(c, n + 1)
<1> DEFINE r == Printf!Repeat(c, n)
           a == r \o Printf!Repeat(c, 1)
           b == Printf!Repeat(c, n + 1)
<1>1. r \in Seq(S) /\ Len(r) = n /\ \A k \in 1 .. n : r[k] = c
  BY RepeatText
<1>2. b \in Seq(S) /\ Len(b) = n + 1 /\ \A k \in 1 .. n + 1 : b[k] = c
  BY RepeatText
<1> HIDE DEF r, b
<1>3. a \in Seq(S) /\ Continues(a, r, c, 1)
  BY <1>1, TextRepeat, 1 \in Nat
<1> HIDE DEF a
<1>4. Len(a) = n + 1 /\ \A k \in 1 .. n + 1 : a[k] = b[k]
  BY <1>1, <1>2, <1>3 DEF Continues
<1>5. a = b
  <2> HIDE DEF Continues
  <2> QED
    BY <1>2, <1>3, <1>4, SeqEqual
<1> QED
  BY <1>5, RepeatFew DEF a, b, r

(* A text back to front, position by position. *)
LEMMA ReverseText ==
  ASSUME NEW S, NEW e \in Seq(S)
  PROVE  /\ Printf!Reverse(e) \in Seq(S)
         /\ Len(Printf!Reverse(e)) = Len(e)
         /\ \A k \in 1 .. Len(e) : Printf!Reverse(e)[k] = e[(Len(e) - k) + 1]
<1>1. Len(e) \in Nat /\ \A k \in 1 .. Len(e) : e[k] \in S
  BY LenProperties, ElementOfSeq
<1>2. \A k \in 1 .. Len(e) : (Len(e) - k) + 1 \in 1 .. Len(e)
  BY <1>1
<1>3. \A k \in 1 .. Len(e) : e[(Len(e) - k) + 1] \in S
  BY <1>1, <1>2
<1> QED
  BY <1>1, <1>3 DEF Printf!Reverse

(* Two texts back to front: the second one first. *)
LEMMA ReverseConcat ==
  ASSUME NEW S, NEW e \in Seq(S), NEW t \in Seq(S)
  PROVE  Printf!Reverse(e \o t) = Printf!Reverse(t) \o Printf!Reverse(e)
<1> DEFINE u == e \o t
           a == Printf!Reverse(u)
           p == Printf!Reverse(e)
           q == Printf!Reverse(t)
           b == q \o p
           m == Len(e)
           n == Len(t)
<1>1. m \in Nat /\ n \in Nat
  BY LenProperties
<1>2. /\ u \in Seq(S) /\ Len(u) = m + n
      /\ \A k \in 1 .. m : u[k] = e[k]
      /\ \A k \in m + 1 .. m + n : u[k] = t[k - m]
  <2>1. u \in Seq(S) /\ Concats(u, e, t)
    BY ConcatText
  <2> HIDE DEF u
  <2> QED
    BY <2>1 DEF Concats
<1> HIDE DEF u
<1>3. /\ a \in Seq(S) /\ Len(a) = m + n
      /\ \A k \in 1 .. m + n : a[k] = u[(m + n - k) + 1]
  <2>1. /\ a \in Seq(S) /\ Len(a) = Len(u)
        /\ \A k \in 1 .. Len(u) : a[k] = u[(Len(u) - k) + 1]
    BY <1>2, ReverseText, Zenon
  <2> HIDE DEF a
  <2> QED
    BY <1>2, <2>1
<1> HIDE DEF a
<1>4. /\ p \in Seq(S) /\ Len(p) = m /\ \A k \in 1 .. m : p[k] = e[(m - k) + 1]
      /\ q \in Seq(S) /\ Len(q) = n /\ \A k \in 1 .. n : q[k] = t[(n - k) + 1]
  BY ReverseText
<1> HIDE DEF p, q
<1>5. /\ b \in Seq(S) /\ Len(b) = m + n
      /\ \A k \in 1 .. n : b[k] = q[k]
      /\ \A k \in n + 1 .. m + n : b[k] = p[k - n]
  <2>1. b \in Seq(S) /\ Concats(b, q, p)
    BY <1>4, ConcatText
  <2> HIDE DEF b, m, n
  <2> QED
    BY <1>1, <1>4, <2>1 DEF Concats
<1> HIDE DEF b, m, n
<1>6. ASSUME NEW k \in 1 .. m + n
      PROVE  a[k] = b[k]
  <2>1. a[k] = u[(m + n - k) + 1] /\ (m + n - k) + 1 \in 1 .. m + n
    BY <1>1, <1>3
  <2>2. CASE k <= n
    <3>1. k \in 1 .. n /\ (m + n - k) + 1 \in m + 1 .. m + n /\ ((m + n - k) + 1) - m = (n - k) + 1
      BY <1>1, <2>2
    <3>2. a[k] = t[(n - k) + 1] /\ b[k] = t[(n - k) + 1]
      BY <1>2, <1>4, <1>5, <2>1, <3>1
    <3> QED
      BY <3>2
  <2>3. CASE k > n
    <3>1. /\ k - n \in 1 .. m /\ k \in n + 1 .. m + n
          /\ (m + n - k) + 1 \in 1 .. m /\ (m + n - k) + 1 = (m - (k - n)) + 1
      BY <1>1, <2>3
    <3>2. a[k] = e[(m - (k - n)) + 1] /\ b[k] = e[(m - (k - n)) + 1]
      BY <1>2, <1>4, <1>5, <2>1, <3>1
    <3> QED
      BY <3>2
  <2> QED
    BY <1>1, <2>2, <2>3
<1>7. a = b
  BY <1>3, <1>5, <1>6, SeqEqual
<1> QED
  BY <1>7 DEF a, b, p, q, u

(* The same characters are the same back to front. *)
LEMMA ReverseRepeat ==
  ASSUME NEW S, NEW c \in S, NEW n \in Nat
  PROVE  Printf!Reverse(Printf!Repeat(c, n)) = Printf!Repeat(c, n)
<1> DEFINE b == Printf!Repeat(c, n)
           a == Printf!Reverse(b)
<1>1. b \in Seq(S) /\ Len(b) = n /\ \A k \in 1 .. n : b[k] = c
  BY RepeatText
<1> HIDE DEF b
<1>2. a \in Seq(S) /\ Len(a) = n /\ \A k \in 1 .. n : a[k] = b[(n - k) + 1]
  BY <1>1, ReverseText
<1> HIDE DEF a
<1>3. ASSUME NEW k \in 1 .. n
      PROVE  a[k] = b[k]
  <2>1. (n - k) + 1 \in 1 .. n
    OBVIOUS
  <2> QED
    BY <1>1, <1>2, <2>1
<1>4. a = b
  BY <1>1, <1>2, <1>3, SeqEqual
<1> QED
  BY <1>4 DEF a, b

(* What was put last is the first, back to front. *)
LEMMA ReverseAppend ==
  ASSUME NEW S, NEW e \in Seq(S), NEW c \in S
  PROVE  Printf!Reverse(Append(e, c)) = <<c>> \o Printf!Reverse(e)
<1>1. Append(e, c) = e \o <<c>> /\ <<c>> \in Seq(S)
  BY AppendIsConcat
<1>2. Printf!Reverse(<<c>>) = <<c>>
  BY ReverseRepeat, RepeatFew, 1 \in Nat
<1> QED
  BY <1>1, <1>2, ReverseConcat

(* What a cut takes of the characters behind a text. *)
LEMMA CutRepeat ==
  ASSUME NEW S, NEW e \in Seq(S), NEW c \in S, NEW n \in Nat, NEW m \in 0 .. n
  PROVE  SubSeq(e \o Printf!Repeat(c, n), 1, Len(e) + m) = e \o Printf!Repeat(c, m)
<1> DEFINE t == e \o Printf!Repeat(c, n)
           a == SubSeq(t, 1, Len(e) + m)
           b == e \o Printf!Repeat(c, m)
<1>1. Len(e) \in Nat /\ m \in Nat
  BY LenProperties
<1>2. t \in Seq(S) /\ Continues(t, e, c, n)
  BY TextRepeat
<1>3. b \in Seq(S) /\ Continues(b, e, c, m)
  BY <1>1, TextRepeat
<1> HIDE DEF t, b
<1>4. /\ a \in Seq(S) /\ Len(a) = Len(e) + m
      /\ \A k \in 1 .. Len(e) + m : a[k] = t[k]
  <2>1. \A k \in 1 .. Len(e) + m : t[k] \in S
    BY <1>1, <1>2, ElementOfSeq DEF Continues
  <2>2. /\ a \in Seq(S) /\ Len(a) = IF 1 <= Len(e) + m THEN (Len(e) + m) - 1 + 1 ELSE 0
        /\ \A k \in 1 .. (Len(e) + m) - 1 + 1 : a[k] = t[1 + k - 1]
    BY <1>1, <2>1, SubSeqProperties
  <2> HIDE DEF a
  <2> QED
    BY <1>1, <2>2
<1> HIDE DEF a
<1>5. ASSUME NEW k \in 1 .. Len(e) + m
      PROVE  a[k] = b[k]
  <2>1. CASE k <= Len(e)
    BY <1>1, <1>2, <1>3, <1>4, <2>1 DEF Continues
  <2>2. CASE ~(k <= Len(e))
    <3>1. k \in Len(e) + 1 .. Len(e) + m /\ k \in Len(e) + 1 .. Len(e) + n
      BY <1>1, <2>2
    <3>2. t[k] = c /\ b[k] = c
      BY <1>2, <1>3, <3>1 DEF Continues
    <3> QED
      BY <1>4, <3>2
  <2> QED
    BY <2>1, <2>2
<1>6. a = b
  <2>1. Len(a) = Len(b)
    BY <1>3, <1>4 DEF Continues
  <2> QED
    BY <1>3, <1>4, <1>5, <2>1, SeqEqual
<1> QED
  BY <1>6 DEF a, b, t

(* The loop over the digits of a number makes those of its numeral, the    *)
(* last one first.                                                         *)
LEMMA IterationsAreDigits ==
  ASSUME NEW v \in Nat \ {0}, NEW b \in Nat, b >= 2, PRINTF_NTOA_BUFFER_SIZE \in Nat,
         Len(Printf!Numeral(v, b)) <= PRINTF_NTOA_BUFFER_SIZE
  PROVE  /\ Len(Printf!Numeral(v, b)) \in Nat \ {0}
         /\ Printf!Iterations(v, b) = Len(Printf!Numeral(v, b))
         /\ \A k \in 0 .. Len(Printf!Numeral(v, b)) - 1 :
              Printf!Quotients(v, b)[k] % b = Printf!Numeral(v, b)[Len(Printf!Numeral(v, b)) - k]
<1> DEFINE N == PRINTF_NTOA_BUFFER_SIZE
           numeral == [n \in Nat |-> Printf!Numeral(n, b)]
           L == Len(numeral[v])
           left == Printf!Quotients(v, b)
           S == 0 .. b - 1
<1>1. numeral[0] = << >>
  BY NumeralRecursion
<1>2. ASSUME NEW n \in Nat \ {0}
      PROVE  numeral[n] = Append(numeral[n \div b], n % b) /\ n \div b \in Nat /\ n % b \in S
  <2>1. n \div b \in Nat /\ n % b \in 0 .. b - 1
    OBVIOUS
  <2> QED
    BY <2>1, NumeralRecursion
<1>3. ASSUME NEW n \in Nat
      PROVE  numeral[n] \in Seq(S) /\ Len(numeral[n]) \in Nat
  <2>1. numeral[n] \in Seq(S)
    BY NumeralRecursion
  <2> HIDE DEF numeral
  <2> QED
    BY <2>1, LenProperties
<1>4. ASSUME NEW n \in Nat \ {0}
      PROVE  /\ n \div b \in Nat
             /\ Len(numeral[n]) = Len(numeral[n \div b]) + 1
             /\ \A q \in 1 .. Len(numeral[n \div b]) : numeral[n][q] = numeral[n \div b][q]
             /\ numeral[n][Len(numeral[n])] = n % b
  <2> DEFINE t == numeral[n \div b]
             x == n % b
  <2>1. numeral[n] = Append(t, x) /\ t \in Seq(S) /\ x \in S /\ n \div b \in Nat /\ Len(t) \in Nat
    BY <1>2, <1>3
  <2> HIDE DEF t, x, numeral, S
  <2>2. /\ Len(numeral[n]) = Len(t) + 1
        /\ \A q \in 1 .. Len(t) : numeral[n][q] = t[q]
        /\ numeral[n][Len(t) + 1] = x
    BY <2>1, AppendProperties
  <2> QED
    BY <2>1, <2>2 DEF t, x
<1>5. /\ left[0] = v
      /\ \A k \in 1 .. N : left[k] = left[k - 1] \div b
  BY QuotientsRecursion
<1>6. v \in Nat /\ N \in Nat /\ L \in Nat /\ L <= N /\ L # 0 /\ Len(numeral[0]) = 0
  <2>1. v \in Nat /\ v \in Nat \ {0} /\ L <= N
    OBVIOUS
  <2>2. Len(numeral[0]) = 0
    BY <1>1
  <2> HIDE DEF numeral
  <2>3. v \div b \in Nat /\ L = Len(numeral[v \div b]) + 1
    BY <1>4, <2>1
  <2>4. Len(numeral[v \div b]) \in Nat
    BY <1>3, <2>3
  <2> HIDE DEF L
  <2> QED
    BY <2>1, <2>2, <2>3, <2>4
<1> HIDE DEF numeral, left
<1> DEFINE Good(k) ==
             /\ left[k] \in Nat
             /\ Len(numeral[left[k]]) = L - k
             /\ \A q \in 1 .. L - k : numeral[v][q] = numeral[left[k]][q]
           T == {k \in Nat : k <= L => Good(k)}
<1>7. 0 \in T
  BY <1>5, <1>6
<1>8. ASSUME NEW k \in Nat, k + 1 <= L, Good(k)
      PROVE  /\ Good(k + 1) /\ left[k] # 0
             /\ left[k] % b = numeral[v][L - k]
  <2> DEFINE n == left[k]
  <2>1. n \in Nat /\ Len(numeral[n]) = L - k /\ n # 0
    BY <1>6, <1>8
  <2>2. left[k + 1] = n \div b
    <3>1. k + 1 \in 1 .. N /\ (k + 1) - 1 = k
      BY <1>6, <1>8
    <3> QED
      BY <1>5, <3>1
  <2> HIDE DEF n
  <2> DEFINE m == n \div b
  <2>3. /\ m \in Nat /\ Len(numeral[n]) = Len(numeral[m]) + 1
        /\ \A q \in 1 .. Len(numeral[m]) : numeral[n][q] = numeral[m][q]
        /\ numeral[n][Len(numeral[n])] = n % b
    BY <1>4, <2>1
  <2> HIDE DEF m, L
  <2>4. Len(numeral[m]) = L - (k + 1) /\ Len(numeral[m]) \in Nat
    <3>1. Len(numeral[m]) \in Nat /\ L - k = Len(numeral[m]) + 1
      BY <1>3, <2>1, <2>3
    <3> QED
      BY <1>6, <3>1
  <2>5. ASSUME NEW q \in 1 .. L - (k + 1)
        PROVE  numeral[v][q] = numeral[m][q]
    <3>1. q \in 1 .. L - k /\ q \in 1 .. Len(numeral[m])
      BY <1>6, <2>4
    <3> QED
      BY <1>8, <2>3, <3>1 DEF n
  <2>6. L - k \in 1 .. L - k
    BY <1>6, <1>8
  <2>7. n % b = numeral[v][L - k]
    BY <1>8, <2>1, <2>3, <2>6 DEF n
  <2> QED
    BY <2>1, <2>2, <2>3, <2>4, <2>5, <2>7 DEF n, m
<1>9. ASSUME NEW k \in Nat, k \in T
      PROVE  k + 1 \in T
  BY <1>6, <1>8, <1>9
<1>10. \A k \in Nat : k \in T
  <2> HIDE DEF T
  <2> QED
    BY <1>7, <1>9, Induction
<1> HIDE DEF Good
<1>11. \A k \in 0 .. L : Good(k)
  BY <1>6, <1>10
<1>12. ASSUME NEW k \in 0 .. L - 1
       PROVE  left[k] # 0 /\ left[k] % b = numeral[v][L - k]
  <2>1. k \in Nat /\ k + 1 <= L /\ Good(k)
    BY <1>6, <1>11
  <2> QED
    BY <1>8, <2>1
<1>13. left[L] = 0
  <2>1. left[L] \in Nat /\ Len(numeral[left[L]]) = 0
    BY <1>6, <1>11 DEF Good
  <2>2. ASSUME left[L] # 0
        PROVE  FALSE
    <3>1. left[L] \div b \in Nat /\ Len(numeral[left[L]]) = Len(numeral[left[L] \div b]) + 1
      BY <1>4, <2>1, <2>2
    <3>2. Len(numeral[left[L] \div b]) \in Nat
      BY <1>3, <3>1
    <3> HIDE DEF L
    <3> QED
      BY <2>1, <3>1, <3>2
  <2> QED
    BY <2>2
<1>14. Printf!Iterations(v, b) = L
  <2> DEFINE Stops(k) == (k = N \/ left[k] = 0) /\ \A j \in 1 .. k - 1 : left[j] # 0
  <2>1. L \in 1 .. N /\ Stops(L)
    <3>1. \A j \in 1 .. L - 1 : left[j] # 0
      BY <1>12
    <3> HIDE DEF L
    <3> QED
      BY <1>6, <1>13, <3>1
  <2>2. ASSUME NEW k \in 1 .. N, Stops(k)
        PROVE  k = L
    <3>1. ASSUME k < L
          PROVE  FALSE
      <4>1. k \in 0 .. L - 1 /\ k # N
        BY <1>6, <3>1
      <4> QED
        BY <1>12, <2>2, <4>1
    <3>2. ASSUME L < k
          PROVE  FALSE
      <4>1. L \in 1 .. k - 1
        BY <1>6, <3>2
      <4> QED
        BY <1>13, <2>2, <4>1
    <3> QED
      BY <1>6, <3>1, <3>2
  <2>3. Printf!Iterations(v, b) = CHOOSE k \in 1 .. N : Stops(k)
    BY DEF Printf!Iterations, left
  <2> HIDE DEF Stops, L
  <2> QED
    BY <2>1, <2>2, <2>3
<1> HIDE DEF L
<1>15. numeral[v] = Printf!Numeral(v, b)
  BY DEF numeral
<1> QED
  BY <1>6, <1>12, <1>14, <1>15 DEF L, left

(* The digits of _ntoa are those of the numeral, the last one first. *)
LEMMA DigitsAreNumeral ==
  ASSUME NEW S, NEW names \in Seq(S), NEW v \in Nat \ {0}, NEW b \in Nat, b >= 2,
         PRINTF_NTOA_BUFFER_SIZE \in Nat, b <= Len(names),
         Len(Printf!Numeral(v, b)) <= PRINTF_NTOA_BUFFER_SIZE
  PROVE  /\ Printf!Digits(v, b, names) \in Seq(S)
         /\ Len(Printf!Digits(v, b, names)) = Len(Printf!Numeral(v, b))
         /\ Printf!Reverse(Printf!Digits(v, b, names)) =
              [k \in DOMAIN Printf!Numeral(v, b) |-> names[Printf!Numeral(v, b)[k] + 1]]
<1> DEFINE numeral == Printf!Numeral(v, b)
           L == Len(numeral)
           digits == Printf!Digits(v, b, names)
           left == Printf!Quotients(v, b)
           right == [k \in 1 .. L |-> names[numeral[k] + 1]]
           a == Printf!Reverse(digits)
<1>1. /\ L \in Nat \ {0} /\ Printf!Iterations(v, b) = L
      /\ \A k \in 0 .. L - 1 : left[k] % b = numeral[L - k]
  BY IterationsAreDigits
<1>2. numeral \in Seq(0 .. b - 1) /\ DOMAIN numeral = 1 .. L
  <2>1. numeral \in Seq(0 .. b - 1)
    BY NumeralRecursion
  <2> HIDE DEF numeral
  <2> QED
    BY <2>1, LenProperties
<1>3. digits = [k \in 1 .. L |-> names[(left[k - 1] % b) + 1]]
  <2> HIDE DEF L
  <2> QED
    BY <1>1 DEF Printf!Digits
<1> HIDE DEF numeral, left, digits
<1>4. \A k \in 1 .. L : numeral[k] \in 0 .. b - 1
  BY <1>2, ElementOfSeq
<1>5. Len(names) \in Nat /\ \A q \in 1 .. Len(names) : names[q] \in S
  BY LenProperties, ElementOfSeq
<1>6. ASSUME NEW k \in 1 .. L
      PROVE  names[numeral[k] + 1] \in S
  <2>1. numeral[k] + 1 \in 1 .. Len(names)
    BY <1>4, <1>5
  <2> QED
    BY <1>5, <2>1
<1>7. right \in Seq(S) /\ Len(right) = L /\ \A k \in 1 .. L : right[k] = names[numeral[k] + 1]
  BY <1>1, <1>6
<1>8. ASSUME NEW k \in 1 .. L
      PROVE  digits[k] = right[(L - k) + 1] /\ digits[k] \in S
  <2>1. k - 1 \in 0 .. L - 1 /\ L - (k - 1) = (L - k) + 1 /\ (L - k) + 1 \in 1 .. L
    BY <1>1
  <2>2. left[k - 1] % b = numeral[(L - k) + 1]
    BY <1>1, <2>1
  <2>3. digits[k] = names[numeral[(L - k) + 1] + 1]
    BY <1>3, <2>2
  <2> HIDE DEF right
  <2> QED
    BY <1>6, <1>7, <2>1, <2>3
<1> HIDE DEF right
<1>9. digits \in Seq(S) /\ Len(digits) = L
  <2>1. digits = [k \in 1 .. L |-> digits[k]]
    BY <1>3
  <2>2. L \in Nat /\ \A k \in 1 .. L : digits[k] \in S
    BY <1>1, <1>8
  <2> QED
    BY <2>1, <2>2
<1>10. a \in Seq(S) /\ Len(a) = L /\ \A k \in 1 .. L : a[k] = digits[(L - k) + 1]
  <2>1. /\ a \in Seq(S) /\ Len(a) = Len(digits)
        /\ \A k \in 1 .. Len(digits) : a[k] = digits[(Len(digits) - k) + 1]
    BY <1>9, ReverseText, Zenon
  <2> HIDE DEF a
  <2> QED
    BY <1>9, <2>1
<1> HIDE DEF a
<1>11. ASSUME NEW k \in 1 .. L
       PROVE  a[k] = right[k]
  <2>1. (L - k) + 1 \in 1 .. L /\ (L - ((L - k) + 1)) + 1 = k
    BY <1>1
  <2> QED
    BY <1>8, <1>10, <2>1
<1>12. a = right
  BY <1>7, <1>10, <1>11, SeqEqual
<1> QED
  BY <1>2, <1>9, <1>12 DEF a, digits, numeral, right

(* The digit of zero. *)
LEMMA DigitOfZero ==
  ASSUME NEW names, NEW b \in Nat \ {0}, PRINTF_NTOA_BUFFER_SIZE \in Nat \ {0}
  PROVE  Printf!Digits(0, b, names) = <<names[1]>>
<1> DEFINE N == PRINTF_NTOA_BUFFER_SIZE
           left == Printf!Quotients(0, b)
           Stops(k) == (k = N \/ left[k] = 0) /\ \A j \in 1 .. k - 1 : left[j] # 0
<1>1. left[0] = 0 /\ left[1] = 0
  <2>1. /\ left[0] = 0
        /\ \A k \in 1 .. N : left[k] = left[k - 1] \div b
    BY QuotientsRecursion
  <2>2. left[1] = left[1 - 1] \div b
    BY <2>1
  <2>3. 0 \div b = 0
    OBVIOUS
  <2> HIDE DEF left
  <2> QED
    BY <2>1, <2>2, <2>3
<1>2. Printf!Iterations(0, b) = CHOOSE k \in 1 .. N : Stops(k)
  BY DEF Printf!Iterations
<1> HIDE DEF left
<1>3. 1 \in 1 .. N /\ Stops(1)
  BY <1>1
<1>4. ASSUME NEW k \in 1 .. N, Stops(k)
      PROVE  k = 1
  <2>1. k # 1 => 1 \in 1 .. k - 1
    OBVIOUS
  <2> QED
    BY <1>1, <1>4, <2>1
<1> HIDE DEF Stops
<1>5. Printf!Iterations(0, b) = 1
  BY <1>2, <1>3, <1>4
<1>6. Printf!Digits(0, b, names) = [k \in 1 .. 1 |-> names[(left[k - 1] % b) + 1]]
  BY <1>5 DEF Printf!Digits, left
<1>7. \A k \in 1 .. 1 : names[(left[k - 1] % b) + 1] = names[1]
  <2>1. 0 % b = 0
    OBVIOUS
  <2>2. \A k \in 1 .. 1 : k - 1 = 0
    OBVIOUS
  <2> QED
    BY <1>1, <2>1, <2>2
<1>8. Printf!Digits(0, b, names) = [k \in 1 .. 1 |-> names[1]]
  BY <1>6, <1>7
<1> QED
  BY <1>8

(* The characters of a text: strings, those of numbers among them. *)
Glyph ==
  STRING \cup {"0", "1", "2", "3", "4", "5", "6", "7", "8", "9", "a", "b", "c", "d", "e", "f",
               "A", "B", "C", "D", "E", "F", "x", "X", "-", "+", " ", "(", "n", "u", "l", ")"}

(* Strings and the names of the digits are texts of characters. *)
LEMMA Glyphs ==
  /\ {"0", "b", "x", "X", "-", "+", " ", "(", "n", "u", "l", ")"} \subseteq Glyph
  /\ STRING \subseteq Glyph
  /\ Printf!DigitNames \in Seq(Glyph) /\ Len(Printf!DigitNames) = 16
  /\ Printf!UpperNames \in Seq(Glyph) /\ Len(Printf!UpperNames) = 16
  /\ Printf!DigitNames[1] = "0" /\ Printf!UpperNames[1] = "0"
<1>1. /\ {"0", "1", "2", "3", "4", "5", "6", "7"} \subseteq Glyph
      /\ {"8", "9", "a", "b", "c", "d", "e", "f"} \subseteq Glyph
      /\ {"A", "B", "C", "D", "E", "F"} \subseteq Glyph
  BY DEF Glyph
<1>2. {"0", "b", "x", "X", "-", "+", " ", "(", "n", "u", "l", ")"} \subseteq Glyph
  BY DEF Glyph
<1>3. STRING \subseteq Glyph
  BY DEF Glyph
<1>4. /\ Printf!DigitNames \in Seq(Glyph) /\ Len(Printf!DigitNames) = 16
      /\ Printf!DigitNames[1] = "0"
  BY <1>1 DEF Printf!DigitNames
<1>5. /\ Printf!UpperNames \in Seq(Glyph) /\ Len(Printf!UpperNames) = 16
      /\ Printf!UpperNames[1] = "0"
  BY <1>1 DEF Printf!UpperNames
<1> QED
  BY <1>2, <1>3, <1>4, <1>5

(* A text, padded with blanks to a width. *)
Justified(text, width, flags) ==
  LET spaces == Printf!Repeat(" ", Printf!Padding(Len(text), width)) IN
  IF "-" \in flags THEN text \o spaces ELSE spaces \o text

(* The sign of a number. *)
SignText(negative, flags) ==
  IF negative THEN <<"-">>
  ELSE IF "+" \in flags THEN <<"+">>
  ELSE IF " " \in flags THEN <<" ">>
  ELSE << >>

(* How much is missing of a width, if anything. *)
LEMMA PaddingIsNat ==
  ASSUME NEW m \in Int, NEW n \in Int
  PROVE  /\ Printf!Padding(m, n) \in Nat
         /\ n <= m => Printf!Padding(m, n) = 0
         /\ m < n => Printf!Padding(m, n) = n - m
BY DEF Printf!Padding

(* _out_rev prints the buffer back to front, on its side of the width: with *)
(* blanks before it, unless '0' or '-' say otherwise, or behind it.         *)
LEMMA OutRevJustifies ==
  ASSUME NEW buf \in Seq(Glyph), NEW width \in Nat, NEW inner \in Nat, NEW flags,
         "-" \in flags \/ "0" \notin flags => inner = width,
         "-" \notin flags /\ "0" \in flags => width <= Len(buf)
  PROVE  Printf!_out_rev(buf, inner, flags) = Justified(Printf!Reverse(buf), width, flags)
<1> DEFINE text == Printf!Reverse(buf)
           spaces == Printf!Repeat(" ", Printf!Padding(Len(buf), width))
<1>1. text \in Seq(Glyph) /\ Len(text) = Len(buf) /\ Len(buf) \in Nat
  BY ReverseText, LenProperties
<1> HIDE DEF text
<1>2. Justified(text, width, flags) = IF "-" \in flags THEN text \o spaces ELSE spaces \o text
  BY <1>1 DEF Justified
<1>3. CASE "-" \in flags \/ "0" \notin flags
  BY <1>2, <1>3 DEF Printf!_out_rev, text
<1>4. CASE "-" \notin flags /\ "0" \in flags
  <2>1. Printf!_out_rev(buf, inner, flags) = text
    BY <1>4 DEF Printf!_out_rev, text
  <2>2. spaces = << >>
    <3>1. Printf!Padding(Len(buf), width) = 0
      BY <1>1, <1>4, PaddingIsNat
    <3>2. " " \in Glyph
      BY Glyphs
    <3> QED
      BY <3>1, <3>2, RepeatFew
  <2>3. << >> \o text = text
    BY <1>1, ConcatEmptySeq
  <2> HIDE DEF spaces
  <2> QED
    BY <1>2, <1>4, <2>1, <2>2, <2>3 DEF text
<1> QED
  BY <1>3, <1>4

(* The same, if the blanks before the text are to fill the width. *)
LEMMA OutRevOnce ==
  ASSUME NEW buf \in Seq(Glyph), NEW width \in Nat, NEW flags,
         "-" \notin flags /\ "0" \in flags => width <= Len(buf)
  PROVE  Printf!_out_rev(buf, width, flags) = Justified(Printf!Reverse(buf), width, flags)
BY OutRevJustifies

(* Zeros, if there is room for them. *)
LEMMA ZerosText ==
  ASSUME NEW buf \in Seq(Glyph), NEW n \in Nat, PRINTF_NTOA_BUFFER_SIZE \in Nat,
         n <= PRINTF_NTOA_BUFFER_SIZE
  PROVE  Printf!Zeros(buf, n) = buf \o Printf!Repeat("0", Printf!Padding(Len(buf), n))
BY DEF Printf!Zeros, Printf!Least

(* No zeros are put if none are wanted. *)
LEMMA NoZeros ==
  ASSUME NEW buf \in Seq(Glyph), PRINTF_NTOA_BUFFER_SIZE \in Nat
  PROVE  Printf!Zeros(buf, 0) = buf
<1>1. Len(buf) \in Nat
  BY LenProperties
<1>2. Printf!Padding(Len(buf), 0) = 0
  BY <1>1, PaddingIsNat
<1>3. "0" \in Glyph
  BY Glyphs
<1>4. Printf!Repeat("0", 0) = << >>
  BY <1>3, RepeatFew
<1>5. buf \o << >> = buf
  BY ConcatEmptySeq
<1>6. 0 \in Nat /\ 0 <= PRINTF_NTOA_BUFFER_SIZE
  OBVIOUS
<1>7. Printf!Zeros(buf, 0) = buf \o Printf!Repeat("0", Printf!Padding(Len(buf), 0))
  BY <1>6, ZerosText
<1> QED
  BY <1>2, <1>4, <1>5, <1>7

(* A character is put if there is room for it: in front, back to front. *)
LEMMA PutText ==
  ASSUME NEW buf \in Seq(Glyph), NEW c \in Glyph, PRINTF_NTOA_BUFFER_SIZE \in Nat,
         Len(buf) < PRINTF_NTOA_BUFFER_SIZE
  PROVE  /\ Printf!Put(buf, c) \in Seq(Glyph)
         /\ Len(Printf!Put(buf, c)) = Len(buf) + 1
         /\ Printf!Reverse(Printf!Put(buf, c)) = <<c>> \o Printf!Reverse(buf)
<1>1. Printf!Put(buf, c) = Append(buf, c)
  BY DEF Printf!Put
<1> QED
  BY <1>1, AppendProperties, ReverseAppend

(* What is written so far after each of the texts: g is that for seqs.     *)
Joins(g, seqs) ==
  /\ g \in [0 .. Len(seqs) -> Seq(Glyph)]
  /\ g[0] = << >>
  /\ \A k \in 1 .. Len(seqs) : g[k] = g[k - 1] \o seqs[k]

Joined(seqs) == CHOOSE g : Joins(g, seqs)

(* The texts one after the other, by the first k of them. *)
LEMMA JoinedJoins ==
  ASSUME NEW seqs, Len(seqs) \in Nat, \A k \in 1 .. Len(seqs) : seqs[k] \in Seq(Glyph)
  PROVE  Joins(Joined(seqs), seqs)
<1> DEFINE N == Len(seqs)
           S == Seq(Glyph)
           F == [p \in S \X (1 .. N) |-> p[1] \o seqs[p[2]]]
<1>1. << >> \in S /\ N \in Nat
  OBVIOUS
<1>2. F \in [S \X (1 .. N) -> S]
  <2>1. \A t \in S, k \in 1 .. N : t \o seqs[k] \in S
    BY ConcatProperties
  <2> HIDE DEF S, N
  <2> QED
    BY <2>1
<1>3. ASSUME NEW t \in S, NEW k \in 1 .. N
      PROVE  F[<<t, k>>] = t \o seqs[k]
  <2> HIDE DEF S, N
  <2> QED
    OBVIOUS
<1> HIDE DEF F, S, N
<1>4. PICK g \in [0 .. N -> S] : Recursive(g, << >>, N, F)
  BY <1>1, <1>2, Recursion, Zenon
<1>5. g[0] = << >>
  <2>1. 0 \in 0 .. N
    BY <1>1
  <2> QED
    BY <1>4, <2>1, Zenon DEF Recursive
<1>6. ASSUME NEW k \in 1 .. N
      PROVE  g[k] = g[k - 1] \o seqs[k]
  <2>1. k \in 0 .. N /\ k - 1 \in 0 .. N /\ k # 0
    BY <1>1
  <2>2. g[k - 1] \in S
    BY <2>1
  <2>3. g[k] = F[<<g[k - 1], k>>]
    BY <1>4, <2>1 DEF Recursive
  <2> QED
    BY <1>3, <2>2, <2>3
<1>7. Joins(g, seqs)
  BY <1>5, <1>6 DEF Joins, N, S
<1> QED
  BY <1>7, Zenon DEF Joined

(* FlattenSeq is all of them. *)
LEMMA FlattenIsJoined ==
  ASSUME NEW seqs \in Seq(Seq(Glyph))
  PROVE  Printf!FlattenSeq(seqs) = Joined(seqs)[Len(seqs)]
<1> DEFINE N == Len(seqs)
           flatten == CHOOSE f : f = [q \in 1 .. N |-> IF q = 1 THEN seqs[q] ELSE f[q - 1] \o seqs[q]]
           g == Joined(seqs)
           h == [q \in 1 .. N |-> g[q]]
<1>1. N \in Nat /\ \A k \in 1 .. N : seqs[k] \in Seq(Glyph)
  BY LenProperties, ElementOfSeq
<1>2. Joins(g, seqs)
  BY <1>1, JoinedJoins
<1> HIDE DEF g
<1>3. g[0] = << >> /\ \A k \in 1 .. N : g[k] = g[k - 1] \o seqs[k]
  BY <1>2 DEF Joins
<1>4. CASE N = 0
  <2>1. seqs = << >>
    BY <1>4, EmptySeq
  <2> QED
    BY <1>3, <1>4, <2>1 DEF Printf!FlattenSeq, g
<1>5. CASE N # 0
  <2>1. ASSUME 1 \in 1 .. N
        PROVE  g[1] = seqs[1]
    <3>1. g[1] = g[0] \o seqs[1]
      <4>1. g[1] = g[1 - 1] \o seqs[1]
        BY <1>3, <2>1, Zenon
      <4> QED
        BY <4>1
    <3>2. << >> \o seqs[1] = seqs[1]
      BY <1>1, <2>1, ConcatEmptySeq
    <3> QED
      BY <1>3, <3>1, <3>2
  <2>2. ASSUME NEW q \in 1 .. N
        PROVE  h[q] = IF q = 1 THEN seqs[q] ELSE h[q - 1] \o seqs[q]
    <3>1. q # 1 => q - 1 \in 1 .. N
      BY <1>1
    <3>2. h[q] = g[q] /\ (q # 1 => h[q - 1] = g[q - 1])
      BY <3>1
    <3> HIDE DEF h
    <3> QED
      BY <1>3, <2>1, <3>2
  <2>3. h = [q \in 1 .. N |-> IF q = 1 THEN seqs[q] ELSE h[q - 1] \o seqs[q]]
    BY <2>2
  <2>4. flatten = [q \in 1 .. N |-> IF q = 1 THEN seqs[q] ELSE flatten[q - 1] \o seqs[q]]
    <3> HIDE DEF h
    <3> QED
      BY <2>3, Zenon
  <2>5. Printf!FlattenSeq(seqs) = flatten[N]
    BY <1>5 DEF Printf!FlattenSeq
  <2> HIDE DEF flatten, h
  <2> DEFINE T == {q \in Nat : q + 1 <= N => flatten[q + 1] = g[q + 1]}
  <2>6. 0 \in T
    <3>1. 1 \in 1 .. N
      BY <1>1, <1>5
    <3> QED
      BY <2>1, <2>4, <3>1
  <2>7. ASSUME NEW q \in Nat, q \in T
        PROVE  q + 1 \in T
    <3>1. ASSUME (q + 1) + 1 <= N
          PROVE  flatten[(q + 1) + 1] = g[(q + 1) + 1]
      <4>1. /\ (q + 1) + 1 \in 1 .. N /\ (q + 1) + 1 # 1 /\ ((q + 1) + 1) - 1 = q + 1
            /\ flatten[q + 1] = g[q + 1]
        BY <1>1, <2>7, <3>1
      <4>2. flatten[(q + 1) + 1] = flatten[q + 1] \o seqs[(q + 1) + 1]
        BY <2>4, <4>1
      <4>3. g[(q + 1) + 1] = g[q + 1] \o seqs[(q + 1) + 1]
        BY <1>3, <4>1
      <4> QED
        BY <4>1, <4>2, <4>3
    <3> QED
      BY <3>1
  <2>8. \A q \in Nat : q \in T
    <3> HIDE DEF T
    <3> QED
      BY <2>6, <2>7, Induction
  <2>9. N - 1 \in T
    <3> HIDE DEF T
    <3> QED
      BY <1>1, <1>5, <2>8
  <2>10. flatten[N] = g[N]
    BY <1>1, <1>5, <2>9
  <2> QED
    BY <2>5, <2>10 DEF g
<1> QED
  BY <1>4, <1>5

(* The sign of a number is a character, or none. *)
LEMMA SignIsText ==
  ASSUME NEW negative \in BOOLEAN, NEW flags
  PROVE  /\ SignText(negative, flags) \in Seq(Glyph)
         /\ Len(SignText(negative, flags)) =
              IF negative \/ flags \cap {"+", " "} # {} THEN 1 ELSE 0
<1>1. "-" \in Glyph /\ "+" \in Glyph /\ " " \in Glyph
  BY Glyphs
<1>2. \A c \in Glyph : <<c>> \in Seq(Glyph) /\ Len(<<c>>) = 1
  OBVIOUS
<1>3. << >> \in Seq(Glyph) /\ Len(<< >>) = 0
  OBVIOUS
<1> DEFINE sgn == SignText(negative, flags)
<1>4. ASSUME negative
      PROVE  sgn \in Seq(Glyph) /\ Len(sgn) = 1
  <2>1. sgn = <<"-">>
    BY <1>4 DEF SignText
  <2> HIDE DEF sgn
  <2> QED
    BY <1>1, <1>2, <2>1, Zenon
<1>5. ASSUME ~negative /\ "+" \in flags
      PROVE  sgn \in Seq(Glyph) /\ Len(sgn) = 1
  <2>1. sgn = <<"+">>
    BY <1>5 DEF SignText
  <2> HIDE DEF sgn
  <2> QED
    BY <1>1, <1>2, <2>1, Zenon
<1>6. ASSUME ~negative /\ "+" \notin flags /\ " " \in flags
      PROVE  sgn \in Seq(Glyph) /\ Len(sgn) = 1
  <2>1. sgn = <<" ">>
    BY <1>6 DEF SignText
  <2> HIDE DEF sgn
  <2> QED
    BY <1>1, <1>2, <2>1, Zenon
<1>7. ASSUME ~negative /\ "+" \notin flags /\ " " \notin flags
      PROVE  sgn \in Seq(Glyph) /\ Len(sgn) = 0
  <2>1. sgn = << >>
    BY <1>7 DEF SignText
  <2> HIDE DEF sgn
  <2> QED
    BY <1>3, <2>1
<1> DEFINE signed == negative \/ flags \cap {"+", " "} # {}
<1>8. sgn \in Seq(Glyph)
  <2> HIDE DEF sgn
  <2> QED
    BY <1>4, <1>5, <1>6, <1>7
<1>9. signed => Len(sgn) = 1
  <2>1. flags \cap {"+", " "} # {} => "+" \in flags \/ " " \in flags
    OBVIOUS
  <2> HIDE DEF sgn
  <2> QED
    BY <1>4, <1>5, <1>6, <2>1
<1>10. ~signed => Len(sgn) = 0
  <2>1. ~signed => ~negative /\ "+" \notin flags /\ " " \notin flags
    OBVIOUS
  <2> HIDE DEF sgn, signed
  <2> QED
    BY <1>7, <2>1
<1> HIDE DEF sgn, signed
<1>11. sgn \in Seq(Glyph) /\ Len(sgn) = IF signed THEN 1 ELSE 0
  BY <1>8, <1>9, <1>10
<1> QED
  BY <1>11 DEF sgn, signed

(* Are the zeros those of the width? *)
Zeropad(flags) == {"-", "0"} \cap flags = {"0"}

(* '0' is without effect beside '-'. *)
LEMMA ZeropadFlags ==
  ASSUME NEW flags
  PROVE  Zeropad(flags) <=> "0" \in flags /\ "-" \notin flags
BY DEF Zeropad

(* The digits and the zeros behind them. *)
LEMMA PaddedDigits ==
  ASSUME NEW digits \in Seq(Glyph), NEW wanted \in Nat, NEW zeros \in Nat,
         zeros = Printf!Padding(Len(digits), wanted),
         PRINTF_NTOA_BUFFER_SIZE \in Nat, Len(digits) + zeros <= PRINTF_NTOA_BUFFER_SIZE
  PROVE  /\ Printf!Zeros(digits, wanted) = digits \o Printf!Repeat("0", zeros)
         /\ Printf!Zeros(Printf!Zeros(digits, wanted), 0) = digits \o Printf!Repeat("0", zeros)
<1>1. Len(digits) \in Nat
  BY LenProperties
<1>2. "0" \in Glyph
  BY Glyphs
<1>3. wanted <= PRINTF_NTOA_BUFFER_SIZE
  BY <1>1 DEF Printf!Padding
<1> DEFINE padded == digits \o Printf!Repeat("0", zeros)
<1>4. Printf!Zeros(digits, wanted) = padded
  BY <1>3, ZerosText
<1>5. padded \in Seq(Glyph)
  BY <1>2, TextRepeat
<1> HIDE DEF padded
<1>6. Printf!Zeros(padded, 0) = padded
  BY <1>5, NoZeros
<1> QED
  BY <1>4, <1>6 DEF padded

(* The same, seen from the front. *)
LEMMA PaddedText ==
  ASSUME NEW digits \in Seq(Glyph), NEW zeros \in Nat
  PROVE  /\ digits \o Printf!Repeat("0", zeros) \in Seq(Glyph)
         /\ Len(digits \o Printf!Repeat("0", zeros)) = Len(digits) + zeros
         /\ Printf!Reverse(digits \o Printf!Repeat("0", zeros))
              = Printf!Repeat("0", zeros) \o Printf!Reverse(digits)
<1> DEFINE r == Printf!Repeat("0", zeros)
<1>1. "0" \in Glyph
  BY Glyphs
<1>2. r \in Seq(Glyph) /\ Printf!Reverse(r) = r
  BY <1>1, RepeatText, ReverseRepeat
<1>3. digits \o r \in Seq(Glyph) /\ Continues(digits \o r, digits, "0", zeros)
  BY <1>1, TextRepeat
<1>4. Printf!Reverse(digits \o r) = r \o Printf!Reverse(digits)
  <2> HIDE DEF r
  <2> QED
    BY <1>2, ReverseConcat
<1> HIDE DEF r
<1> QED
  BY <1>3, <1>4 DEF Continues, r

(* A number without a prefix. *)
LEMMA FormatPlain ==
  ASSUME NEW digits \in Seq(Glyph), NEW negative \in BOOLEAN, NEW base,
         NEW precision \in Nat, NEW width \in Nat, NEW flags, NEW zeros \in Nat,
         PRINTF_NTOA_BUFFER_SIZE \in Nat, "p" \notin flags,
         Zeropad(flags) => precision = 0,
         zeros = Printf!Padding(Len(digits),
                   IF Zeropad(flags) THEN width - Len(SignText(negative, flags)) ELSE precision),
         "#" \in flags => base = 8 /\ zeros > 0,
         (Len(SignText(negative, flags)) + Len(digits)) + zeros <= PRINTF_NTOA_BUFFER_SIZE
  PROVE  Printf!_ntoa_format(digits, negative, base, precision, width, flags) =
           Justified(SignText(negative, flags) \o
                       (Printf!Repeat("0", zeros) \o Printf!Reverse(digits)), width, flags)
<1> DEFINE sgn == SignText(negative, flags)
           signed == negative \/ flags \cap {"+", " "} # {}
           zeropad == {"-", "0"} \cap flags = {"0"}
           inner == IF zeropad /\ width > 0 /\ signed THEN width - 1 ELSE width
           padded == Printf!Zeros(IF zeropad THEN Printf!Zeros(digits, inner) ELSE digits, precision)
           spare == Len(padded) - Len(digits)
           hash == "p" \in flags \/ ("#" \in flags /\ ~(base = 8 /\ spare > 0))
           sign == IF negative THEN Printf!Put(padded, "-")
                   ELSE IF "+" \in flags THEN Printf!Put(padded, "+")
                   ELSE IF " " \in flags THEN Printf!Put(padded, " ")
                   ELSE padded
           text == Printf!Repeat("0", zeros) \o Printf!Reverse(digits)
<1>1. Len(digits) \in Nat
  BY LenProperties
<1>2. sgn \in Seq(Glyph) /\ Len(sgn) = (IF signed THEN 1 ELSE 0)
  BY SignIsText
<1>3. zeropad <=> Zeropad(flags)
  BY DEF Zeropad
<1>4. inner \in Nat
  <2> HIDE DEF zeropad, signed
  <2> QED
    OBVIOUS
<1>5. zeros = Printf!Padding(Len(digits), IF Zeropad(flags) THEN inner ELSE precision)
  <2> HIDE DEF sgn, signed, zeropad
  <2> QED
    BY <1>1, <1>2, <1>3 DEF Printf!Padding, sgn
<1>6. Len(digits) + zeros <= PRINTF_NTOA_BUFFER_SIZE
  <2> HIDE DEF sgn, signed
  <2> QED
    BY <1>1, <1>2 DEF sgn
<1>7. padded = digits \o Printf!Repeat("0", zeros)
  <2>1. CASE Zeropad(flags)
    <3>1. zeros = Printf!Padding(Len(digits), inner) /\ precision = 0
      <4> HIDE DEF inner
      <4> QED
        BY <1>5, <2>1
    <3>2. padded = Printf!Zeros(Printf!Zeros(digits, inner), 0)
      <4> HIDE DEF inner
      <4> QED
        BY <1>3, <2>1, <3>1
    <3> HIDE DEF inner
    <3> QED
      BY <1>4, <1>6, <3>1, <3>2, PaddedDigits
  <2>2. CASE ~Zeropad(flags)
    <3>1. zeros = Printf!Padding(Len(digits), precision)
      BY <1>5, <2>2
    <3>2. padded = Printf!Zeros(digits, precision)
      BY <1>3, <2>2
    <3> QED
      BY <1>6, <3>1, <3>2, PaddedDigits
  <2> QED
    BY <2>1, <2>2
<1> HIDE DEF padded, inner
<1>8. padded \in Seq(Glyph) /\ Len(padded) = Len(digits) + zeros /\ Printf!Reverse(padded) = text
  BY <1>7, PaddedText
<1>9. ~hash
  BY <1>1, <1>8
<1>10. Printf!_ntoa_format(digits, negative, base, precision, width, flags)
         = Printf!_out_rev(sign, inner, flags)
  <2> HIDE DEF hash, sign
  <2>1. ~("p" \in flags \/ ("#" \in flags /\ ~(base = 8 /\ spare > 0)))
    BY <1>9 DEF hash
  <2> QED
    BY <2>1 DEF Printf!_ntoa_format, sign, padded, inner
<1>11. Printf!Reverse(sign) = sgn \o text /\ sign \in Seq(Glyph)
       /\ Len(sign) = Len(sgn) + Len(digits) + zeros
  <2>1. "-" \in Glyph /\ "+" \in Glyph /\ " " \in Glyph
    BY Glyphs
  <2>2. text \in Seq(Glyph)
    BY <1>8, ReverseText
  <2>3. CASE signed
    <3>1. Len(padded) < PRINTF_NTOA_BUFFER_SIZE /\ Len(sgn) = 1
      <4>1. Len(sgn) = 1
        <5> HIDE DEF signed, sgn
        <5> QED
          BY <1>2, <2>3
      <4>2. (Len(sgn) + Len(digits)) + zeros <= PRINTF_NTOA_BUFFER_SIZE
        OBVIOUS
      <4> HIDE DEF signed, sgn
      <4> QED
        BY <1>1, <1>8, <4>1, <4>2
    <3>2. PICK c \in Glyph : sign = Printf!Put(padded, c) /\ sgn = <<c>>
      <4>1. CASE negative
        BY <2>1, <4>1 DEF SignText
      <4>2. CASE ~negative /\ "+" \in flags
        BY <2>1, <4>2 DEF SignText
      <4>3. CASE ~negative /\ "+" \notin flags
        <5>1. " " \in flags
          BY <2>3, <4>3
        <5> QED
          BY <2>1, <4>3, <5>1 DEF SignText
      <4> QED
        BY <4>1, <4>2, <4>3
    <3> HIDE DEF sign, sgn, text
    <3>3. /\ sign \in Seq(Glyph) /\ Len(sign) = Len(padded) + 1
          /\ Printf!Reverse(sign) = <<c>> \o Printf!Reverse(padded)
      BY <1>8, <3>1, <3>2, PutText
    <3> QED
      BY <1>1, <1>8, <3>1, <3>2, <3>3
  <2>4. CASE ~signed
    <3>1. sign = padded /\ sgn = << >>
      BY <2>4 DEF SignText
    <3>2. << >> \o text = text
      BY <2>2, ConcatEmptySeq
    <3> HIDE DEF sign, sgn, text
    <3> QED
      BY <1>1, <1>8, <3>1, <3>2
  <2> QED
    BY <2>3, <2>4
<1> HIDE DEF sign, text
<1>12. "-" \in flags \/ "0" \notin flags => inner = width
  BY DEF inner
<1>13. "-" \notin flags /\ "0" \in flags => width <= Len(sign)
  <2>1. ASSUME Zeropad(flags)
        PROVE  width <= Len(sgn) + Len(digits) + zeros
    <3>1. zeros = Printf!Padding(Len(digits), width - Len(sgn))
      BY <2>1
    <3>2. Len(sgn) \in Int
      <4> HIDE DEF sgn, signed
      <4> QED
        BY <1>2
    <3>3. \A m, n, w \in Int : w <= m + n + Printf!Padding(n, w - m)
      BY DEF Printf!Padding
    <3> HIDE DEF sgn, signed
    <3> QED
      BY <1>1, <3>1, <3>2, <3>3
  <2> HIDE DEF sgn
  <2> QED
    BY <1>11, <2>1, ZeropadFlags
<1>14. Printf!_out_rev(sign, inner, flags) = Justified(Printf!Reverse(sign), width, flags)
  <2> HIDE DEF sgn
  <2>1. sign \in Seq(Glyph)
    BY <1>11
  <2> QED
    BY <1>4, <1>12, <1>13, <2>1, OutRevJustifies
<1> HIDE DEF sgn
<1> QED
  BY <1>10, <1>11, <1>14 DEF text, sgn

(* Does a number that is not negative have a sign? *)
Signed(flags) == "+" \in flags \/ " " \in flags

(* A number without a sign has none of the flags that ask for one. *)
LEMMA UnsignedFlags ==
  ASSUME NEW flags, ~Signed(flags)
  PROVE  /\ "+" \notin flags /\ " " \notin flags
         /\ flags \cap {"+", " "} = {}
<1>1. "+" \notin flags /\ " " \notin flags
  BY Zenon DEF Signed
<1> QED
  BY <1>1, Zenon

(* The letter of a hexadecimal prefix. *)
Mark(flags) == IF "X" \in flags THEN "X" ELSE "x"

(* The text of a number with a hexadecimal prefix, as FormatHexadecimal    *)
(* has it, and of one with an octal prefix.                                *)
HexadecimalOf(output, digits, zeros, x, width, flags) ==
  output = Justified(<<"0">> \o (<<x>> \o (Printf!Repeat("0", zeros) \o Printf!Reverse(digits))),
                     width, flags)
OctalOf(output, digits, width, flags) ==
  output = Justified(<<"0">> \o Printf!Reverse(digits), width, flags)

(* A hexadecimal number with its prefix, for which zeros of the width give *)
(* way.                                                                    *)
LEMMA FormatHexadecimal ==
  ASSUME NEW digits \in Seq(Glyph), NEW precision \in Nat, NEW width \in Nat, NEW flags,
         NEW zeros \in Nat, PRINTF_NTOA_BUFFER_SIZE \in Nat, NEW wanted,
         wanted = IF Zeropad(flags) THEN width - 2 ELSE precision,
         "#" \in flags, ~Signed(flags), Len(digits) # 0,
         "." \in flags => "0" \notin flags, "." \notin flags => precision = 0,
         zeros = Printf!Padding(Len(digits), wanted),
         (Len(digits) + zeros) + 2 <= PRINTF_NTOA_BUFFER_SIZE
  PROVE  HexadecimalOf(Printf!_ntoa_format(digits, FALSE, 16, precision, width, flags),
                       digits, zeros, Mark(flags), width, flags)
<1> DEFINE signed == FALSE \/ flags \cap {"+", " "} # {}
           zeropad == {"-", "0"} \cap flags = {"0"}
           inner == IF zeropad /\ width > 0 /\ signed THEN width - 1 ELSE width
           padded == Printf!Zeros(IF zeropad THEN Printf!Zeros(digits, inner) ELSE digits, precision)
           spare == Len(padded) - Len(digits)
           taken == Printf!Taken(spare, Len(padded), 16, precision, inner, flags)
           cut == SubSeq(padded, 1, Len(padded) - taken)
           x == IF "X" \in flags THEN "X" ELSE "x"
           hash == "p" \in flags \/ ("#" \in flags /\ ~(16 = 8 /\ spare > 0))
           letter == CASE 16 = 16 -> Printf!Put(cut, IF "X" \in flags THEN "X" ELSE "x")
                       [] 16 = 2  -> Printf!Put(cut, "b")
                       [] OTHER   -> cut
           prefixed == IF hash THEN Printf!Put(letter, "0") ELSE padded
           sign == IF FALSE THEN Printf!Put(prefixed, "-")
                   ELSE IF "+" \in flags THEN Printf!Put(prefixed, "+")
                   ELSE IF " " \in flags THEN Printf!Put(prefixed, " ")
                   ELSE prefixed
           text == Printf!Repeat("0", zeros) \o Printf!Reverse(digits)
           all == IF Zeropad(flags) THEN Printf!Padding(Len(digits), width)
                  ELSE Printf!Padding(Len(digits), precision)
<1>1. Len(digits) \in Nat
  BY LenProperties
<1>2. "0" \in Glyph /\ x \in Glyph
  BY Glyphs
<1>3. zeropad <=> Zeropad(flags)
  BY DEF Zeropad
<1>4. inner = width
  <2>1. ~signed
    BY UnsignedFlags, Zenon
  <2> HIDE DEF signed, zeropad
  <2> QED
    BY <2>1
<1>5. Zeropad(flags) => precision = 0
  BY ZeropadFlags
<1>6. all \in Nat
  <2>1. Printf!Padding(Len(digits), width) \in Nat /\ Printf!Padding(Len(digits), precision) \in Nat
    <3>1. \A m, n \in Int : Printf!Padding(m, n) \in Nat
      BY PaddingIsNat
    <3>2. Len(digits) \in Int /\ width \in Int /\ precision \in Int
      BY <1>1
    <3> QED
      BY <3>1, <3>2, Zenon
  <2> QED
    BY <2>1
<1>7. padded = digits \o Printf!Repeat("0", all)
  <2>1. \A n, w \in Int : n + Printf!Padding(n, w) <= (n + Printf!Padding(n, w - 2)) + 2
    BY DEF Printf!Padding
  <2>2. CASE Zeropad(flags)
    <3>1. all = Printf!Padding(Len(digits), width) /\ zeros = Printf!Padding(Len(digits), width - 2)
      BY <2>2
    <3>2. padded = Printf!Zeros(Printf!Zeros(digits, width), 0)
      BY <1>3, <1>4, <1>5, <2>2
    <3> HIDE DEF all
    <3>3. Len(digits) + all <= PRINTF_NTOA_BUFFER_SIZE
      <4>1. Len(digits) + all <= (Len(digits) + zeros) + 2
        BY <1>1, <2>1, <3>1
      <4> QED
        BY <1>1, <1>6, <4>1
    <3> QED
      BY <1>6, <3>1, <3>2, <3>3, PaddedDigits
  <2>3. CASE ~Zeropad(flags)
    <3>1. all = Printf!Padding(Len(digits), precision) /\ all = zeros
      BY <2>3
    <3>2. padded = Printf!Zeros(digits, precision)
      BY <1>3, <2>3
    <3> HIDE DEF all
    <3>3. Len(digits) + all <= PRINTF_NTOA_BUFFER_SIZE
      BY <1>1, <3>1
    <3> QED
      BY <1>6, <3>1, <3>2, <3>3, PaddedDigits
  <2> QED
    BY <2>2, <2>3
<1>8. padded \in Seq(Glyph) /\ Len(padded) = Len(digits) + all
  <2> HIDE DEF all
  <2> QED
    BY <1>6, <1>7, PaddedText
<1>9. all - taken = zeros /\ spare = all
  <2>1. spare = all
    <3> HIDE DEF all, padded
    <3> QED
      BY <1>1, <1>6, <1>8
  <2>2. taken = IF "." \notin flags /\ Len(digits) + all > 0
                     /\ (Len(digits) + all = precision \/ Len(digits) + all = width)
                  THEN Printf!Least(all, 2) ELSE 0
    <3> HIDE DEF all, padded, spare
    <3> QED
      BY <1>4, <1>8, <2>1 DEF Printf!Taken
  <2> HIDE DEF taken, spare
  <2>3. CASE "." \in flags
    <3>1. taken = 0 /\ ~Zeropad(flags)
      BY <2>2, <2>3, ZeropadFlags
    <3>2. all = zeros
      BY <3>1
    <3> HIDE DEF all
    <3> QED
      BY <1>6, <2>1, <3>1, <3>2
  <2>4. CASE "." \notin flags /\ ~Zeropad(flags)
    <3>1. all = zeros /\ all = 0
      BY <1>1, <2>4, PaddingIsNat
    <3> HIDE DEF all
    <3>2. taken = 0
      BY <2>2, <3>1 DEF Printf!Least
    <3> QED
      BY <2>1, <3>1, <3>2
  <2>5. CASE "." \notin flags /\ Zeropad(flags)
    <3>1. /\ all = Printf!Padding(Len(digits), width)
          /\ zeros = Printf!Padding(Len(digits), width - 2)
          /\ precision = 0
      BY <1>5, <2>5
    <3> HIDE DEF all
    <3>2. CASE width <= Len(digits)
      <4>1. all = 0 /\ zeros = 0
        BY <1>1, <3>1, <3>2, PaddingIsNat
      <4>2. taken = 0
        BY <2>2, <4>1 DEF Printf!Least
      <4> QED
        BY <2>1, <4>1, <4>2
    <3>3. CASE width > Len(digits)
      <4>1. all = width - Len(digits)
        BY <1>1, <3>1, <3>3, PaddingIsNat
      <4>2. taken = Printf!Least(all, 2)
        BY <1>1, <2>2, <2>5, <3>3, <4>1
      <4>3. CASE width - 2 <= Len(digits)
        <5>1. zeros = 0 /\ all <= 2
          BY <1>1, <3>1, <4>1, <4>3, PaddingIsNat
        <5>2. taken = all
          BY <1>6, <4>2, <5>1 DEF Printf!Least
        <5> QED
          BY <1>6, <2>1, <5>1, <5>2
      <4>4. CASE width - 2 > Len(digits)
        <5>1. zeros = (width - 2) - Len(digits)
          BY <1>1, <3>1, <4>4, PaddingIsNat
        <5>2. taken = 2
          BY <1>1, <4>1, <4>2, <4>4 DEF Printf!Least
        <5> QED
          BY <1>1, <2>1, <4>1, <5>1, <5>2
      <4> QED
        BY <1>1, <4>3, <4>4
    <3> QED
      BY <1>1, <3>2, <3>3
  <2> QED
    BY <2>3, <2>4, <2>5
<1>10. cut = digits \o Printf!Repeat("0", zeros)
  <2>1. zeros \in 0 .. all /\ Len(padded) - taken = Len(digits) + zeros
    <3>1. taken \in Int /\ taken >= 0
      <4>1. Printf!Least(spare, 2) \in Int /\ Printf!Least(spare, 2) >= 0
        <5>1. \A n \in Nat : Printf!Least(n, 2) \in Int /\ Printf!Least(n, 2) >= 0
          BY DEF Printf!Least
        <5> HIDE DEF spare, all
        <5> QED
          BY <1>6, <1>9, <5>1
      <4> HIDE DEF spare, inner
      <4> QED
        BY <4>1 DEF Printf!Taken
    <3> HIDE DEF taken, padded, all, spare
    <3> QED
      BY <1>1, <1>6, <1>8, <1>9, <3>1
  <2>2. cut = SubSeq(digits \o Printf!Repeat("0", all), 1, Len(digits) + zeros)
    <3> HIDE DEF taken, padded, all
    <3> QED
      BY <1>7, <2>1
  <2> HIDE DEF cut, all
  <2>3. SubSeq(digits \o Printf!Repeat("0", all), 1, Len(digits) + zeros)
          = digits \o Printf!Repeat("0", zeros)
    <3>1. \A n \in Nat : \A m \in 0 .. n :
            SubSeq(digits \o Printf!Repeat("0", n), 1, Len(digits) + m) = digits \o Printf!Repeat("0", m)
      BY <1>2, CutRepeat
    <3> QED
      BY <1>6, <2>1, <3>1
  <2> QED
    BY <2>2, <2>3
<1>11. Printf!_ntoa_format(digits, FALSE, 16, precision, width, flags)
         = Printf!_out_rev(Printf!Put(Printf!Put(cut, x), "0"), inner, flags)
  <2>1. Printf!_ntoa_format(digits, FALSE, 16, precision, width, flags)
          = Printf!_out_rev(sign, inner, flags)
    BY DEF Printf!_ntoa_format
  <2>2. letter = Printf!Put(cut, x)
    <3> HIDE DEF cut
    <3> QED
      OBVIOUS
  <2>3. hash
    <3> HIDE DEF spare
    <3> QED
      OBVIOUS
  <2> HIDE DEF cut, letter, padded, hash, x, inner
  <2>4. prefixed = Printf!Put(letter, "0")
    BY <2>3
  <2> HIDE DEF prefixed
  <2>5. sign = prefixed
    BY UnsignedFlags, Zenon
  <2> HIDE DEF sign
  <2> QED
    BY <2>1, <2>2, <2>4, <2>5
<1> HIDE DEF letter, sign
<1> DEFINE hex == Printf!Put(cut, x)
           number == Printf!Put(hex, "0")
<1> HIDE DEF cut, x, all, padded, taken, inner
<1>12. cut \in Seq(Glyph) /\ Len(cut) = Len(digits) + zeros /\ Printf!Reverse(cut) = text
  BY <1>10, PaddedText
<1> HIDE DEF text
<1>13. /\ hex \in Seq(Glyph) /\ Len(hex) = (Len(digits) + zeros) + 1
       /\ Printf!Reverse(hex) = <<x>> \o text
  <2>1. Len(cut) < PRINTF_NTOA_BUFFER_SIZE
    BY <1>1, <1>12
  <2> QED
    BY <1>2, <1>12, <2>1, PutText
<1> HIDE DEF hex
<1>14. /\ number \in Seq(Glyph) /\ Len(number) = (Len(digits) + zeros) + 2
       /\ Printf!Reverse(number) = <<"0">> \o (<<x>> \o text)
  <2>1. Len(hex) < PRINTF_NTOA_BUFFER_SIZE
    BY <1>1, <1>13
  <2>2. /\ number \in Seq(Glyph) /\ Len(number) = Len(hex) + 1
        /\ Printf!Reverse(number) = <<"0">> \o Printf!Reverse(hex)
    BY <1>2, <1>13, <2>1, PutText
  <2> HIDE DEF number
  <2> QED
    BY <1>1, <1>13, <2>2
<1> HIDE DEF number
<1>15. "-" \notin flags /\ "0" \in flags => width <= Len(number)
  <2>1. ASSUME Zeropad(flags)
        PROVE  width <= Len(number)
    <3>1. zeros = Printf!Padding(Len(digits), width - 2)
      BY <2>1
    <3>2. \A n, w \in Int : w <= (n + Printf!Padding(n, w - 2)) + 2
      BY DEF Printf!Padding
    <3> QED
      BY <1>1, <1>14, <3>1, <3>2
  <2> QED
    BY <2>1, ZeropadFlags
<1>16. Printf!_out_rev(number, width, flags) = Justified(Printf!Reverse(number), width, flags)
  <2>1. number \in Seq(Glyph)
    BY <1>14
  <2> QED
    BY <1>15, <2>1, OutRevOnce
<1>17. Mark(flags) = x
  BY DEF x, Mark
<1> QED
  BY <1>4, <1>11, <1>14, <1>16, <1>17 DEF HexadecimalOf, text, number, hex

(* An octal number with its prefix, if there are no zeros. *)
LEMMA FormatOctal ==
  ASSUME NEW digits \in Seq(Glyph), NEW precision \in Nat, NEW width \in Nat, NEW flags,
         PRINTF_NTOA_BUFFER_SIZE \in Nat, NEW wanted,
         "#" \in flags, ~Signed(flags),
         Zeropad(flags) => precision = 0,
         wanted = IF Zeropad(flags) THEN width ELSE precision,
         0 = Printf!Padding(Len(digits), wanted),
         Len(digits) + 1 <= PRINTF_NTOA_BUFFER_SIZE
  PROVE  OctalOf(Printf!_ntoa_format(digits, FALSE, 8, precision, width, flags), digits, width, flags)
<1> DEFINE signed == FALSE \/ flags \cap {"+", " "} # {}
           zeropad == {"-", "0"} \cap flags = {"0"}
           inner == IF zeropad /\ width > 0 /\ signed THEN width - 1 ELSE width
           padded == Printf!Zeros(IF zeropad THEN Printf!Zeros(digits, inner) ELSE digits, precision)
           spare == Len(padded) - Len(digits)
           taken == Printf!Taken(spare, Len(padded), 8, precision, inner, flags)
           cut == SubSeq(padded, 1, Len(padded) - taken)
           hash == "p" \in flags \/ ("#" \in flags /\ ~(8 = 8 /\ spare > 0))
           letter == CASE 8 = 16 -> Printf!Put(cut, IF "X" \in flags THEN "X" ELSE "x")
                       [] 8 = 2  -> Printf!Put(cut, "b")
                       [] OTHER  -> cut
           prefixed == IF hash THEN Printf!Put(letter, "0") ELSE padded
           sign == IF FALSE THEN Printf!Put(prefixed, "-")
                   ELSE IF "+" \in flags THEN Printf!Put(prefixed, "+")
                   ELSE IF " " \in flags THEN Printf!Put(prefixed, " ")
                   ELSE prefixed
<1>1. Len(digits) \in Nat
  BY LenProperties
<1>2. "0" \in Glyph
  BY Glyphs
<1>3. zeropad <=> Zeropad(flags)
  BY DEF Zeropad
<1>4. inner = width
  <2>1. ~signed
    BY UnsignedFlags, Zenon
  <2> HIDE DEF signed, zeropad
  <2> QED
    BY <2>1
<1>5. padded = digits
  <2>1. digits \o Printf!Repeat("0", 0) = digits
    BY <1>2, RepeatFew, ConcatEmptySeq
  <2>2. Len(digits) + 0 <= PRINTF_NTOA_BUFFER_SIZE /\ 0 \in Nat
    BY <1>1
  <2>3. CASE Zeropad(flags)
    <3>1. 0 = Printf!Padding(Len(digits), width)
      BY <2>3
    <3>2. padded = Printf!Zeros(Printf!Zeros(digits, width), 0)
      BY <1>3, <1>4, <2>3
    <3> HIDE DEF padded
    <3> QED
      BY <2>1, <2>2, <3>1, <3>2, PaddedDigits
  <2>4. CASE ~Zeropad(flags)
    <3>1. 0 = Printf!Padding(Len(digits), precision)
      BY <2>4
    <3>2. padded = Printf!Zeros(digits, precision)
      BY <1>3, <2>4
    <3> HIDE DEF padded
    <3> QED
      BY <2>1, <2>2, <3>1, <3>2, PaddedDigits
  <2> QED
    BY <2>3, <2>4
<1> HIDE DEF padded
<1>6. spare = 0
  BY <1>1, <1>5
<1>7. taken = 0
  <2>1. Printf!Least(0, 1) = 0
    BY DEF Printf!Least
  <2> HIDE DEF spare, inner
  <2> QED
    BY <1>6, <2>1 DEF Printf!Taken
<1>8. cut = digits
  <2>1. Len(padded) - taken = Len(digits)
    <3> HIDE DEF taken
    <3> QED
      BY <1>1, <1>5, <1>7
  <2>2. SubSeq(digits, 1, Len(digits)) = digits
    BY SubSeqFull
  <2> QED
    BY <1>5, <2>1, <2>2
<1>9. Printf!_ntoa_format(digits, FALSE, 8, precision, width, flags)
        = Printf!_out_rev(Printf!Put(cut, "0"), inner, flags)
  <2>1. Printf!_ntoa_format(digits, FALSE, 8, precision, width, flags)
          = Printf!_out_rev(sign, inner, flags)
    BY DEF Printf!_ntoa_format, padded
  <2>2. letter = cut
    <3> HIDE DEF cut
    <3> QED
      OBVIOUS
  <2>3. hash
    <3> HIDE DEF spare
    <3> QED
      BY <1>6
  <2> HIDE DEF cut, letter, hash, inner
  <2>4. prefixed = Printf!Put(letter, "0")
    BY <2>3
  <2> HIDE DEF prefixed
  <2>5. sign = prefixed
    BY UnsignedFlags, Zenon
  <2> HIDE DEF sign
  <2> QED
    BY <2>1, <2>2, <2>4, <2>5
<1> HIDE DEF cut, inner, sign
<1> DEFINE number == Printf!Put(cut, "0")
<1>10. /\ number \in Seq(Glyph) /\ Len(number) = Len(digits) + 1
       /\ Printf!Reverse(number) = <<"0">> \o Printf!Reverse(digits)
  <2>1. Len(digits) < PRINTF_NTOA_BUFFER_SIZE
    BY <1>1
  <2>2. number = Printf!Put(digits, "0")
    BY <1>8
  <2> HIDE DEF number
  <2> QED
    BY <1>2, <2>1, <2>2, PutText
<1> HIDE DEF number
<1>11. "-" \notin flags /\ "0" \in flags => width <= Len(number)
  <2>1. ASSUME Zeropad(flags)
        PROVE  width <= Len(number)
    <3>1. 0 = Printf!Padding(Len(digits), width)
      BY <2>1
    <3> QED
      BY <1>1, <1>10, <3>1 DEF Printf!Padding
  <2> QED
    BY <2>1, ZeropadFlags
<1>12. Printf!_out_rev(number, width, flags) = Justified(Printf!Reverse(number), width, flags)
  BY <1>10, <1>11, OutRevJustifies
<1> QED
  BY <1>4, <1>9, <1>10, <1>12 DEF number, OctalOf

(* The digits of a numeral. *)
LEMMA NumeralText ==
  ASSUME NEW names \in Seq(Glyph), NEW v \in Nat, NEW b \in Nat, b >= 2, b <= Len(names)
  PROVE  /\ Len(Printf!Numeral(v, b)) \in Nat
         /\ [k \in DOMAIN Printf!Numeral(v, b) |-> names[Printf!Numeral(v, b)[k] + 1]] \in Seq(Glyph)
         /\ Len([k \in DOMAIN Printf!Numeral(v, b) |-> names[Printf!Numeral(v, b)[k] + 1]])
              = Len(Printf!Numeral(v, b))
<1> DEFINE numeral == Printf!Numeral(v, b)
           L == Len(numeral)
           digits == [k \in 1 .. L |-> names[numeral[k] + 1]]
<1>1. numeral \in Seq(0 .. b - 1)
  BY NumeralRecursion
<1> HIDE DEF numeral
<1>2. L \in Nat /\ DOMAIN numeral = 1 .. L
  BY <1>1, LenProperties
<1>3. \A k \in 1 .. L : numeral[k] \in 0 .. b - 1
  BY <1>1, ElementOfSeq
<1>4. Len(names) \in Nat /\ \A q \in 1 .. Len(names) : names[q] \in Glyph
  BY LenProperties, ElementOfSeq
<1>5. ASSUME NEW k \in 1 .. L
      PROVE  names[numeral[k] + 1] \in Glyph
  <2>1. numeral[k] + 1 \in 1 .. Len(names)
    BY <1>3, <1>4
  <2> QED
    BY <1>4, <2>1
<1> HIDE DEF L
<1>6. digits \in Seq(Glyph) /\ Len(digits) = L
  BY <1>2, <1>5
<1> HIDE DEF digits
<1>7. [k \in DOMAIN numeral |-> names[numeral[k] + 1]] = digits
  BY <1>2 DEF digits
<1> QED
  BY <1>2, <1>6, <1>7 DEF L, numeral

(* Three texts, one after the other. *)
LEMMA TextAssociative ==
  \A a, b, c \in Seq(Glyph) : (a \o b) \o c = a \o (b \o c)
BY ConcatAssociative

(* The parts of a number, one after the other. *)
LEMMA Assembled ==
  ASSUME NEW e \in Seq(Glyph), NEW p \in Seq(Glyph), NEW n \in Nat, NEW w \in Seq(Glyph)
  PROVE  /\ e \o p \o Printf!Repeat("0", n) \o w \in Seq(Glyph)
         /\ Len(e \o p \o Printf!Repeat("0", n) \o w) = ((Len(e) + Len(p)) + n) + Len(w)
         /\ Len(e \o p) = Len(e) + Len(p)
         /\ e \o p \o Printf!Repeat("0", n) \o w = e \o (p \o (Printf!Repeat("0", n) \o w))
<1> DEFINE r == Printf!Repeat("0", n)
<1>1. "0" \in Glyph
  BY Glyphs
<1>2. r \in Seq(Glyph) /\ Len(r) = n
  BY <1>1, RepeatText
<1> HIDE DEF r
<1>3. \A a, b \in Seq(Glyph) : a \o b \in Seq(Glyph) /\ Len(a \o b) = Len(a) + Len(b)
  BY ConcatProperties
<1> DEFINE sp == e \o p
           spr == sp \o r
           rd == r \o w
<1>5. sp \in Seq(Glyph) /\ Len(sp) = Len(e) + Len(p) /\ rd \in Seq(Glyph)
  BY <1>2, <1>3
<1>6. spr \o w = sp \o rd /\ sp \o rd = e \o (p \o rd)
  <2>1. spr \o w = sp \o rd
    <3> HIDE DEF sp
    <3>1. (sp \o r) \o w = sp \o (r \o w)
      <4>1. sp \in Seq(Glyph) /\ r \in Seq(Glyph) /\ w \in Seq(Glyph)
        BY <1>2, <1>5
      <4> QED
        BY <4>1, TextAssociative
    <3> QED
      BY <3>1
  <2>2. sp \o rd = e \o (p \o rd)
    <3> HIDE DEF rd
    <3> QED
      BY <1>2, <1>5, TextAssociative
  <2> QED
    BY <2>1, <2>2
<1> HIDE DEF sp, rd
<1>7. spr \in Seq(Glyph) /\ Len(spr) = Len(sp) + n
  BY <1>2, <1>3, <1>5
<1> HIDE DEF spr
<1>8. spr \o w \in Seq(Glyph) /\ Len(spr \o w) = Len(spr) + Len(w)
  BY <1>3, <1>7
<1> QED
  BY <1>5, <1>6, <1>7, <1>8 DEF sp, spr, rd, r

(* A number as the standard has it, from the parts that _ntoa gets.        *)
NtoaText(v, negative, b, precision, width, flags) ==
  LET numeral == Printf!Numeral(v, b)
      names   == IF "X" \in flags THEN Printf!UpperNames ELSE Printf!DigitNames
      digits  == [k \in DOMAIN numeral |-> names[numeral[k] + 1]]
      sign    == SignText(negative, flags)
      prefix  == IF b = 16 /\ "#" \in flags /\ v # 0
                   THEN <<"0", IF "X" \in flags THEN "X" ELSE "x">> ELSE << >>
      least   == Printf!Larger(IF b = 8 /\ "#" \in flags THEN Len(digits) + 1 ELSE 0,
                               IF "." \in flags THEN precision ELSE 1)
      all     == IF Zeropad(flags) THEN Printf!Larger(least, width - Len(sign \o prefix)) ELSE least
  IN  sign \o prefix \o Printf!Repeat("0", Printf!Padding(Len(digits), all)) \o digits

(* How many zeros the standard says: all has the value of this. *)
LeastDigits(L, b, precision, flags) ==
  Printf!Larger(IF b = 8 /\ "#" \in flags THEN L + 1 ELSE 0, IF "." \in flags THEN precision ELSE 1)
AllDigits(L, b, precision, room, flags) ==
  IF Zeropad(flags) THEN Printf!Larger(LeastDigits(L, b, precision, flags), room)
                    ELSE LeastDigits(L, b, precision, flags)

(* The larger one of two numbers is one of them. *)
LEMMA LargerIs ==
  ASSUME NEW m \in Int, NEW n \in Int
  PROVE  /\ Printf!Larger(m, n) \in Int
         /\ m >= n => Printf!Larger(m, n) = m
         /\ m <= n => Printf!Larger(m, n) = n
BY DEF Printf!Larger

(* How many digits a number is to have is a number. *)
LEMMA AllDigitsIsInt ==
  ASSUME NEW L \in Nat, NEW b, NEW precision \in Nat, NEW room \in Int, NEW flags
  PROVE  AllDigits(L, b, precision, room, flags) \in Int
BY DEF AllDigits, LeastDigits, Printf!Larger

(* The zeros of the standard are those of the code: without a prefix,      *)
LEMMA ZerosPlain ==
  ASSUME NEW L \in Nat \ {0}, NEW b, NEW precision \in Nat, NEW room \in Int, NEW flags,
         "." \in flags => ~Zeropad(flags), "." \notin flags => precision = 0,
         b = 8 /\ "#" \in flags =>
           Printf!Padding(L, IF Zeropad(flags) THEN room ELSE precision) > 0
  PROVE  Printf!Padding(L, AllDigits(L, b, precision, room, flags))
           = Printf!Padding(L, IF Zeropad(flags) THEN room ELSE precision)
<1>1. CASE Zeropad(flags)
  <2>1. LeastDigits(L, b, precision, flags) = IF b = 8 /\ "#" \in flags THEN L + 1 ELSE 1
    BY <1>1 DEF LeastDigits, Printf!Larger
  <2>2. AllDigits(L, b, precision, room, flags) = Printf!Larger(LeastDigits(L, b, precision, flags), room)
    BY <1>1 DEF AllDigits
  <2>3. b = 8 /\ "#" \in flags => Printf!Padding(L, room) > 0
    BY <1>1
  <2> QED
    BY <1>1, <2>1, <2>2, <2>3 DEF Printf!Padding, Printf!Larger
<1>2. CASE ~Zeropad(flags) /\ "." \in flags
  <2>1. AllDigits(L, b, precision, room, flags)
          = Printf!Larger(IF b = 8 /\ "#" \in flags THEN L + 1 ELSE 0, precision)
    BY <1>2 DEF AllDigits, LeastDigits
  <2>2. b = 8 /\ "#" \in flags => Printf!Padding(L, precision) > 0
    BY <1>2
  <2> QED
    BY <1>2, <2>1, <2>2 DEF Printf!Padding, Printf!Larger
<1>3. CASE ~Zeropad(flags) /\ "." \notin flags
  <2>1. Printf!Padding(L, 0) = 0
    BY DEF Printf!Padding
  <2>2. ~(b = 8 /\ "#" \in flags)
    BY <1>3, <2>1
  <2>3. AllDigits(L, b, precision, room, flags) = 1
    BY <1>3, <2>2 DEF AllDigits, LeastDigits, Printf!Larger
  <2> QED
    BY <1>3, <2>1, <2>3 DEF Printf!Padding
<1> QED
  BY <1>1, <1>2, <1>3

(* for an octal number with its prefix, *)
LEMMA ZerosOctal ==
  ASSUME NEW L \in Nat, NEW precision \in Nat, NEW room \in Int, NEW flags,
         "." \in flags => ~Zeropad(flags), "." \notin flags => precision = 0,
         "#" \in flags, "." \notin flags => L # 0,
         Printf!Padding(L, IF Zeropad(flags) THEN room ELSE precision) = 0
  PROVE  Printf!Padding(L, AllDigits(L, 8, precision, room, flags)) = 1
<1>1. CASE Zeropad(flags)
  <2>1. LeastDigits(L, 8, precision, flags) = L + 1
    BY <1>1 DEF LeastDigits, Printf!Larger
  <2>2. AllDigits(L, 8, precision, room, flags) = Printf!Larger(L + 1, room)
    BY <1>1, <2>1 DEF AllDigits
  <2>3. Printf!Padding(L, room) = 0
    BY <1>1
  <2> QED
    BY <2>2, <2>3 DEF Printf!Padding, Printf!Larger
<1>2. CASE ~Zeropad(flags)
  <2>1. Printf!Padding(L, precision) = 0
    BY <1>2
  <2>2. precision <= L
    BY <2>1 DEF Printf!Padding
  <2>3. LeastDigits(L, 8, precision, flags) = L + 1
    BY <2>2 DEF LeastDigits, Printf!Larger
  <2>4. AllDigits(L, 8, precision, room, flags) = L + 1
    BY <1>2, <2>3 DEF AllDigits
  <2> QED
    BY <2>4 DEF Printf!Padding
<1> QED
  BY <1>1, <1>2

(* for zero with a precision, *)
LEMMA ZerosOfNothing ==
  ASSUME NEW b, NEW precision \in Nat, NEW room \in Int, NEW flags,
         ~Zeropad(flags), "." \in flags, b = 8 /\ "#" \in flags => precision > 0
  PROVE  /\ Printf!Padding(0, AllDigits(0, b, precision, room, flags)) = precision
         /\ Printf!Padding(0, precision) = precision
<1>1. AllDigits(0, b, precision, room, flags)
        = Printf!Larger(IF b = 8 /\ "#" \in flags THEN 1 ELSE 0, precision)
  BY DEF AllDigits, LeastDigits
<1> QED
  BY <1>1 DEF Printf!Padding, Printf!Larger

(* and for zero without one, of which the code prints the digit. *)
LEMMA ZerosOfZero ==
  ASSUME NEW b, NEW precision \in Nat, NEW room \in Int, NEW flags,
         "." \notin flags, precision = 0
  PROVE  Printf!Padding(0, AllDigits(0, b, precision, room, flags))
           = Printf!Padding(1, IF Zeropad(flags) THEN room ELSE precision) + 1
<1>1. LeastDigits(0, b, precision, flags) = 1
  BY DEF LeastDigits, Printf!Larger
<1>2. AllDigits(0, b, precision, room, flags) = IF Zeropad(flags) THEN Printf!Larger(1, room) ELSE 1
  BY <1>1 DEF AllDigits
<1> QED
  BY <1>2 DEF Printf!Padding, Printf!Larger

(* A prefix of two characters: '0' before the letter of the base. *)
LEMMA PairText ==
  ASSUME NEW S, NEW c \in S, NEW w \in S
  PROVE  <<c>> \in Seq(S) /\ <<c, w>> \in Seq(S) /\ Len(<<c, w>>) = 2 /\ <<c, w>> = <<c>> \o <<w>>
<1>1. /\ <<c>> \in Seq(S) /\ Len(<<c>>) = 1 /\ <<c>>[1] = c
      /\ <<w>> \in Seq(S) /\ Len(<<w>>) = 1 /\ <<w>>[1] = w
      /\ <<c, w>> \in Seq(S) /\ Len(<<c, w>>) = 2 /\ <<c, w>>[1] = c /\ <<c, w>>[2] = w
  OBVIOUS
<1> DEFINE a == <<c>>
           b == <<w>>
           ab == <<c, w>>
           u == a \o b
<1>2. a \in Seq(S) /\ Len(a) = 1 /\ a[1] = c /\ b \in Seq(S) /\ Len(b) = 1 /\ b[1] = w
  BY <1>1
<1>3. ab \in Seq(S) /\ Len(ab) = 2 /\ ab[1] = c /\ ab[2] = w
  BY <1>1
<1> HIDE DEF a, b, ab
<1>4. u \in Seq(S) /\ Concats(u, a, b)
  BY <1>2, ConcatText
<1> HIDE DEF u
<1>5. Len(u) = 2 /\ u[1] = c /\ u[2] = w
  <2>1. 1 \in 1 .. 1 /\ 2 \in 1 + 1 .. 1 + 1 /\ 2 - 1 = 1
    OBVIOUS
  <2> QED
    BY <1>2, <1>4, <2>1 DEF Concats
<1>6. \A q \in 1 .. 2 : u[q] = ab[q]
  BY <1>3, <1>5
<1>7. u = ab
  BY <1>3, <1>4, <1>5, <1>6, SeqEqual
<1> QED
  BY <1>1, <1>7 DEF u, a, b, ab

(* The flags without '#' have the same sign, zeros and side. *)
LEMMA WithoutHash ==
  ASSUME NEW flags, NEW negative
  PROVE  /\ SignText(negative, flags \ {"#"}) = SignText(negative, flags)
         /\ Zeropad(flags \ {"#"}) <=> Zeropad(flags)
         /\ \A text, width : Justified(text, width, flags \ {"#"}) = Justified(text, width, flags)
         /\ "#" \notin flags \ {"#"}
         /\ "p" \notin flags => "p" \notin flags \ {"#"}
         /\ Signed(flags \ {"#"}) <=> Signed(flags)
<1>1. "+" \in flags \ {"#"} <=> "+" \in flags
  OBVIOUS
<1>2. " " \in flags \ {"#"} <=> " " \in flags
  OBVIOUS
<1>3. /\ "-" \in flags \ {"#"} <=> "-" \in flags
      /\ "0" \in flags \ {"#"} <=> "0" \in flags
  OBVIOUS
<1>4. SignText(negative, flags \ {"#"}) = SignText(negative, flags)
  BY <1>1, <1>2, Zenon DEF SignText
<1>5. Zeropad(flags \ {"#"}) <=> Zeropad(flags)
  BY <1>3, ZeropadFlags
<1>6. \A text, width : Justified(text, width, flags \ {"#"}) = Justified(text, width, flags)
  BY <1>3, Zenon DEF Justified
<1>7. Signed(flags \ {"#"}) <=> Signed(flags)
  BY <1>1, <1>2, Zenon DEF Signed
<1>8. "#" \notin flags \ {"#"} /\ ("p" \notin flags => "p" \notin flags \ {"#"})
  OBVIOUS
<1> QED
  BY <1>4, <1>5, <1>6, <1>7, <1>8

(* The parts of a number are those of a text. *)
IsAssembled(t, e, p, n, w) ==
  /\ Len(t) = ((Len(e) + Len(p)) + n) + Len(w)
  /\ Len(e \o p) = Len(e) + Len(p)
  /\ t = e \o (p \o (Printf!Repeat("0", n) \o w))

(* Sign, prefix, zeros and digits are a number assembled from them. *)
LEMMA AssembledParts ==
  ASSUME NEW e \in Seq(Glyph), NEW p \in Seq(Glyph), NEW n \in Nat, NEW w \in Seq(Glyph)
  PROVE  IsAssembled(e \o p \o Printf!Repeat("0", n) \o w, e, p, n, w)
<1>1. /\ Len(e \o p \o Printf!Repeat("0", n) \o w) = ((Len(e) + Len(p)) + n) + Len(w)
      /\ Len(e \o p) = Len(e) + Len(p)
  BY Assembled
<1>2. e \o p \o Printf!Repeat("0", n) \o w = e \o (p \o (Printf!Repeat("0", n) \o w))
  BY Assembled
<1> QED
  BY <1>1, <1>2 DEF IsAssembled

(* A number that is not negative, and not to have a sign, has none. *)
LEMMA UnsignedText ==
  ASSUME NEW flags, ~Signed(flags)
  PROVE  SignText(FALSE, flags) = << >>
BY UnsignedFlags, Zenon DEF SignText

(* The digits of a number as the standard has them. *)
NumeralDigits(v, b, names) == [k \in DOMAIN Printf!Numeral(v, b) |-> names[Printf!Numeral(v, b)[k] + 1]]

(* The names of the digits of a numeral are a text as long as it is. *)
LEMMA NumeralDigitsText ==
  ASSUME NEW names \in Seq(Glyph), NEW v \in Nat, NEW b \in Nat, b >= 2, b <= Len(names)
  PROVE  /\ NumeralDigits(v, b, names) \in Seq(Glyph)
         /\ Len(NumeralDigits(v, b, names)) = Len(Printf!Numeral(v, b))
         /\ Len(NumeralDigits(v, b, names)) \in Nat
BY NumeralText DEF NumeralDigits

(* The digits of _ntoa, back to front, are the names of those of the numeral. *)
LEMMA DigitsAre ==
  ASSUME NEW names \in Seq(Glyph), NEW v \in Nat \ {0}, NEW b \in Nat, b >= 2,
         PRINTF_NTOA_BUFFER_SIZE \in Nat, b <= Len(names),
         Len(Printf!Numeral(v, b)) <= PRINTF_NTOA_BUFFER_SIZE
  PROVE  /\ Printf!Digits(v, b, names) \in Seq(Glyph)
         /\ Len(Printf!Digits(v, b, names)) = Len(Printf!Numeral(v, b))
         /\ Printf!Reverse(Printf!Digits(v, b, names)) = NumeralDigits(v, b, names)
BY DigitsAreNumeral DEF NumeralDigits

(* What _ntoa means to print. *)
NtoaPrints(v, negative, b, precision, width, flags) ==
  Printf!_ntoa(v, negative, b, precision, width, flags)
    = Justified(NtoaText(v, negative, b, precision, width, flags), width, flags)

(* What _ntoa makes of a number that is not zero. *)
LEMMA NtoaOfNumber ==
  ASSUME NEW digits \in Seq(Glyph), NEW negative \in BOOLEAN, NEW b \in {2, 8, 10, 16},
         NEW precision \in Nat, NEW width \in Nat, NEW flags, NEW v \in Nat \ {0},
         PRINTF_NTOA_BUFFER_SIZE \in Nat, "p" \notin flags,
         "." \in flags => ~("0" \in flags), "." \notin flags => precision = 0,
         "#" \in flags => b \in {8, 16} /\ ~negative /\ ~Signed(flags),
         NEW names, names = IF "X" \in flags THEN Printf!UpperNames ELSE Printf!DigitNames,
         digits = Printf!Digits(v, b, names),
         Len(digits) = Len(Printf!Numeral(v, b)), Len(digits) \in Nat \ {0},
         Printf!Reverse(digits) = NumeralDigits(v, b, names),
         Len(NtoaText(v, negative, b, precision, width, flags)) <= PRINTF_NTOA_BUFFER_SIZE
  PROVE  NtoaPrints(v, negative, b, precision, width, flags)
<1> DEFINE sgn == SignText(negative, flags)
           x == IF "X" \in flags THEN "X" ELSE "x"
           prefix == IF b = 16 /\ "#" \in flags THEN <<"0", x>> ELSE << >>
           front == Printf!Reverse(digits)
           L == Len(digits)
           zeros == Printf!Padding(L, AllDigits(L, b, precision, width - Len(sgn \o prefix), flags))
           r == Printf!Repeat("0", zeros)
           text == sgn \o prefix \o r \o front
           output == Printf!_ntoa_format(digits, negative, b, precision, width, flags)
<1>0. /\ digits = Printf!Digits(v, b, IF "X" \in flags THEN Printf!UpperNames ELSE Printf!DigitNames)
      /\ Printf!Reverse(digits) = [k \in DOMAIN Printf!Numeral(v, b) |->
           (IF "X" \in flags THEN Printf!UpperNames ELSE Printf!DigitNames)[Printf!Numeral(v, b)[k] + 1]]
  BY DEF NumeralDigits
<1>1. front \in Seq(Glyph) /\ Len(front) = L /\ L \in Nat /\ L # 0
  BY ReverseText
<1>2. sgn \in Seq(Glyph)
  BY SignIsText
<1>3. prefix \in Seq(Glyph) /\ Len(prefix) = IF b = 16 /\ "#" \in flags THEN 2 ELSE 0
  <2>1. "0" \in Glyph /\ x \in Glyph
    BY Glyphs
  <2> HIDE DEF x
  <2> QED
    BY <2>1
<1>4. Printf!_ntoa(v, negative, b, precision, width, flags) = output
  <2>1. v # 0
    OBVIOUS
  <2> QED
    BY <1>0, <2>1 DEF Printf!_ntoa
<1>5. NtoaText(v, negative, b, precision, width, flags) = text
  <2>1. L = Len([k \in DOMAIN Printf!Numeral(v, b) |->
              (IF "X" \in flags THEN Printf!UpperNames ELSE Printf!DigitNames)[Printf!Numeral(v, b)[k] + 1]])
    BY <1>0, <1>1
  <2>2. v # 0
    OBVIOUS
  <2> QED
    BY <1>0, <2>1, <2>2, Zenon DEF NtoaText, AllDigits, LeastDigits
<1> HIDE DEF output, front, sgn
<1>6. zeros \in Nat
  <2>1. Len(sgn \o prefix) \in Int
    <3> HIDE DEF prefix
    <3> QED
      BY <1>2, <1>3, ConcatProperties, LenProperties
  <2>2. AllDigits(L, b, precision, width - Len(sgn \o prefix), flags) \in Int
    <3> HIDE DEF prefix, L
    <3> QED
      BY <1>1, <2>1, AllDigitsIsInt
  <2> HIDE DEF prefix, L
  <2> QED
    BY <1>1, <2>2, PaddingIsNat
<1> HIDE DEF zeros, prefix
<1>7. /\ Len(text) = ((Len(sgn) + Len(prefix)) + zeros) + L
      /\ Len(sgn \o prefix) = Len(sgn) + Len(prefix)
      /\ text = sgn \o (prefix \o (r \o front))
  <2>1. /\ Len(text) = ((Len(sgn) + Len(prefix)) + zeros) + Len(front)
        /\ Len(sgn \o prefix) = Len(sgn) + Len(prefix)
        /\ text = sgn \o (prefix \o (r \o front))
    <3>1. sgn \in Seq(Glyph) /\ prefix \in Seq(Glyph) /\ zeros \in Nat /\ front \in Seq(Glyph)
      BY <1>1, <1>2, <1>3, <1>6
    <3>2. IsAssembled(text, sgn, prefix, zeros, front)
      BY <3>1, AssembledParts
    <3> HIDE DEF text, r
    <3> QED
      BY <3>2 DEF IsAssembled, r
  <2> QED
    BY <1>1, <2>1
<1>8. r \o front \in Seq(Glyph)
  <2>1. r \in Seq(Glyph)
    BY <1>6, Glyphs, RepeatText
  <2> HIDE DEF r
  <2> QED
    BY <1>1, <2>1, ConcatProperties
<1> HIDE DEF text, r
<1>9. ((Len(sgn) + Len(prefix)) + zeros) + L <= PRINTF_NTOA_BUFFER_SIZE
  BY <1>5, <1>7
<1> DEFINE room == width - Len(sgn)
           zerosOf == Printf!Padding(L, IF Zeropad(flags) THEN room ELSE precision)
<1>10. /\ "." \in flags => ~Zeropad(flags)
       /\ Zeropad(flags) => precision = 0
       /\ room \in Int
  <2>1. "." \in flags => ~Zeropad(flags)
    BY ZeropadFlags
  <2>2. Len(sgn) \in Int
    BY <1>2, LenProperties
  <2> QED
    BY <2>1, <2>2
<1>11. L \in Nat \ {0}
  BY <1>1
<1>12. ASSUME ~(b = 16 /\ "#" \in flags) /\ ("#" \in flags => zerosOf > 0)
       PROVE  Printf!_ntoa(v, negative, b, precision, width, flags)
                = Justified(NtoaText(v, negative, b, precision, width, flags), width, flags)
  <2>1. prefix = << >> /\ Len(prefix) = 0
    BY <1>3, <1>12 DEF prefix
  <2>2. zeros = zerosOf
    <3>1. width - Len(sgn \o prefix) = room
      <4>1. Len(sgn) \in Nat
        BY <1>2, LenProperties
      <4> QED
        BY <1>7, <2>1, <4>1
    <3>2. b = 8 /\ "#" \in flags => zerosOf > 0
      BY <1>12
    <3> HIDE DEF room, L
    <3>3. Printf!Padding(L, AllDigits(L, b, precision, room, flags)) = zerosOf
      BY <1>10, <1>11, <3>2, ZerosPlain
    <3> QED
      BY <3>1, <3>3 DEF zeros
  <2>3. text = sgn \o (r \o front)
    <3>1. << >> \o (r \o front) = r \o front
      BY <1>8, ConcatEmptySeq
    <3> QED
      BY <1>7, <2>1, <3>1
  <2>4. (Len(sgn) + L) + zeros <= PRINTF_NTOA_BUFFER_SIZE
    <3>1. Len(sgn) \in Nat
      BY <1>2, LenProperties
    <3> QED
      BY <1>1, <1>6, <1>9, <2>1, <3>1
  <2>5. "#" \in flags => b = 8 /\ zeros > 0
    BY <1>12, <2>2
  <2>6. zeros = Printf!Padding(Len(digits), IF Zeropad(flags) THEN width - Len(SignText(negative, flags)) ELSE precision)
    BY <2>2 DEF sgn
  <2>7. output = Justified(SignText(negative, flags) \o
                   (Printf!Repeat("0", zeros) \o Printf!Reverse(digits)), width, flags)
    BY <1>6, <1>10, <2>4, <2>5, <2>6, FormatPlain DEF output, sgn
  <2> QED
    BY <1>4, <1>5, <2>3, <2>7 DEF sgn, r, front
<1>13. ASSUME b = 16 /\ "#" \in flags
       PROVE  Printf!_ntoa(v, negative, b, precision, width, flags)
                = Justified(NtoaText(v, negative, b, precision, width, flags), width, flags)
  <2>1. sgn = << >> /\ Len(sgn) = 0 /\ Len(prefix) = 2 /\ prefix = <<"0", x>> /\ ~negative
    <3>1. sgn = << >> /\ ~negative
      BY <1>13, UnsignedText DEF sgn
    <3>2. prefix = <<"0", x>>
      BY <1>13 DEF prefix
    <3> QED
      BY <1>3, <1>13, <3>1, <3>2
  <2>2. zeros = Printf!Padding(L, IF Zeropad(flags) THEN width - 2 ELSE precision)
    <3>1. width - Len(sgn \o prefix) = width - 2
      BY <1>7, <2>1
    <3>2. ~(b = 8 /\ "#" \in flags) /\ width - 2 \in Int
      BY <1>13
    <3> HIDE DEF L
    <3>3. Printf!Padding(L, AllDigits(L, b, precision, width - 2, flags))
            = Printf!Padding(L, IF Zeropad(flags) THEN width - 2 ELSE precision)
      BY <1>10, <1>11, <3>2, ZerosPlain
    <3> QED
      BY <3>1, <3>3 DEF zeros
  <2>3. text = <<"0">> \o (<<x>> \o (r \o front))
    <3>1. x \in Glyph /\ "0" \in Glyph
      BY Glyphs
    <3> HIDE DEF x
    <3> DEFINE t == r \o front
    <3>2. t \in Seq(Glyph)
      BY <1>8
    <3> HIDE DEF t
    <3>3. <<"0">> \in Seq(Glyph) /\ <<x>> \in Seq(Glyph) /\ <<"0", x>> = <<"0">> \o <<x>> /\ <<"0", x>> \in Seq(Glyph)
      BY <3>1, PairText
    <3>4. (<<"0">> \o <<x>>) \o t = <<"0">> \o (<<x>> \o t)
      BY <3>2, <3>3, TextAssociative
    <3>5. << >> \o (<<"0", x>> \o t) = <<"0", x>> \o t
      <4>1. <<"0", x>> \o t \in Seq(Glyph)
        BY <3>2, <3>3, ConcatProperties
      <4> QED
        BY <4>1, ConcatEmptySeq
    <3>6. text = << >> \o (<<"0", x>> \o t)
      BY <1>7, <2>1 DEF t
    <3> QED
      BY <3>3, <3>4, <3>5, <3>6 DEF t
  <2>4. (L + zeros) + 2 <= PRINTF_NTOA_BUFFER_SIZE
    BY <1>1, <1>6, <1>9, <2>1
  <2>5. Printf!_ntoa_format(digits, FALSE, 16, precision, width, flags) =
          Justified(<<"0">> \o (<<x>> \o (Printf!Repeat("0", zeros) \o Printf!Reverse(digits))), width, flags)
    <3>1. Len(digits) # 0 /\ ~Signed(flags) /\ "#" \in flags
      BY <1>1, <1>13
    <3>2. "." \in flags => "0" \notin flags
      OBVIOUS
    <3>3. zeros = Printf!Padding(Len(digits), IF Zeropad(flags) THEN width - 2 ELSE precision)
      BY <2>2
    <3>4. (Len(digits) + zeros) + 2 <= PRINTF_NTOA_BUFFER_SIZE
      BY <2>4
    <3>5. digits \in Seq(Glyph) /\ precision \in Nat /\ width \in Nat /\ zeros \in Nat
      BY <1>6
    <3> DEFINE wanted == IF Zeropad(flags) THEN width - 2 ELSE precision
    <3>6. /\ wanted = IF Zeropad(flags) THEN width - 2 ELSE precision
          /\ x = Mark(flags)
          /\ zeros = Printf!Padding(Len(digits), wanted)
      BY <3>3 DEF Mark
    <3> HIDE DEF wanted, x, L
    <3>7. HexadecimalOf(Printf!_ntoa_format(digits, FALSE, 16, precision, width, flags),
                        digits, zeros, x, width, flags)
      BY <3>1, <3>2, <3>4, <3>5, <3>6, FormatHexadecimal
    <3> QED
      BY <3>7 DEF HexadecimalOf
  <2>6. output = Printf!_ntoa_format(digits, FALSE, 16, precision, width, flags)
    BY <1>13, <2>1 DEF output
  <2> QED
    BY <1>4, <1>5, <2>3, <2>5, <2>6 DEF r, front
<1>14. ASSUME b = 8 /\ "#" \in flags /\ ~(zerosOf > 0)
       PROVE  Printf!_ntoa(v, negative, b, precision, width, flags)
                = Justified(NtoaText(v, negative, b, precision, width, flags), width, flags)
  <2>1. sgn = << >> /\ Len(sgn) = 0 /\ Len(prefix) = 0 /\ prefix = << >> /\ ~negative
    <3>1. sgn = << >> /\ ~negative
      BY <1>14, UnsignedText DEF sgn
    <3>2. prefix = << >>
      BY <1>14 DEF prefix
    <3> QED
      BY <3>1, <3>2
  <2>2. room = width /\ 0 = Printf!Padding(L, IF Zeropad(flags) THEN width ELSE precision)
    <3>1. room = width
      BY <2>1
    <3>2. \A m, n \in Int : ~(Printf!Padding(m, n) > 0) => Printf!Padding(m, n) = 0
      BY DEF Printf!Padding
    <3>3. zerosOf = 0
      <4>1. (IF Zeropad(flags) THEN room ELSE precision) \in Int /\ L \in Int
        BY <1>1, <1>10
      <4> QED
        BY <1>14, <3>2, <4>1
    <3> QED
      BY <3>1, <3>3
  <2>3. zeros = 1
    <3>1. width - Len(sgn \o prefix) = width /\ width \in Int
      BY <1>7, <2>1
    <3> HIDE DEF L
    <3>2. Printf!Padding(L, AllDigits(L, 8, precision, width, flags)) = 1
      BY <1>10, <1>11, <1>14, <2>2, <3>1, ZerosOctal
    <3> QED
      BY <1>14, <3>1, <3>2 DEF zeros
  <2>4. text = <<"0">> \o front
    <3>1. r = <<"0">>
      BY <2>3, Glyphs, RepeatFew DEF r
    <3>2. << >> \o (<< >> \o (r \o front)) = r \o front
      <4> DEFINE t == r \o front
      <4>1. t \in Seq(Glyph)
        BY <1>8
      <4> HIDE DEF t
      <4>2. << >> \o t = t
        BY <4>1, ConcatEmptySeq
      <4> QED
        BY <4>2 DEF t
    <3>3. text = << >> \o (<< >> \o (r \o front))
      BY <1>7, <2>1
    <3> QED
      BY <3>1, <3>2, <3>3
  <2>5. L + 1 <= PRINTF_NTOA_BUFFER_SIZE
    BY <1>1, <1>9, <2>1, <2>3
  <2>6. Printf!_ntoa_format(digits, FALSE, 8, precision, width, flags)
          = Justified(<<"0">> \o Printf!Reverse(digits), width, flags)
    <3>1. ~Signed(flags) /\ "#" \in flags
      BY <1>14
    <3>2. Zeropad(flags) => precision = 0
      BY <1>10
    <3>3. 0 = Printf!Padding(Len(digits), IF Zeropad(flags) THEN width ELSE precision)
      BY <2>2
    <3>4. Len(digits) + 1 <= PRINTF_NTOA_BUFFER_SIZE
      BY <2>5
    <3>5. digits \in Seq(Glyph) /\ precision \in Nat /\ width \in Nat
      OBVIOUS
    <3> DEFINE wanted == IF Zeropad(flags) THEN width ELSE precision
    <3>6. /\ wanted = IF Zeropad(flags) THEN width ELSE precision
          /\ 0 = Printf!Padding(Len(digits), wanted)
      BY <3>3
    <3> HIDE DEF wanted, L
    <3>7. OctalOf(Printf!_ntoa_format(digits, FALSE, 8, precision, width, flags), digits, width, flags)
      BY <3>1, <3>2, <3>4, <3>5, <3>6, FormatOctal
    <3> QED
      BY <3>7 DEF OctalOf
  <2>7. output = Printf!_ntoa_format(digits, FALSE, 8, precision, width, flags)
    BY <1>14, <2>1 DEF output
  <2> QED
    BY <1>4, <1>5, <2>4, <2>6, <2>7 DEF front
<1>15. Printf!_ntoa(v, negative, b, precision, width, flags)
         = Justified(NtoaText(v, negative, b, precision, width, flags), width, flags)
  <2>1. "#" \in flags => b = 8 \/ b = 16
    OBVIOUS
  <2> QED
    BY <1>12, <1>13, <1>14, <2>1, Zenon
<1> QED
  BY <1>15, Zenon DEF NtoaPrints

(* The text of a number without a prefix, as the code has it. *)
PlainOf(output, digits, zeros, sgn, width, flags) ==
  output = Justified(sgn \o (Printf!Repeat("0", zeros) \o Printf!Reverse(digits)), width, flags)

(* A number without a prefix, in the terms of its parts. *)
LEMMA FormatPlainOf ==
  ASSUME NEW digits \in Seq(Glyph), NEW negative \in BOOLEAN, NEW base,
         NEW precision \in Nat, NEW width \in Nat, NEW flags, NEW zeros \in Nat,
         PRINTF_NTOA_BUFFER_SIZE \in Nat, "p" \notin flags,
         Zeropad(flags) => precision = 0, NEW wanted, NEW sgn, sgn = SignText(negative, flags),
         wanted = IF Zeropad(flags) THEN width - Len(sgn) ELSE precision,
         zeros = Printf!Padding(Len(digits), wanted),
         "#" \in flags => base = 8 /\ zeros > 0,
         (Len(sgn) + Len(digits)) + zeros <= PRINTF_NTOA_BUFFER_SIZE
  PROVE  PlainOf(Printf!_ntoa_format(digits, negative, base, precision, width, flags),
                 digits, zeros, sgn, width, flags)
<1>1. zeros = Printf!Padding(Len(digits),
                IF Zeropad(flags) THEN width - Len(SignText(negative, flags)) ELSE precision)
  OBVIOUS
<1>2. (Len(SignText(negative, flags)) + Len(digits)) + zeros <= PRINTF_NTOA_BUFFER_SIZE
  OBVIOUS
<1>3. Printf!_ntoa_format(digits, negative, base, precision, width, flags) =
        Justified(SignText(negative, flags) \o
                    (Printf!Repeat("0", zeros) \o Printf!Reverse(digits)), width, flags)
  BY <1>1, <1>2, FormatPlain
<1> QED
  BY <1>3 DEF PlainOf

IsZeroText(text, sgn, zeros) ==
  /\ text = sgn \o Printf!Repeat("0", zeros)
  /\ Len(text) = Len(sgn) + zeros
  /\ sgn \o Printf!Repeat("0", zeros) \in Seq(Glyph)

(* Zero as the standard has it, of which the digits are zeros.             *)
LEMMA ZeroText ==
  ASSUME NEW b \in Nat, b >= 2, NEW precision \in Nat, NEW width \in Nat, NEW flags, NEW zeros \in Nat,
         zeros = Printf!Padding(0, AllDigits(0, b, precision,
                                             width - Len(SignText(FALSE, flags)), flags))
  PROVE  IsZeroText(NtoaText(0, FALSE, b, precision, width, flags), SignText(FALSE, flags), zeros)
<1> DEFINE sgn == SignText(FALSE, flags)
           names == IF "X" \in flags THEN Printf!UpperNames ELSE Printf!DigitNames
           digits == [k \in DOMAIN Printf!Numeral(0, b) |-> names[Printf!Numeral(0, b)[k] + 1]]
           r == Printf!Repeat("0", zeros)
           n == Printf!Padding(Len(digits), AllDigits(Len(digits), b, precision, width - Len(sgn \o << >>), flags))
           text == NtoaText(0, FALSE, b, precision, width, flags)
<1>1. digits = << >>
  <2>1. Printf!Numeral(0, b) = << >>
    BY NumeralRecursion
  <2>2. DOMAIN Printf!Numeral(0, b) = {}
    BY <2>1
  <2>3. \A f : [k \in {} |-> f[k]] = << >>
    OBVIOUS
  <2> HIDE DEF names
  <2> QED
    BY <2>2
<1>2. text = sgn \o << >> \o Printf!Repeat("0", n) \o digits
  BY Zenon DEF NtoaText, AllDigits, LeastDigits
<1> HIDE DEF digits, text, sgn
<1>3. sgn \in Seq(Glyph)
  BY SignIsText DEF sgn
<1>4. sgn \o << >> = sgn
  BY <1>3, ConcatEmptySeq
<1>5. Len(digits) = 0
  BY <1>1
<1>6. n = zeros
  BY <1>4, <1>5 DEF sgn
<1>7. text = sgn \o r \o << >>
  <2> HIDE DEF n
  <2> QED
    BY <1>1, <1>2, <1>4, <1>6
<1>8. r \in Seq(Glyph) /\ Len(r) = zeros
  <2>1. "0" \in Glyph
    BY Glyphs
  <2> QED
    BY <2>1, RepeatText
<1> HIDE DEF r
<1> DEFINE t == sgn \o r
<1>9. t \in Seq(Glyph) /\ Len(t) = Len(sgn) + zeros
  BY <1>3, <1>8, ConcatProperties
<1>10. t \o << >> = t
  <2> HIDE DEF t
  <2> QED
    BY <1>9, ConcatEmptySeq
<1> QED
  BY <1>7, <1>9, <1>10 DEF IsZeroText, text, sgn, r

(* What _ntoa makes of zero. *)
LEMMA NtoaOfZero ==
  ASSUME NEW b \in {2, 8, 10, 16}, NEW precision \in Nat, NEW width \in Nat, NEW flags,
         PRINTF_NTOA_BUFFER_SIZE \in Nat \ {0}, "p" \notin flags,
         "." \in flags => ~("0" \in flags), "." \notin flags => precision = 0,
         "#" \in flags => b \in {8, 16} /\ ~Signed(flags),
         Len(NtoaText(0, FALSE, b, precision, width, flags)) <= PRINTF_NTOA_BUFFER_SIZE
  PROVE  NtoaPrints(0, FALSE, b, precision, width, flags)
<1> DEFINE sgn == SignText(FALSE, flags)
           room == width - Len(sgn)
           zeros == Printf!Padding(0, AllDigits(0, b, precision, room, flags))
           r == Printf!Repeat("0", zeros)
           text == NtoaText(0, FALSE, b, precision, width, flags)
           digits == Printf!Digits(0, b, IF "X" \in flags THEN Printf!UpperNames ELSE Printf!DigitNames)
           output == Printf!_ntoa(0, FALSE, b, precision, width, flags)
           bare == flags \ {"#"}
           f == IF b = 16 THEN bare ELSE flags
<1> SUFFICES output = Justified(text, width, flags)
  BY DEF NtoaPrints
<1>1. output = IF "." \in flags
                 THEN Printf!_ntoa_format(<< >>, FALSE, b, precision, width, f)
                 ELSE Printf!_ntoa_format(digits, FALSE, b, precision, width, bare)
  BY DEF Printf!_ntoa
<1>2. sgn \in Seq(Glyph) /\ Len(sgn) \in Nat
  BY SignIsText, LenProperties
<1> HIDE DEF sgn, output, digits
<1>3. room \in Int
  BY <1>2
<1>4. zeros \in Nat
  <2>1. \A n \in Int : AllDigits(0, b, precision, n, flags) \in Int
    BY AllDigitsIsInt
  <2> HIDE DEF room
  <2> QED
    BY <1>3, <2>1, PaddingIsNat
<1>5. text = sgn \o r /\ Len(text) = Len(sgn) + zeros /\ sgn \o r \in Seq(Glyph)
  <2>1. zeros = Printf!Padding(0, AllDigits(0, b, precision, width - Len(SignText(FALSE, flags)), flags))
    BY DEF sgn
  <2>2. b \in Nat /\ b >= 2
    OBVIOUS
  <2> HIDE DEF zeros, text, r
  <2>3. IsZeroText(NtoaText(0, FALSE, b, precision, width, flags), SignText(FALSE, flags), zeros)
    BY <1>4, <2>1, <2>2, ZeroText
  <2> QED
    BY <2>3 DEF IsZeroText, text, sgn, r
<1> HIDE DEF text
<1>6. r \in Seq(Glyph)
  <2> HIDE DEF zeros
  <2> QED
    BY <1>4, Glyphs, RepeatText
<1>7. Printf!Reverse(<< >>) = << >>
  <2>1. Printf!Reverse(Printf!Repeat("0", 0)) = Printf!Repeat("0", 0)
    BY Glyphs, ReverseRepeat
  <2> QED
    BY <2>1, Glyphs, RepeatFew
<1>8. r \o << >> = r
  <2> HIDE DEF r
  <2> QED
    BY <1>6, ConcatEmptySeq
<1>9. /\ SignText(FALSE, bare) = sgn
      /\ Zeropad(bare) <=> Zeropad(flags)
      /\ \A t, n : Justified(t, n, bare) = Justified(t, n, flags)
      /\ "#" \notin bare
      /\ "p" \notin bare
  BY WithoutHash, Zenon DEF sgn
<1> HIDE DEF bare
<1>10. /\ SignText(FALSE, f) = sgn
       /\ Zeropad(f) <=> Zeropad(flags)
       /\ \A t, n : Justified(t, n, f) = Justified(t, n, flags)
       /\ "#" \in f => b = 8 /\ "#" \in flags
       /\ "p" \notin f
  <2>1. CASE b = 16
    <3>1. f = bare
      BY <2>1
    <3> HIDE DEF f
    <3> QED
      BY <1>9, <3>1, Zenon
  <2>2. CASE b # 16
    <3>1. f = flags
      BY <2>2
    <3>2. "#" \in flags => b = 8
      BY <2>2
    <3> HIDE DEF f
    <3> QED
      BY <3>1, <3>2, Zenon DEF sgn
  <2> QED
    BY <2>1, <2>2
<1> HIDE DEF zeros, r
<1>11. CASE "." \in flags /\ ~(b = 8 /\ "#" \in flags /\ precision = 0)
  <2>1. ~Zeropad(flags)
    BY <1>11, ZeropadFlags
  <2>2. zeros = precision /\ Printf!Padding(0, precision) = precision
    <3>1. b = 8 /\ "#" \in flags => precision > 0
      BY <1>11
    <3> HIDE DEF room
    <3> QED
      BY <1>3, <1>11, <2>1, <3>1, ZerosOfNothing DEF zeros
  <2>3. "#" \in f => b = 8 /\ zeros > 0
    BY <1>10, <1>11, <2>2
  <2>4. << >> \in Seq(Glyph) /\ Len(<< >>) = 0
    OBVIOUS
  <2>5. (Len(sgn) + Len(<< >>)) + zeros <= PRINTF_NTOA_BUFFER_SIZE
    <3>1. Len(text) <= PRINTF_NTOA_BUFFER_SIZE
      BY DEF text
    <3> QED
      BY <1>2, <1>4, <1>5, <2>4, <3>1
  <2>6. ~Zeropad(f)
    BY <1>10, <2>1
  <2> DEFINE wanted == IF Zeropad(f) THEN width - Len(sgn) ELSE precision
  <2>7. /\ wanted = IF Zeropad(f) THEN width - Len(sgn) ELSE precision
        /\ zeros = Printf!Padding(Len(<< >>), wanted)
    BY <2>2, <2>4, <2>6
  <2>8. sgn = SignText(FALSE, f) /\ "p" \notin f
    BY <1>10
  <2> HIDE DEF f, wanted
  <2>10. PlainOf(Printf!_ntoa_format(<< >>, FALSE, b, precision, width, f), << >>, zeros, sgn, width, f)
    BY <1>4, <2>3, <2>4, <2>5, <2>6, <2>7, <2>8, FormatPlainOf
  <2>9. output = Printf!_ntoa_format(<< >>, FALSE, b, precision, width, f)
    BY <1>1, <1>11
  <2> QED
    BY <1>5, <1>7, <1>8, <1>10, <2>10, <2>9, Zenon DEF PlainOf, r, output, text
<1>12. CASE "." \in flags /\ b = 8 /\ "#" \in flags /\ precision = 0
  <2>1. ~Zeropad(flags)
    BY <1>12, ZeropadFlags
  <2>2. Printf!Padding(0, 0) = 0
    BY DEF Printf!Padding
  <2>3. sgn = << >> /\ Len(sgn) = 0
    <3>1. ~Signed(flags)
      BY <1>12
    <3>2. sgn = << >>
      BY <3>1, UnsignedText, Zenon DEF sgn
    <3> QED
      BY <3>2
  <2>4. zeros = 1
    <3>1. Printf!Padding(0, IF Zeropad(flags) THEN room ELSE precision) = 0
      BY <1>12, <2>1, <2>2
    <3> HIDE DEF room
    <3> QED
      BY <1>3, <1>12, <2>1, <3>1, ZerosOctal DEF zeros
  <2>5. << >> \in Seq(Glyph) /\ Len(<< >>) = 0
    OBVIOUS
  <2>6. Len(<< >>) + 1 <= PRINTF_NTOA_BUFFER_SIZE
    BY <2>5
  <2> DEFINE wanted == IF Zeropad(flags) THEN width ELSE precision
  <2>7. wanted = (IF Zeropad(flags) THEN width ELSE precision) /\ 0 = Printf!Padding(Len(<< >>), wanted)
    BY <1>12, <2>1, <2>2, <2>5
  <2> HIDE DEF wanted
  <2>8. ~Signed(flags)
    BY <1>12
  <2>9. OctalOf(Printf!_ntoa_format(<< >>, FALSE, 8, precision, width, flags), << >>, width, flags)
    <3>1. "#" \in flags /\ (Zeropad(flags) => precision = 0)
      BY <1>12
    <3> QED
      BY <2>5, <2>6, <2>7, <2>8, <3>1, FormatOctal
  <2>10. output = Printf!_ntoa_format(<< >>, FALSE, 8, precision, width, flags)
    BY <1>1, <1>12
  <2>11. r = <<"0">>
    BY <2>4, Glyphs, RepeatFew DEF r
  <2>12. text = <<"0">> /\ <<"0">> \o << >> = <<"0">>
    <3>1. << >> \o r = r
      BY <1>6, ConcatEmptySeq
    <3> QED
      BY <1>5, <1>8, <2>3, <2>11, <3>1
  <2> QED
    BY <1>7, <2>9, <2>10, <2>12 DEF OctalOf, output, text
<1>13. CASE "." \notin flags
  <2>1. digits = <<"0">>
    <3> DEFINE names == IF "X" \in flags THEN Printf!UpperNames ELSE Printf!DigitNames
    <3>1. names[1] = "0"
      BY Glyphs
    <3>2. b \in Nat \ {0}
      OBVIOUS
    <3>3. digits = Printf!Digits(0, b, names)
      BY DEF digits
    <3> HIDE DEF names
    <3> QED
      BY <3>1, <3>2, <3>3, DigitOfZero
  <2> DEFINE less == Printf!Padding(1, IF Zeropad(flags) THEN room ELSE precision)
  <2>2. zeros = less + 1
    <3> HIDE DEF room
    <3> QED
      BY <1>3, <1>13, ZerosOfZero DEF zeros
  <2>3. less \in Nat
    <3> DEFINE wanted == IF Zeropad(flags) THEN room ELSE precision
    <3>1. wanted \in Int
      BY <1>3
    <3>2. less = Printf!Padding(1, wanted)
      OBVIOUS
    <3> HIDE DEF room, wanted, less
    <3> QED
      BY <3>1, <3>2, PaddingIsNat
  <2>4. digits \in Seq(Glyph) /\ Len(digits) = 1 /\ Printf!Reverse(digits) = <<"0">>
    <3>1. digits = Printf!Repeat("0", 1) /\ "0" \in Glyph
      BY <2>1, Glyphs, RepeatFew
    <3> QED
      BY <2>1, <3>1, RepeatText, ReverseRepeat
  <2>5. "#" \in bare => b = 8 /\ less > 0
    BY <1>9
  <2> DEFINE wanted == IF Zeropad(bare) THEN width - Len(sgn) ELSE precision
  <2>6. /\ wanted = IF Zeropad(bare) THEN width - Len(sgn) ELSE precision
        /\ less = Printf!Padding(Len(digits), wanted)
    BY <1>9, <2>4
  <2> HIDE DEF less, wanted
  <2>7. (Len(sgn) + Len(digits)) + less <= PRINTF_NTOA_BUFFER_SIZE
    <3>1. Len(text) <= PRINTF_NTOA_BUFFER_SIZE
      BY DEF text
    <3> QED
      BY <1>2, <1>5, <2>2, <2>3, <2>4, <3>1
  <2>8. PlainOf(Printf!_ntoa_format(digits, FALSE, b, precision, width, bare), digits, less, sgn, width, bare)
    <3>1. sgn = SignText(FALSE, bare) /\ "p" \notin bare /\ (Zeropad(bare) => precision = 0)
      BY <1>9, <1>13
    <3>2. digits \in Seq(Glyph)
      BY <2>4
    <3> QED
      BY <2>3, <2>5, <2>6, <2>7, <3>1, <3>2, FormatPlainOf
  <2>9. Printf!Repeat("0", less) \o <<"0">> = r
    BY <2>2, <2>3, Glyphs, RepeatMore DEF r
  <2>10. output = Printf!_ntoa_format(digits, FALSE, b, precision, width, bare)
    BY <1>1, <1>13
  <2> QED
    BY <1>5, <1>9, <2>4, <2>8, <2>9, <2>10, Zenon DEF PlainOf, output, text
<1> QED
  BY <1>11, <1>12, <1>13

(* A number as the standard has it is a text, of all of its digits at least. *)
LEMMA NtoaTextIsText ==
  ASSUME NEW v \in Nat, NEW negative \in BOOLEAN, NEW b \in {2, 8, 10, 16},
         NEW precision \in Nat, NEW width \in Nat, NEW flags
  PROVE  /\ NtoaText(v, negative, b, precision, width, flags) \in Seq(Glyph)
         /\ Len(Printf!Numeral(v, b)) <= Len(NtoaText(v, negative, b, precision, width, flags))
<1> DEFINE sgn == SignText(negative, flags)
           x == IF "X" \in flags THEN "X" ELSE "x"
           prefix == IF b = 16 /\ "#" \in flags /\ v # 0 THEN <<"0", x>> ELSE << >>
           names == IF "X" \in flags THEN Printf!UpperNames ELSE Printf!DigitNames
           digits == NumeralDigits(v, b, names)
           all == AllDigits(Len(digits), b, precision, width - Len(sgn \o prefix), flags)
           n == Printf!Padding(Len(digits), all)
           text == NtoaText(v, negative, b, precision, width, flags)
<1>1. sgn \in Seq(Glyph)
  BY SignIsText
<1>2. prefix \in Seq(Glyph)
  <2>1. "0" \in Glyph /\ x \in Glyph
    BY Glyphs
  <2> HIDE DEF x
  <2> QED
    BY <2>1
<1>3. digits \in Seq(Glyph) /\ Len(digits) = Len(Printf!Numeral(v, b)) /\ Len(digits) \in Nat
  <2>1. names \in Seq(Glyph) /\ Len(names) = 16
    BY Glyphs
  <2>2. b \in Nat /\ b >= 2 /\ b <= 16
    OBVIOUS
  <2> HIDE DEF names
  <2> QED
    BY <2>1, <2>2, NumeralDigitsText
<1>4. text = sgn \o prefix \o Printf!Repeat("0", n) \o digits
  BY Zenon DEF NtoaText, AllDigits, LeastDigits, NumeralDigits
<1> HIDE DEF text, sgn, prefix, digits
<1>5. n \in Nat
  <2>1. Len(sgn \o prefix) \in Int
    BY <1>1, <1>2, ConcatProperties, LenProperties
  <2>2. all \in Int
    BY <1>3, <2>1, AllDigitsIsInt
  <2>3. Len(digits) \in Int
    BY <1>3
  <2> DEFINE m == Len(digits)
  <2> HIDE DEF all, m
  <2>4. Printf!Padding(m, all) \in Nat
    BY <2>2, <2>3, PaddingIsNat DEF m
  <2> QED
    BY <2>4 DEF m
<1> HIDE DEF n
<1>6. text \in Seq(Glyph) /\ Len(text) = ((Len(sgn) + Len(prefix)) + n) + Len(digits)
  <2>1. \A k \in Nat : /\ sgn \o prefix \o Printf!Repeat("0", k) \o digits \in Seq(Glyph)
                       /\ IsAssembled(sgn \o prefix \o Printf!Repeat("0", k) \o digits,
                                      sgn, prefix, k, digits)
    BY <1>1, <1>2, <1>3, Assembled, AssembledParts
  <2> QED
    BY <1>4, <1>5, <2>1 DEF IsAssembled
<1>7. Len(sgn) \in Nat /\ Len(prefix) \in Nat
  BY <1>1, <1>2, LenProperties
<1> QED
  BY <1>3, <1>5, <1>6, <1>7 DEF text

(* _ntoa prints a number as the standard has it, if there is room for it.  *)
LEMMA NtoaRight ==
  ASSUME NEW v \in Nat, NEW negative \in BOOLEAN, NEW b \in {2, 8, 10, 16},
         NEW precision \in Nat, NEW width \in Nat, NEW flags,
         PRINTF_NTOA_BUFFER_SIZE \in Nat \ {0}, "p" \notin flags, v = 0 => ~negative,
         "." \in flags => ~("0" \in flags), "." \notin flags => precision = 0,
         "#" \in flags => b \in {8, 16} /\ ~negative /\ ~Signed(flags),
         Len(NtoaText(v, negative, b, precision, width, flags)) <= PRINTF_NTOA_BUFFER_SIZE
  PROVE  NtoaPrints(v, negative, b, precision, width, flags)
<1>1. CASE v = 0
  <2>1. negative = FALSE
    BY <1>1
  <2>2. "#" \in flags => b \in {8, 16} /\ ~Signed(flags)
    OBVIOUS
  <2>3. Len(NtoaText(0, FALSE, b, precision, width, flags)) <= PRINTF_NTOA_BUFFER_SIZE
    BY <1>1, <2>1
  <2>4. NtoaPrints(0, FALSE, b, precision, width, flags)
    BY <2>2, <2>3, NtoaOfZero
  <2> QED
    BY <1>1, <2>1, <2>4
<1>2. CASE v # 0
  <2> DEFINE names == IF "X" \in flags THEN Printf!UpperNames ELSE Printf!DigitNames
             digits == Printf!Digits(v, b, names)
             L == Len(Printf!Numeral(v, b))
  <2>1. L <= PRINTF_NTOA_BUFFER_SIZE
    <3>1. L <= Len(NtoaText(v, negative, b, precision, width, flags))
      BY NtoaTextIsText
    <3>2. Len(NtoaText(v, negative, b, precision, width, flags)) \in Nat
      BY NtoaTextIsText, LenProperties
    <3>3. L \in Nat
      BY NumeralRecursion, LenProperties
    <3> QED
      BY <3>1, <3>2, <3>3
  <2>2. b \in Nat /\ b >= 2 /\ b <= 16 /\ v \in Nat \ {0} /\ PRINTF_NTOA_BUFFER_SIZE \in Nat
    BY <1>2
  <2>3. names \in Seq(Glyph) /\ Len(names) = 16
    BY Glyphs
  <2>4. L \in Nat \ {0}
    BY <2>1, <2>2, IterationsAreDigits
  <2>5. /\ digits \in Seq(Glyph) /\ Len(digits) = L
        /\ Printf!Reverse(digits) = NumeralDigits(v, b, names)
    <3> HIDE DEF names
    <3> QED
      BY <2>1, <2>2, <2>3, DigitsAre
  <2>6. names = (IF "X" \in flags THEN Printf!UpperNames ELSE Printf!DigitNames)
    OBVIOUS
  <2> HIDE DEF names
  <2>7. digits = Printf!Digits(v, b, names)
    OBVIOUS
  <2> HIDE DEF digits
  <2>8. Len(digits) \in Nat \ {0} /\ Len(digits) = Len(Printf!Numeral(v, b)) /\ digits \in Seq(Glyph)
    BY <2>4, <2>5
  <2> HIDE DEF L
  <2> QED
    BY <2>2, <2>5, <2>6, <2>7, <2>8, NtoaOfNumber
<1> QED
  BY <1>1, <1>2

(* The flags that _ntoa gets, of those given. *)
NumberFlags(given, b, conv) ==
  (given \ ((IF b = 10 THEN {"#"} ELSE {})
              \cup (IF conv \notin Printf!SignedNumber THEN {"+", " "} ELSE {})
              \cup (IF "." \in given THEN {"0"} ELSE {})))
    \cup ({conv} \cap {"X"})

(* The flags that reach _ntoa, one by one. *)
LEMMA NumberFlagsAre ==
  ASSUME NEW given, NEW b, NEW conv, "X" \notin given, "p" \notin given
  PROVE  /\ "-" \in NumberFlags(given, b, conv) <=> "-" \in given
         /\ "." \in NumberFlags(given, b, conv) <=> "." \in given
         /\ "0" \in NumberFlags(given, b, conv) <=> "0" \in given /\ "." \notin given
         /\ "#" \in NumberFlags(given, b, conv) <=> "#" \in given /\ b # 10
         /\ "+" \in NumberFlags(given, b, conv) <=> "+" \in given /\ conv \in Printf!SignedNumber
         /\ " " \in NumberFlags(given, b, conv) <=> " " \in given /\ conv \in Printf!SignedNumber
         /\ "X" \in NumberFlags(given, b, conv) <=> conv = "X"
         /\ "p" \notin NumberFlags(given, b, conv)
<1> DEFINE void == (IF b = 10 THEN {"#"} ELSE {})
                     \cup (IF conv \notin Printf!SignedNumber THEN {"+", " "} ELSE {})
                     \cup (IF "." \in given THEN {"0"} ELSE {})
           flags == NumberFlags(given, b, conv)
<1>1. \A c : c \in flags <=> (c \in given /\ c \notin void) \/ (c = conv /\ c = "X")
  BY Zenon DEF NumberFlags
<1>2. \A c : c \in void <=> \/ b = 10 /\ c = "#"
                            \/ conv \notin Printf!SignedNumber /\ (c = "+" \/ c = " ")
                            \/ "." \in given /\ c = "0"
  <2>1. \A c : c \in (IF b = 10 THEN {"#"} ELSE {}) <=> b = 10 /\ c = "#"
    BY Zenon
  <2>2. \A c : c \in (IF conv \notin Printf!SignedNumber THEN {"+", " "} ELSE {})
                 <=> conv \notin Printf!SignedNumber /\ (c = "+" \/ c = " ")
    BY Zenon
  <2>3. \A c : c \in (IF "." \in given THEN {"0"} ELSE {}) <=> "." \in given /\ c = "0"
    BY Zenon
  <2> QED
    BY <2>1, <2>2, <2>3, Zenon
<1> HIDE DEF void, flags
<1>3. "-" \in flags <=> "-" \in given
  <2>1. "-" # "#" /\ "-" # "+" /\ "-" # " " /\ "-" # "0" /\ "-" # "X"
    BY Zenon
  <2>2. "-" \in flags => "-" \in given
    BY <1>1, <1>2, <2>1, Zenon
  <2>3. "-" \in given => "-" \in flags
    BY <1>1, <1>2, <2>1, Zenon
  <2> QED
    BY <2>2, <2>3, Zenon
<1>4. "." \in flags <=> "." \in given
  <2>1. "." # "#" /\ "." # "+" /\ "." # " " /\ "." # "0" /\ "." # "X"
    BY Zenon
  <2>2. "." \in flags => "." \in given
    BY <1>1, <1>2, <2>1, Zenon
  <2>3. "." \in given => "." \in flags
    BY <1>1, <1>2, <2>1, Zenon
  <2> QED
    BY <2>2, <2>3, Zenon
<1>5. "0" \in flags <=> "0" \in given /\ "." \notin given
  <2>1. "0" # "#" /\ "0" # "+" /\ "0" # " " /\ "0" # "X"
    BY Zenon
  <2>2. "0" \in flags => "0" \in given /\ "." \notin given
    BY <1>1, <1>2, <2>1, Zenon
  <2>3. "0" \in given /\ "." \notin given => "0" \in flags
    BY <1>1, <1>2, <2>1, Zenon
  <2> QED
    BY <2>2, <2>3, Zenon
<1>6. "#" \in flags <=> "#" \in given /\ b # 10
  <2>1. "#" # "+" /\ "#" # " " /\ "#" # "0" /\ "#" # "X"
    BY Zenon
  <2>2. "#" \in flags => "#" \in given /\ b # 10
    BY <1>1, <1>2, <2>1, Zenon
  <2>3. "#" \in given /\ b # 10 => "#" \in flags
    BY <1>1, <1>2, <2>1, Zenon
  <2> QED
    BY <2>2, <2>3, Zenon
<1>7. "+" \in flags <=> "+" \in given /\ conv \in Printf!SignedNumber
  <2>1. "+" # "#" /\ "+" # " " /\ "+" # "0" /\ "+" # "X"
    BY Zenon
  <2>2. "+" \in flags => "+" \in given /\ conv \in Printf!SignedNumber
    BY <1>1, <1>2, <2>1, Zenon
  <2>3. "+" \in given /\ conv \in Printf!SignedNumber => "+" \in flags
    BY <1>1, <1>2, <2>1, Zenon
  <2> QED
    BY <2>2, <2>3, Zenon
<1>8. " " \in flags <=> " " \in given /\ conv \in Printf!SignedNumber
  <2>1. " " # "#" /\ " " # "+" /\ " " # "0" /\ " " # "X"
    BY Zenon
  <2>2. " " \in flags => " " \in given /\ conv \in Printf!SignedNumber
    BY <1>1, <1>2, <2>1, Zenon
  <2>3. " " \in given /\ conv \in Printf!SignedNumber => " " \in flags
    BY <1>1, <1>2, <2>1, Zenon
  <2> QED
    BY <2>2, <2>3, Zenon
<1>9. "X" \in flags <=> conv = "X"
  BY <1>1, <1>2, Zenon
<1>10. "p" \notin flags
  BY <1>1, <1>2, Zenon
<1> QED
  BY <1>3, <1>4, <1>5, <1>6, <1>7, <1>8, <1>9, <1>10, Zenon DEF flags

(* What a directive says of its conversion. *)
LEMMA DirectiveParts ==
  ASSUME NEW dir \in Printf!Directives, NEW words \in Seq(Printf!Word),
         Len(words) = Printf!Arguments(dir), Printf!Typed(dir, words), Printf!Fits(dir, words)
  PROVE  /\ Printf!Words(dir) \in {0, 1, 2}
         /\ Printf!Width(dir, words) \in Nat
         /\ Printf!Precision(dir, words) \in Nat
         /\ Printf!Precise(dir, words) <=> dir.precision # Printf!None
         /\ ~Printf!Precise(dir, words) => Printf!Precision(dir, words) = 0
         /\ dir.flags \subseteq Printf!Flag
<1>1. /\ dir.width \in Nat \cup {Printf!None, Printf!Star}
      /\ dir.precision \in Nat \cup {Printf!None, Printf!Star}
      /\ dir.flags \subseteq Printf!Flag
  BY DEF Printf!Directives
<1>2. Printf!Words(dir) \in {0, 1, 2}
  BY DEF Printf!Words
<1>3. Len(words) \in Nat /\ Printf!Words(dir) <= Len(words)
  BY <1>2, LenProperties DEF Printf!Arguments
<1>4. ASSUME NEW k \in 1 .. Printf!Words(dir)
      PROVE  words[k][2] \in Int
  <2>1. k \in 1 .. Len(words)
    BY <1>2, <1>3
  <2>2. words[k] \in Printf!Word
    BY <2>1, ElementOfSeq
  <2>3. words[k][1] = "num"
    BY DEF Printf!Typed
  <2> QED
    BY <2>2, <2>3 DEF Printf!Word
<1>5. Printf!Width(dir, words) \in Nat
  <2>1. CASE dir.width = Printf!Star
    <3>1. words[1][2] \in Int
      BY <1>4, <2>1 DEF Printf!Words
    <3> QED
      BY <2>1, <3>1 DEF Printf!Width, Printf!StarWidth, Printf!Star, Printf!None
  <2>2. CASE dir.width # Printf!Star
    BY <1>1, <2>2 DEF Printf!Width, Printf!None
  <2> QED
    BY <2>1, <2>2
<1>6. Printf!Precision(dir, words) \in Nat
  <2>1. CASE dir.precision = Printf!Star
    <3>1. words[Printf!Words(dir)][2] \in Int
      <4>1. Printf!Words(dir) \in 1 .. Printf!Words(dir)
        BY <2>1 DEF Printf!Words
      <4> QED
        BY <1>4, <4>1
    <3> QED
      BY <2>1, <3>1 DEF Printf!Precision, Printf!Star, Printf!None
  <2>2. CASE dir.precision # Printf!Star
    BY <1>1, <2>2 DEF Printf!Precision, Printf!None
  <2> QED
    BY <2>1, <2>2
<1>7. Printf!Precise(dir, words) <=> dir.precision # Printf!None
  BY DEF Printf!Fits, Printf!Precise
<1>8. ~Printf!Precise(dir, words) => Printf!Precision(dir, words) = 0
  <2>1. ~Printf!Precise(dir, words) => dir.precision = Printf!None
    BY <1>7
  <2> QED
    BY <2>1 DEF Printf!Precision, Printf!None, Printf!Star
<1> QED
  BY <1>1, <1>2, <1>5, <1>6, <1>7, <1>8

(* The flags of a directive. *)
LEMMA FlagsAre ==
  ASSUME NEW dir, NEW words, dir.flags \subseteq Printf!Flag
  PROVE  /\ "." \in Printf!Flags(dir, words) <=> dir.precision # Printf!None
         /\ "0" \in Printf!Flags(dir, words) <=> "0" \in dir.flags
         /\ "#" \in Printf!Flags(dir, words) <=> "#" \in dir.flags
         /\ "X" \notin Printf!Flags(dir, words)
         /\ "p" \notin Printf!Flags(dir, words)
<1> DEFINE star == IF Printf!StarWidth(dir, words) THEN {"-"} ELSE {}
           dot == IF dir.precision # Printf!None THEN {"."} ELSE {}
<1>1. Printf!Flags(dir, words) = dir.flags \cup star \cup dot
  BY DEF Printf!Flags
<1>2. \A c : c \in star => c = "-"
  BY Zenon
<1>3. \A c : c \in dot <=> dir.precision # Printf!None /\ c = "."
  BY Zenon
<1> HIDE DEF star, dot
<1>4. "." \notin dir.flags /\ "X" \notin dir.flags /\ "p" \notin dir.flags
  <2>1. \A c \in dir.flags : c = "0" \/ c = "-" \/ c = "+" \/ c = " " \/ c = "#"
    BY Zenon DEF Printf!Flag
  <2> QED
    BY <2>1, Zenon
<1>5. \A c : c \in Printf!Flags(dir, words) <=> c \in dir.flags \/ c \in star \/ c \in dot
  BY <1>1, Zenon
<1>6. "." \in Printf!Flags(dir, words) <=> dir.precision # Printf!None
  <2>1. "." # "-"
    BY Zenon
  <2>2. "." \in Printf!Flags(dir, words) <=> "." \in dot
    BY <1>2, <1>4, <1>5, <2>1, Zenon
  <2> QED
    BY <1>3, <2>2, Zenon
<1>7. "0" \in Printf!Flags(dir, words) <=> "0" \in dir.flags
  <2>1. "0" # "-" /\ "0" # "."
    BY Zenon
  <2>2. "0" \notin star /\ "0" \notin dot
    BY <1>2, <1>3, <2>1, Zenon
  <2> QED
    BY <1>5, <2>2, Zenon
<1>8. "#" \in Printf!Flags(dir, words) <=> "#" \in dir.flags
  <2>1. "#" # "-" /\ "#" # "."
    BY Zenon
  <2>2. "#" \notin star /\ "#" \notin dot
    BY <1>2, <1>3, <2>1, Zenon
  <2> QED
    BY <1>5, <2>2, Zenon
<1>9. "X" \notin Printf!Flags(dir, words) /\ "p" \notin Printf!Flags(dir, words)
  <2>1. "X" # "-" /\ "X" # "." /\ "p" # "-" /\ "p" # "."
    BY Zenon
  <2>2. "X" \notin star /\ "X" \notin dot /\ "p" \notin star /\ "p" \notin dot
    BY <1>2, <1>3, <2>1, Zenon
  <2> QED
    BY <1>4, <1>5, <2>2, Zenon
<1> QED
  BY <1>6, <1>7, <1>8, <1>9, Zenon

(* The value of a number, and its base. *)
LEMMA NumberParts ==
  ASSUME NEW dir \in Printf!Directives, NEW word \in Int, dir.conv \in Printf!Number,
         {CharValues, ShortValues, IntValues} \subseteq Nat \ {0},
         NEW value, value = IF dir.conv \in Printf!SignedNumber
                              THEN Printf!Signed(word, Printf!Values(dir.length))
                              ELSE Printf!Unsigned(word, Printf!Values(dir.length))
  PROVE  /\ value \in Int
         /\ dir.conv \notin Printf!SignedNumber => value >= 0
         /\ Printf!Base[dir.conv] \in {2, 8, 10, 16}
         /\ dir.conv \in Printf!SignedNumber => Printf!Base[dir.conv] = 10
         /\ Printf!Base[dir.conv] = 8 <=> dir.conv = "o"
         /\ Printf!Base[dir.conv] = 2 <=> dir.conv = "b"
         /\ Printf!Base[dir.conv] = 16 <=> dir.conv \in {"x", "X"}
<1> DEFINE values == Printf!Values(dir.length)
<1>1. values \in Nat \ {0}
  BY DEF Printf!Values
<1>2. \A n \in Nat \ {0} : word % n \in Nat
  OBVIOUS
<1>3. Printf!Unsigned(word, values) \in Nat
  <2> HIDE DEF values
  <2> QED
    BY <1>1, <1>2 DEF Printf!Unsigned
<1>4. Printf!Signed(word, values) \in Int
  <2> HIDE DEF values
  <2> QED
    BY <1>1, <1>3 DEF Printf!Signed
<1>5. dir.conv \in {"d", "i", "u", "x", "X", "o", "b"}
  BY DEF Printf!Number, Printf!Base
<1>6. /\ Printf!Base[dir.conv] \in {2, 8, 10, 16}
      /\ dir.conv \in Printf!SignedNumber => Printf!Base[dir.conv] = 10
      /\ Printf!Base[dir.conv] = 8 <=> dir.conv = "o"
      /\ Printf!Base[dir.conv] = 2 <=> dir.conv = "b"
      /\ Printf!Base[dir.conv] = 16 <=> dir.conv \in {"x", "X"}
  BY <1>5 DEF Printf!Base, Printf!SignedNumber
<1> HIDE DEF values
<1>7. value \in Int /\ (dir.conv \notin Printf!SignedNumber => value >= 0)
  BY <1>3, <1>4 DEF values
<1> QED
  BY <1>6, <1>7

(* The sign of a number, as the standard has it. *)
StandardSign(value, signed, given) ==
  CASE value < 0                 -> <<"-">>
    [] value >= 0 /\ signed /\ "+" \in given -> <<"+">>
    [] value >= 0 /\ signed /\ {"+", " "} \cap given = {" "} -> <<" ">>
    [] OTHER                     -> << >>

(* A number is negative, or it is not. *)
LEMMA NotNegative == \A n \in Int : n >= 0 <=> ~(n < 0)
OBVIOUS

(* The flags are those given that say of the sign, if there may be one.    *)
SignFlags(flags, given, signed) ==
  /\ "+" \in flags <=> "+" \in given /\ signed
  /\ " " \in flags <=> " " \in given /\ signed

(* The sign that the standard asks for is the one that the code puts. *)
LEMMA SignRight ==
  ASSUME NEW value \in Int, NEW negative \in BOOLEAN, negative <=> value < 0,
         NEW signed \in BOOLEAN, NEW given, NEW flags, SignFlags(flags, given, signed)
  PROVE  StandardSign(value, signed, given) = SignText(negative, flags)
<1> DEFINE plus == "+" \in given
           blank == {"+", " "} \cap given = {" "}
           sign == CASE negative -> <<"-">>
                     [] value >= 0 /\ signed /\ plus -> <<"+">>
                     [] value >= 0 /\ signed /\ blank -> <<" ">>
                     [] OTHER -> << >>
<1>1. value >= 0 <=> ~negative
  BY NotNegative, Zenon
<1>2. blank => ~plus
  <2>1. "+" # " "
    BY Zenon
  <2> QED
    BY <2>1, Zenon
<1>3. ~plus => (blank <=> " " \in given)
  BY Zenon
<1> HIDE DEF plus, blank
<1>4. sign = IF negative THEN <<"-">> ELSE IF signed /\ plus THEN <<"+">>
             ELSE IF signed /\ blank THEN <<" ">> ELSE << >>
  BY <1>1, <1>2
<1> HIDE DEF sign
<1>5. sign = SignText(negative, flags)
  BY <1>2, <1>3, <1>4, Zenon DEF SignFlags, SignText, plus
<1> QED
  BY <1>5, Zenon DEF StandardSign, sign, plus, blank

(* A number is printed as the standard has it. *)
LEMMA NumberRight ==
  ASSUME Printf!SnprintfAssumption,
         NEW dir \in Printf!Directives, NEW words \in Seq(Printf!Word),
         Len(words) = Printf!Arguments(dir), Printf!Typed(dir, words), Printf!Fits(dir, words),
         Printf!Argument(dir), dir.conv \in Printf!Number
  PROVE  /\ Printf!NumberText(dir, words) \in Seq(Glyph)
         /\ Printf!Integer(dir, words) = Printf!Padded(Printf!NumberText(dir, words), dir, words)
<1> DEFINE word == words[Printf!Words(dir) + 1][2]
           signed == dir.conv \in Printf!SignedNumber
           value == IF signed THEN Printf!Signed(word, Printf!Values(dir.length))
                              ELSE Printf!Unsigned(word, Printf!Values(dir.length))
           v == IF value < 0 THEN -value ELSE value
           negative == value < 0
           b == Printf!Base[dir.conv]
           P == Printf!Precision(dir, words)
           W == Printf!Width(dir, words)
           given == Printf!Flags(dir, words)
           flags == NumberFlags(given, b, dir.conv)
           precise == Printf!Precise(dir, words)
           numeral == Printf!Numeral(v, b)
<1>1. word \in Int
  <2>1. Printf!Words(dir) \in Nat /\ Printf!Words(dir) + 1 = Len(words)
    BY DirectiveParts DEF Printf!Arguments
  <2>2. Printf!Words(dir) + 1 \in 1 .. Len(words)
    BY <2>1
  <2>3. words[Printf!Words(dir) + 1] \in Printf!Word
    BY <2>2, ElementOfSeq
  <2>4. words[Printf!Words(dir) + 1][1] = "num"
    BY DEF Printf!Typed
  <2> QED
    BY <2>3, <2>4 DEF Printf!Word
<1>2. /\ P \in Nat /\ W \in Nat /\ (~precise => P = 0)
      /\ precise <=> dir.precision # Printf!None
      /\ dir.flags \subseteq Printf!Flag
  BY DirectiveParts
<1>3. /\ "." \in given <=> precise
      /\ "#" \in given <=> "#" \in dir.flags
      /\ "X" \notin given /\ "p" \notin given
  BY <1>2, FlagsAre, Zenon
<1>4. /\ value \in Int
      /\ ~signed => value >= 0
      /\ b \in {2, 8, 10, 16}
      /\ signed => b = 10
      /\ b = 8 <=> dir.conv = "o"
      /\ b = 2 <=> dir.conv = "b"
      /\ b = 16 <=> dir.conv \in {"x", "X"}
  <2>1. {CharValues, ShortValues, IntValues} \subseteq Nat \ {0}
    BY DEF Printf!SnprintfAssumption
  <2>2. value = IF dir.conv \in Printf!SignedNumber
                  THEN Printf!Signed(word, Printf!Values(dir.length))
                  ELSE Printf!Unsigned(word, Printf!Values(dir.length))
    OBVIOUS
  <2> HIDE DEF value, word
  <2> QED
    BY <1>1, <2>1, <2>2, NumberParts
<1>5. /\ "-" \in flags <=> "-" \in given
      /\ "." \in flags <=> precise
      /\ "0" \in flags <=> "0" \in given /\ ~precise
      /\ "#" \in flags <=> "#" \in given /\ b # 10
      /\ "+" \in flags <=> "+" \in given /\ signed
      /\ " " \in flags <=> " " \in given /\ signed
      /\ "X" \in flags <=> dir.conv = "X"
      /\ "p" \notin flags
  <2>1. /\ "-" \in flags <=> "-" \in given
        /\ "." \in flags <=> "." \in given
        /\ "0" \in flags <=> "0" \in given /\ "." \notin given
        /\ "#" \in flags <=> "#" \in given /\ b # 10
        /\ "+" \in flags <=> "+" \in given /\ signed
        /\ " " \in flags <=> " " \in given /\ signed
        /\ "X" \in flags <=> dir.conv = "X"
        /\ "p" \notin flags
    <3> HIDE DEF given, b
    <3> QED
      BY <1>3, NumberFlagsAre, Zenon
  <2> HIDE DEF flags, given, b, signed, precise
  <2> QED
    BY <1>3, <2>1, Zenon
<1> DEFINE names == IF dir.conv = "X" THEN Printf!UpperNames ELSE Printf!DigitNames
           digits == [k \in DOMAIN numeral |-> names[numeral[k] + 1]]
           sign == StandardSign(value, signed, given)
           prefix == IF b = 16 /\ "#" \in given /\ value # 0 THEN <<"0", dir.conv>> ELSE << >>
           least == Printf!Larger(IF dir.conv = "o" /\ "#" \in given THEN Len(digits) + 1 ELSE 0,
                                  IF precise THEN P ELSE 1)
           all == IF {"-", "0"} \cap given = {"0"} /\ ~precise
                    THEN Printf!Larger(least, W - Len(sign \o prefix)) ELSE least
           text == Printf!NumberText(dir, words)
           output == Printf!Integer(dir, words)
<1>6. text = sign \o prefix \o Printf!Repeat("0", Printf!Padding(Len(digits), all)) \o digits
  BY Zenon DEF Printf!NumberText, StandardSign
<1>7. output = Printf!_ntoa(v, negative, b, P, W, flags)
  BY Zenon DEF Printf!Integer, NumberFlags
<1> DEFINE names2 == IF "X" \in flags THEN Printf!UpperNames ELSE Printf!DigitNames
           digits2 == [k \in DOMAIN numeral |-> names2[numeral[k] + 1]]
           sign2 == SignText(negative, flags)
           prefix2 == IF b = 16 /\ "#" \in flags /\ v # 0
                        THEN <<"0", IF "X" \in flags THEN "X" ELSE "x">> ELSE << >>
           least2 == Printf!Larger(IF b = 8 /\ "#" \in flags THEN Len(digits2) + 1 ELSE 0,
                                   IF "." \in flags THEN P ELSE 1)
           all2 == IF Zeropad(flags) THEN Printf!Larger(least2, W - Len(sign2 \o prefix2)) ELSE least2
           text2 == NtoaText(v, negative, b, P, W, flags)
<1>8. text2 = sign2 \o prefix2 \o Printf!Repeat("0", Printf!Padding(Len(digits2), all2)) \o digits2
  BY Zenon DEF NtoaText
<1> HIDE DEF word, text, output, text2
<1>9. v \in Nat /\ (v = 0 <=> value = 0) /\ (v = 0 => ~negative)
  <2> HIDE DEF value
  <2> QED
    BY <1>4
<1>10. sign = sign2
  <2>1. signed \in BOOLEAN /\ value \in Int
    BY <1>4
  <2>2. SignFlags(flags, given, signed)
    BY <1>5, Zenon DEF SignFlags
  <2>3. negative \in BOOLEAN /\ (negative <=> value < 0)
    OBVIOUS
  <2> HIDE DEF value, signed, given, flags, negative
  <2> QED
    BY <2>1, <2>2, <2>3, SignRight
<1> HIDE DEF sign, sign2, value, numeral
<1>11. names = names2 /\ digits = digits2
  <2>1. names = names2
    <3> HIDE DEF flags
    <3> QED
      BY <1>5, Zenon
  <2> HIDE DEF names, names2
  <2> QED
    BY <2>1
<1>12. prefix = prefix2
  <2>1. b = 16 => dir.conv = (IF "X" \in flags THEN "X" ELSE "x")
    <3> HIDE DEF flags
    <3> QED
      BY <1>4, <1>5, Zenon
  <2>2. b = 16 /\ "#" \in flags /\ v # 0 <=> b = 16 /\ "#" \in given /\ value # 0
    <3>1. 16 # 10
      OBVIOUS
    <3> HIDE DEF flags, given, b, v
    <3> QED
      BY <1>5, <1>9, <3>1, Zenon
  <2> HIDE DEF flags, given, b, v
  <2> QED
    BY <2>1, <2>2, Zenon
<1> HIDE DEF names, names2, digits, digits2
<1>13. least = least2
  <2>1. b = 8 /\ "#" \in flags <=> dir.conv = "o" /\ "#" \in given
    <3>1. 8 # 10
      OBVIOUS
    <3> HIDE DEF flags, given, b
    <3> QED
      BY <1>4, <1>5, <3>1, Zenon
  <2> HIDE DEF flags, given, b, P, precise
  <2> QED
    BY <1>5, <1>11, <2>1, Zenon
<1>14. Zeropad(flags) <=> {"-", "0"} \cap given = {"0"} /\ ~precise
  <2>1. Zeropad(given) <=> "0" \in given /\ "-" \notin given
    BY ZeropadFlags, Zenon
  <2>2. Zeropad(flags) <=> "0" \in flags /\ "-" \notin flags
    BY ZeropadFlags, Zenon
  <2> HIDE DEF flags, given, precise
  <2>3. Zeropad(flags) <=> Zeropad(given) /\ ~precise
    BY <1>5, <2>1, <2>2, Zenon
  <2> QED
    BY <2>3, Zenon DEF Zeropad
<1> HIDE DEF prefix, prefix2, least, least2, b, v, P, W, flags, given, precise, negative
<1>15. all = all2
  BY <1>10, <1>12, <1>13, <1>14, Zenon
<1> HIDE DEF all, all2
<1>16. text = text2
  BY <1>6, <1>8, <1>10, <1>11, <1>12, <1>15, Zenon
<1>17. text2 \in Seq(Glyph)
  <2>1. negative \in BOOLEAN
    BY DEF negative
  <2> HIDE DEF signed
  <2>2. v \in Nat /\ b \in {2, 8, 10, 16} /\ P \in Nat /\ W \in Nat
    BY <1>2, <1>4, <1>9
  <2> QED
    BY <2>1, <2>2, NtoaTextIsText DEF text2
<1>18. NtoaPrints(v, negative, b, P, W, flags)
  <2>1. negative \in BOOLEAN
    BY DEF negative
  <2>2. PRINTF_NTOA_BUFFER_SIZE \in Nat \ {0}
    BY DEF Printf!SnprintfAssumption
  <2>3. Len(text2) <= PRINTF_NTOA_BUFFER_SIZE
    BY <1>16 DEF Printf!Fits, text
  <2>4. "." \in flags => ~("0" \in flags)
    BY <1>5, Zenon
  <2>5. "." \notin flags => P = 0
    BY <1>2, <1>5, Zenon
  <2>6. "#" \in flags => b \in {8, 16} /\ ~negative /\ ~Signed(flags)
    <3>1. ASSUME "#" \in flags
          PROVE  ~signed /\ b # 10 /\ dir.conv # "b"
      <4>1. "#" \in dir.flags /\ b # 10
        BY <1>3, <1>5, <3>1, Zenon
      <4>2. dir.conv = "b" => "#" \notin dir.flags
        BY Zenon DEF Printf!Fits
      <4> QED
        BY <1>4, <4>1, <4>2, Zenon
    <3>2. ~signed => ~Signed(flags)
      BY <1>5, Zenon DEF Signed
    <3>3. ~signed => ~negative
      BY <1>4 DEF negative
    <3> HIDE DEF signed
    <3>4. "#" \in flags => b \in {8, 16}
      BY <1>4, <3>1
    <3> QED
      BY <3>1, <3>2, <3>3, <3>4, Zenon
  <2>7. Len(NtoaText(v, negative, b, P, W, flags)) <= PRINTF_NTOA_BUFFER_SIZE
    BY <2>3 DEF text2
  <2> HIDE DEF signed
  <2>8. "p" \notin flags /\ v \in Nat /\ (v = 0 => ~negative) /\ b \in {2, 8, 10, 16} /\ P \in Nat /\ W \in Nat
    BY <1>2, <1>4, <1>5, <1>9
  <2> QED
    BY <2>1, <2>2, <2>4, <2>5, <2>6, <2>7, <2>8, NtoaRight
<1>19. output = Justified(text, W, flags)
  BY <1>7, <1>16, <1>18, Zenon DEF NtoaPrints, text2
<1>20. Justified(text, W, flags) = Printf!Padded(text, dir, words)
  BY <1>5, Zenon DEF Justified, Printf!Padded, given, W
<1> QED
  BY <1>16, <1>17, <1>19, <1>20, Zenon DEF text, output

(* A text of characters is one of more of them. *)
LEMMA WiderText ==
  ASSUME NEW S, NEW T, S \subseteq T, NEW e \in Seq(S)
  PROVE  e \in Seq(T)
OBVIOUS

(* A character is a text. *)
LEMMA OneGlyph ==
  ASSUME NEW S, NEW c \in S
  PROVE  <<c>> \in Seq(S)
OBVIOUS

(* A blank is a character. *)
LEMMA BlankIsGlyph == " " \in Glyph
BY Glyphs

(* How much is missing of a width is a number. *)
LEMMA PaddingOfText ==
  ASSUME NEW text \in Seq(Glyph), NEW width \in Nat
  PROVE  Printf!Padding(Len(text), width) \in Nat
<1>1. Len(text) \in Nat
  BY LenProperties
<1> QED
  BY <1>1 DEF Printf!Padding

(* A text with its padding is a text. *)
LEMMA JustifiedIsText ==
  ASSUME NEW text \in Seq(Glyph), NEW width \in Nat, NEW flags
  PROVE  Justified(text, width, flags) \in Seq(Glyph)
<1> DEFINE n == Printf!Padding(Len(text), width)
           spaces == Printf!Repeat(" ", n)
<1>1. n \in Nat
  BY PaddingOfText
<1> HIDE DEF n
<1>2. spaces \in Seq(Glyph)
  BY <1>1, BlankIsGlyph, RepeatText
<1> HIDE DEF spaces
<1>3. text \o spaces \in Seq(Glyph) /\ spaces \o text \in Seq(Glyph)
  BY <1>2, ConcatProperties
<1>4. Justified(text, width, flags) = IF "-" \in flags THEN text \o spaces ELSE spaces \o text
  BY Zenon DEF Justified, spaces, n
<1> QED
  BY <1>3, <1>4

(* The code pads a text on the side that the flags of its directive say. *)
LEMMA PaddedIsJustified ==
  ASSUME NEW text, NEW dir, NEW words
  PROVE  Printf!Padded(text, dir, words)
           = Justified(text, Printf!Width(dir, words), Printf!Flags(dir, words))
BY Zenon DEF Printf!Padded, Justified

(* NULL, as the code has it. *)
LEMMA NullText ==
  /\ <<")", "l", "l", "u", "n", "(">> \in Seq(Glyph)
  /\ <<"(", "n", "u", "l", "l", ")">> \in Seq(Glyph)
  /\ Printf!Reverse(<<")", "l", "l", "u", "n", "(">>) = <<"(", "n", "u", "l", "l", ")">>
<1> DEFINE a == <<")", "l", "l", "u", "n", "(">>
           b == <<"(", "n", "u", "l", "l", ")">>
           r == Printf!Reverse(a)
<1>1. {"(", "n", "u", "l", ")"} \subseteq Glyph
  BY Glyphs
<1>2. a \in Seq(Glyph) /\ Len(a) = 6 /\ b \in Seq(Glyph) /\ Len(b) = 6
  BY <1>1
<1>3. /\ a[1] = ")" /\ a[2] = "l" /\ a[3] = "l" /\ a[4] = "u" /\ a[5] = "n" /\ a[6] = "("
      /\ b[1] = "(" /\ b[2] = "n" /\ b[3] = "u" /\ b[4] = "l" /\ b[5] = "l" /\ b[6] = ")"
  OBVIOUS
<1> HIDE DEF a, b
<1>4. r \in Seq(Glyph) /\ Len(r) = 6 /\ \A k \in 1 .. 6 : r[k] = a[(6 - k) + 1]
  BY <1>2, ReverseText
<1> HIDE DEF r
<1>5. \A k \in 1 .. 6 : r[k] = b[k]
  <2> SUFFICES ASSUME NEW k \in 1 .. 6
               PROVE  r[k] = b[k]
    OBVIOUS
  <2>1. k \in {1, 2, 3, 4, 5, 6}
    OBVIOUS
  <2> QED
    BY <1>3, <1>4, <2>1
<1>6. r = b
  BY <1>2, <1>4, <1>5, SeqEqual
<1> QED
  BY <1>2, <1>6 DEF a, b, r

(* The last word of a directive. *)
LEMMA ArgumentIsWord ==
  ASSUME NEW dir \in Printf!Directives, NEW words \in Seq(Printf!Word),
         Len(words) = Printf!Arguments(dir), Printf!Argument(dir)
  PROVE  words[Printf!Words(dir) + 1] \in Printf!Word
<1>1. Printf!Words(dir) \in Nat /\ Printf!Words(dir) + 1 = Len(words)
  BY DEF Printf!Words, Printf!Arguments
<1>2. Printf!Words(dir) + 1 \in 1 .. Len(words)
  BY <1>1
<1> QED
  BY <1>2, ElementOfSeq

(* The words that are strings and characters. *)
LEMMA WordsOfText ==
  ASSUME NEW word \in Printf!Word
  PROVE  /\ word[1] = "str" => word[2] \in Seq(STRING)
         /\ word[1] = "chr" => word[2] \in STRING
         /\ word[1] = "str" => word # Printf!NULL
<1>1. \A S, T : word \in ({"num"} \X Int) \cup ({"chr"} \X S) \cup ({"str"} \X T) =>
                  /\ word[1] = "str" => word[2] \in T
                  /\ word[1] = "chr" => word[2] \in S
  OBVIOUS
<1>2. word[1] = "str" => word # Printf!NULL
  BY DEF Printf!NULL, Printf!Num
<1> QED
  BY <1>1, <1>2, Zenon DEF Printf!Word

(* A string is printed as the standard has it. *)
LEMMA StringRight ==
  ASSUME NEW dir \in Printf!Directives, NEW words \in Seq(Printf!Word),
         Len(words) = Printf!Arguments(dir), Printf!Typed(dir, words), Printf!Fits(dir, words),
         Printf!Argument(dir), dir.conv = "s"
  PROVE  /\ Printf!String(dir, words) = Printf!StandardString(dir, words)
         /\ Printf!StandardString(dir, words) \in Seq(Glyph)
<1> DEFINE W == Printf!Width(dir, words)
           P == Printf!Precision(dir, words)
           given == Printf!Flags(dir, words)
           p == words[Printf!Words(dir) + 1]
           precise == Printf!Precise(dir, words)
           all == p[2]
           part == SubSeq(all, 1, Printf!Least(Len(all), P))
           nil == <<"(", "n", "u", "l", "l", ")">>
           shown == IF precise THEN part ELSE all
<1>1. W \in Nat /\ P \in Nat
  BY DirectiveParts
<1>2. /\ dir.flags \subseteq Printf!Flag
      /\ precise <=> dir.precision # Printf!None
  BY DirectiveParts
<1>3. ("." \in given <=> precise) /\ ("0" \in given <=> "0" \in dir.flags)
  BY <1>2, FlagsAre, Zenon
<1>4. "0" \notin given /\ (p = Printf!NULL \/ p[1] = "str")
  <2>1. /\ p = Printf!NULL \/ p[1] = "str"
        /\ "0" \notin dir.flags
    BY Zenon DEF Printf!Typed
  <2> QED
    BY <1>3, <2>1, Zenon
<1>5. p \in Printf!Word
  BY ArgumentIsWord
<1> HIDE DEF W, P, given, p, precise
<1>6. ASSUME p = Printf!NULL
      PROVE  /\ Printf!String(dir, words) = Printf!StandardString(dir, words)
             /\ Printf!StandardString(dir, words) \in Seq(Glyph)
  <2>1. Printf!StandardString(dir, words) = Justified(nil, W, given)
    BY <1>6, PaddedIsJustified, Zenon DEF Printf!StandardString, W, given, p
  <2>2. Printf!String(dir, words) = Printf!_out_rev(<<")", "l", "l", "u", "n", "(">>, W, given)
    BY <1>6, Zenon DEF Printf!String, W, given, p
  <2>3. Printf!_out_rev(<<")", "l", "l", "u", "n", "(">>, W, given) = Justified(nil, W, given)
    <3> DEFINE a == <<")", "l", "l", "u", "n", "(">>
    <3>1. a \in Seq(Glyph) /\ Printf!Reverse(a) = nil
      BY NullText
    <3> HIDE DEF a, nil
    <3>2. Printf!_out_rev(a, W, given) = Justified(nil, W, given)
      BY <1>1, <1>4, <3>1, OutRevOnce
    <3> QED
      BY <3>2 DEF a
  <2>4. Justified(nil, W, given) \in Seq(Glyph)
    <3>1. nil \in Seq(Glyph)
      BY NullText
    <3> HIDE DEF nil
    <3> QED
      BY <1>1, <3>1, JustifiedIsText
  <2> QED
    BY <2>1, <2>2, <2>3, <2>4, Zenon
<1>7. ASSUME p # Printf!NULL
      PROVE  /\ Printf!String(dir, words) = Printf!StandardString(dir, words)
             /\ Printf!StandardString(dir, words) \in Seq(Glyph)
  <2>1. Printf!StandardString(dir, words) = Justified(shown, W, given)
    BY <1>7, PaddedIsJustified, Zenon DEF Printf!StandardString, W, given, p, precise, P
  <2>2. Printf!Shown(dir, words, all) = shown
    BY <1>3, Zenon DEF Printf!Shown, P, given
  <2>3. Printf!String(dir, words) = Justified(shown, W, given)
    BY <1>7, <2>2, PaddedIsJustified, Zenon DEF Printf!String, W, given, p
  <2>4. all \in Seq(Glyph)
    <3>1. all \in Seq(STRING)
      BY <1>4, <1>5, <1>7, WordsOfText, Zenon
    <3> HIDE DEF all
    <3> QED
      BY <3>1, WiderText, Glyphs, Zenon
  <2> HIDE DEF all
  <2>5. part \in Seq(Glyph)
    <3>1. Len(all) \in Nat
      BY <2>4, LenProperties
    <3>2. Printf!Least(Len(all), P) \in 0 .. Len(all)
      BY <1>1, <3>1 DEF Printf!Least
    <3> QED
      BY <2>4, <3>1, <3>2, SubSeqProperties
  <2> HIDE DEF part
  <2>6. shown \in Seq(Glyph)
    BY <2>4, <2>5
  <2> HIDE DEF shown
  <2>7. Justified(shown, W, given) \in Seq(Glyph)
    BY <1>1, <2>6, JustifiedIsText
  <2> QED
    BY <2>1, <2>3, <2>7, Zenon
<1> QED
  BY <1>6, <1>7, Zenon

(* What the code prints for a directive. *)
Printing(dir, words) ==
  CASE ~Printf!Argument(dir)                                 -> <<dir.conv>>
    [] Printf!Argument(dir) /\ dir.conv \in Printf!Number    -> Printf!Integer(dir, words)
    [] Printf!Argument(dir) /\ dir.conv = "s"                -> Printf!String(dir, words)
    [] Printf!Argument(dir) /\ dir.conv = "c"                ->
         Printf!Padded(<<words[Printf!Words(dir) + 1][2]>>, dir, words)

(* Which characters a conversion has. *)
LEMMA Conversions ==
  /\ "s" \notin Printf!Number /\ "c" \notin Printf!Number /\ "p" \notin Printf!Number
  /\ "s" # "c" /\ "s" # "p" /\ "c" # "p"
BY DEF Printf!Number, Printf!Base

(* The character of an unknown conversion is a text. *)
LEMMA ConvIsText ==
  ASSUME NEW dir \in Printf!Directives
  PROVE  <<dir.conv>> \in Seq(Glyph)
<1>1. \A S, T : dir \in [flags : SUBSET Printf!Flag, width : Nat \cup {Printf!None, Printf!Star},
                         precision : Nat \cup {Printf!None, Printf!Star},
                         length : S, conv : S, plain : T] => dir.conv \in S
  OBVIOUS
<1>2. dir.conv \in STRING
  BY <1>1, Zenon DEF Printf!Directives
<1>3. dir.conv \in Glyph
  BY <1>2, Glyphs, Zenon
<1> QED
  BY <1>3, OneGlyph, Zenon

(* A directive is printed as the standard has it. *)
LEMMA DirectiveRight ==
  ASSUME Printf!SnprintfAssumption,
         NEW dir \in Printf!Directives, NEW words \in Seq(Printf!Word),
         Len(words) = Printf!Arguments(dir), Printf!Typed(dir, words), Printf!Fits(dir, words),
         ~(~dir.plain /\ dir.conv = "p")
  PROVE  /\ Printing(dir, words) = Printf!Standard(dir, words)
         /\ Printf!Standard(dir, words) \in Seq(Glyph)
<1> DEFINE W == Printf!Width(dir, words)
           given == Printf!Flags(dir, words)
           c == <<words[Printf!Words(dir) + 1][2]>>
<1>1. W \in Nat
  BY DirectiveParts
<1>2. ASSUME ~Printf!Argument(dir)
      PROVE  /\ Printing(dir, words) = Printf!Standard(dir, words)
             /\ Printf!Standard(dir, words) \in Seq(Glyph)
  <2>1. Printing(dir, words) = <<dir.conv>> /\ Printf!Standard(dir, words) = <<dir.conv>>
    BY <1>2 DEF Printing, Printf!Standard
  <2> QED
    BY <2>1, ConvIsText, Zenon
<1>3. ASSUME Printf!Argument(dir), dir.conv \in Printf!Number
      PROVE  /\ Printing(dir, words) = Printf!Standard(dir, words)
             /\ Printf!Standard(dir, words) \in Seq(Glyph)
  <2> DEFINE text == Printf!NumberText(dir, words)
  <2>1. Printing(dir, words) = Printf!Integer(dir, words)
    BY <1>3, Conversions DEF Printing
  <2>2. Printf!Standard(dir, words) = Printf!Padded(text, dir, words)
    BY <1>3, Conversions DEF Printf!Standard
  <2>3. text \in Seq(Glyph) /\ Printf!Integer(dir, words) = Printf!Padded(text, dir, words)
    BY <1>3, NumberRight
  <2> HIDE DEF text, W
  <2>4. Justified(text, W, given) \in Seq(Glyph)
    BY <1>1, <2>3, JustifiedIsText
  <2> QED
    BY <2>1, <2>2, <2>3, <2>4, PaddedIsJustified, Zenon DEF W
<1>4. ASSUME Printf!Argument(dir), dir.conv = "s"
      PROVE  /\ Printing(dir, words) = Printf!Standard(dir, words)
             /\ Printf!Standard(dir, words) \in Seq(Glyph)
  <2>1. Printing(dir, words) = Printf!String(dir, words)
    BY <1>4, Conversions DEF Printing
  <2>2. Printf!Standard(dir, words) = Printf!StandardString(dir, words)
    BY <1>4, Conversions DEF Printf!Standard
  <2>3. /\ Printf!String(dir, words) = Printf!StandardString(dir, words)
        /\ Printf!StandardString(dir, words) \in Seq(Glyph)
    BY <1>4, StringRight
  <2> QED
    BY <2>1, <2>2, <2>3, Zenon
<1>5. ASSUME Printf!Argument(dir), dir.conv = "c"
      PROVE  /\ Printing(dir, words) = Printf!Standard(dir, words)
             /\ Printf!Standard(dir, words) \in Seq(Glyph)
  <2>1. Printing(dir, words) = Printf!Padded(c, dir, words)
    BY <1>5, Conversions DEF Printing
  <2>2. Printf!Standard(dir, words) = Printf!Padded(c, dir, words)
    BY <1>5, Conversions DEF Printf!Standard
  <2>3. words[Printf!Words(dir) + 1] \in Printf!Word
    BY <1>5, ArgumentIsWord
  <2>4. words[Printf!Words(dir) + 1][1] = "chr"
    BY <1>5, Zenon DEF Printf!Typed
  <2>5. words[Printf!Words(dir) + 1][2] \in Glyph
    BY <2>3, <2>4, WordsOfText, Glyphs, Zenon
  <2>6. c \in Seq(Glyph)
    BY <2>5, OneGlyph, Zenon
  <2> HIDE DEF c, W
  <2>7. Justified(c, W, given) \in Seq(Glyph)
    BY <1>1, <2>6, JustifiedIsText
  <2> QED
    BY <2>1, <2>2, <2>7, PaddedIsJustified, Zenon DEF W
<1>6. Printf!Argument(dir) => dir.conv \in Printf!Number \/ dir.conv = "s" \/ dir.conv = "c"
  BY Zenon DEF Printf!Argument
<1> QED
  BY <1>2, <1>3, <1>4, <1>5, <1>6, Zenon

(* A directive prints nothing but its own words. *)
LEMMA OwnWords ==
  ASSUME NEW dir, NEW words, NEW more,
         \A k \in 1 .. Printf!Arguments(dir) : more[k] = words[k],
         ~(~dir.plain /\ dir.conv = "p")
  PROVE  Printing(dir, more) = Printing(dir, words)
<1> DEFINE n == Printf!Words(dir)
<1>1. /\ dir.width = Printf!Star => more[1] = words[1]
      /\ dir.precision = Printf!Star => more[n] = words[n]
      /\ Printf!Argument(dir) => more[n + 1] = words[n + 1]
  <2>1. dir.width = Printf!Star => 1 \in 1 .. Printf!Arguments(dir)
    BY DEF Printf!Arguments, Printf!Words
  <2>2. dir.precision = Printf!Star => n \in 1 .. Printf!Arguments(dir)
    BY DEF Printf!Arguments, Printf!Words
  <2>3. Printf!Argument(dir) => n + 1 \in 1 .. Printf!Arguments(dir)
    BY DEF Printf!Arguments, Printf!Words
  <2> HIDE DEF n
  <2> QED
    BY <2>1, <2>2, <2>3
<1>2. Printf!StarWidth(dir, more) <=> Printf!StarWidth(dir, words)
  BY <1>1 DEF Printf!StarWidth
<1>3. Printf!Width(dir, more) = Printf!Width(dir, words)
  <2>1. CASE dir.width = Printf!Star
    BY <1>1, <1>2, <2>1 DEF Printf!Width, Printf!None, Printf!Star
  <2>2. CASE dir.width # Printf!Star
    BY <2>2 DEF Printf!Width, Printf!None, Printf!Star
  <2> QED
    BY <2>1, <2>2
<1>4. Printf!Precision(dir, more) = Printf!Precision(dir, words)
  <2>1. CASE dir.precision = Printf!Star
    BY <1>1, <2>1 DEF Printf!Precision, Printf!None, Printf!Star
  <2>2. CASE dir.precision # Printf!Star
    BY <2>2 DEF Printf!Precision, Printf!None, Printf!Star
  <2> QED
    BY <2>1, <2>2
<1>5. Printf!Flags(dir, more) = Printf!Flags(dir, words)
  BY <1>2 DEF Printf!Flags
<1>6. \A text : Printf!Padded(text, dir, more) = Printf!Padded(text, dir, words)
  BY <1>3, <1>5, Zenon DEF Printf!Padded
<1>7. ASSUME Printf!Argument(dir)
      PROVE  /\ Printf!Integer(dir, more) = Printf!Integer(dir, words)
             /\ Printf!String(dir, more) = Printf!String(dir, words)
             /\ Printf!Padded(<<more[n + 1][2]>>, dir, more) = Printf!Padded(<<words[n + 1][2]>>, dir, words)
  <2>1. more[n + 1] = words[n + 1]
    BY <1>1, <1>7, Zenon
  <2>2. Printf!Integer(dir, more) = Printf!Integer(dir, words)
    BY <1>3, <1>4, <1>5, <2>1, Zenon DEF Printf!Integer
  <2>3. \A s1 : Printf!Shown(dir, more, s1) = Printf!Shown(dir, words, s1)
    BY <1>4, <1>5, Zenon DEF Printf!Shown
  <2>4. Printf!String(dir, more) = Printf!String(dir, words)
    BY <1>3, <1>5, <1>6, <2>1, <2>3, Zenon DEF Printf!String
  <2>5. Printf!Padded(<<more[n + 1][2]>>, dir, more) = Printf!Padded(<<words[n + 1][2]>>, dir, words)
    BY <1>6, <2>1, Zenon
  <2> QED
    BY <2>2, <2>4, <2>5, Zenon
<1> QED
  <2>1. CASE ~Printf!Argument(dir)
    BY <2>1 DEF Printing
  <2>2. CASE Printf!Argument(dir)
    <3>1. Printf!Argument(dir) => dir.conv \in Printf!Number \/ dir.conv = "s" \/ dir.conv = "c"
      BY Zenon DEF Printf!Argument
    <3> QED
      BY <1>7, <2>2, <3>1, Conversions DEF Printing
  <2> QED
    BY <2>1, <2>2

(* What is left of a sequence behind its first n elements.                 *)
Rest(e, n) == SubSeq(e, n + 1, Len(e))

(* What is left of a sequence, position by position. *)
LEMMA RestOf ==
  ASSUME NEW S, NEW e \in Seq(S), NEW n \in 0 .. Len(e)
  PROVE  /\ Rest(e, n) \in Seq(S)
         /\ Len(Rest(e, n)) = Len(e) - n
         /\ \A k \in 1 .. Len(e) - n : Rest(e, n)[k] = e[n + k]
<1>1. Len(e) \in Nat
  BY LenProperties
<1> QED
  BY <1>1 DEF Rest

(* Without any taken, all is left. *)
LEMMA RestOfAll ==
  ASSUME NEW S, NEW e \in Seq(S)
  PROVE  Rest(e, 0) = e
BY SubSeqFull DEF Rest

(* Taking m elements and then n is taking m + n. *)
LEMMA RestOfRest ==
  ASSUME NEW S, NEW e \in Seq(S), NEW m \in 0 .. Len(e), NEW n \in 0 .. Len(e) - m
  PROVE  Rest(Rest(e, m), n) = Rest(e, m + n)
<1> DEFINE t == Rest(e, m)
           u == Rest(t, n)
           v == Rest(e, m + n)
<1>1. Len(e) \in Nat /\ m + n \in 0 .. Len(e)
  BY LenProperties
<1>2. t \in Seq(S) /\ Len(t) = Len(e) - m /\ \A k \in 1 .. Len(e) - m : t[k] = e[m + k]
  BY RestOf
<1> HIDE DEF t
<1>3. n \in 0 .. Len(t)
  BY <1>2
<1>4. u \in Seq(S) /\ Len(u) = Len(t) - n /\ \A k \in 1 .. Len(t) - n : u[k] = t[n + k]
  <2>1. t \in Seq(S)
    BY <1>2
  <2> QED
    BY <1>3, <2>1, RestOf
<1>5. v \in Seq(S) /\ Len(v) = Len(e) - (m + n) /\ \A k \in 1 .. Len(e) - (m + n) : v[k] = e[(m + n) + k]
  BY <1>1, RestOf
<1> HIDE DEF u, v
<1>6. Len(u) = Len(v)
  BY <1>1, <1>2, <1>4, <1>5
<1>7. ASSUME NEW k \in 1 .. Len(u)
      PROVE  u[k] = v[k]
  <2>1. u[k] = t[n + k] /\ v[k] = e[(m + n) + k]
    BY <1>4, <1>5, <1>6
  <2>2. n + k \in 1 .. Len(e) - m /\ m + (n + k) = (m + n) + k
    BY <1>1, <1>2, <1>4
  <2>3. t[n + k] = e[m + (n + k)]
    BY <1>2, <2>2
  <2> QED
    BY <2>1, <2>2, <2>3
<1> QED
  BY <1>4, <1>5, <1>6, <1>7, SeqEqual DEF u, v, t

(* Taking one more takes the head of what is left. *)
LEMMA RestOfOne ==
  ASSUME NEW S, NEW e \in Seq(S), NEW n \in 0 .. Len(e) - 1
  PROVE  Head(Rest(e, n)) = e[n + 1] /\ Tail(Rest(e, n)) = Rest(e, n + 1)
<1> DEFINE t == Rest(e, n)
<1>1. Len(e) \in Nat /\ n \in 0 .. Len(e) /\ 1 \in 0 .. Len(e) - n
  BY LenProperties
<1>2. t \in Seq(S) /\ Len(t) = Len(e) - n /\ t[1] = e[n + 1]
  BY <1>1, RestOf
<1>3. Rest(t, 1) = Rest(e, n + 1)
  BY <1>1, RestOfRest
<1> HIDE DEF t
<1>4. Head(t) = t[1] /\ Tail(t) = Rest(t, 1)
  <2>1. Len(t) \in Nat /\ Len(t) # 0
    BY <1>1, <1>2
  <2> QED
    BY <1>2, <2>1 DEF Rest
<1> QED
  BY <1>2, <1>3, <1>4 DEF t

(* Nothing is left behind the last one only. *)
LEMMA RestOfNone ==
  ASSUME NEW S, NEW e \in Seq(S), NEW n \in 0 .. Len(e)
  PROVE  Rest(e, n) = << >> <=> n = Len(e)
<1>1. Len(e) \in Nat
  BY LenProperties
<1>2. Rest(e, n) \in Seq(S) /\ Len(Rest(e, n)) = Len(e) - n
  BY RestOf
<1> QED
  BY <1>1, <1>2, EmptySeq

(* The words that are taken are more and more. *)
LEMMA BeforeGrows ==
  ASSUME NEW c, c.format \in Seq(Printf!Directives)
  PROVE  \A k \in 0 .. Len(c.format) : Printf!Before(c)[k] <= Printf!Before(c)[Len(c.format)]
<1> DEFINE N == Len(c.format)
           before == Printf!Before(c)
           T == {n \in Nat : n <= N => before[N - n] <= before[N]}
<1>1. N \in Nat
  BY LenProperties
<1>2. /\ \A k \in 0 .. N : before[k] \in Nat
      /\ \A k \in 1 .. N : before[k] = before[k - 1] + Printf!Arguments(c.format[k])
  BY BeforeRecursion
<1>3. \A k \in 1 .. N : Printf!Arguments(c.format[k]) \in Nat
  BY DEF Printf!Arguments, Printf!Words
<1> HIDE DEF N, before
<1>4. 0 \in T
  <2>1. N - 0 = N /\ N \in 0 .. N
    BY <1>1
  <2> QED
    BY <1>2, <2>1
<1>5. ASSUME NEW n \in Nat, n \in T
      PROVE  n + 1 \in T
  <2>1. ASSUME n + 1 <= N
        PROVE  before[N - (n + 1)] <= before[N]
    <3>1. /\ N - n \in 1 .. N /\ (N - n) - 1 = N - (n + 1) /\ N - (n + 1) \in 0 .. N
          /\ N - n \in 0 .. N /\ N \in 0 .. N
      BY <1>1, <2>1
    <3>2. before[N - n] = before[N - (n + 1)] + Printf!Arguments(c.format[N - n])
      BY <1>2, <3>1
    <3>3. before[N - n] <= before[N]
      BY <1>1, <1>5, <2>1
    <3> DEFINE p == N - n
               q == N - (n + 1)
    <3>4. before[p] = before[q] + Printf!Arguments(c.format[p]) /\ before[p] <= before[N]
      BY <3>2, <3>3
    <3>5. p \in 1 .. N /\ p \in 0 .. N /\ q \in 0 .. N /\ N \in 0 .. N
      BY <3>1
    <3> HIDE DEF p, q
    <3>6. before[p] \in Nat /\ before[q] \in Nat /\ before[N] \in Nat /\ Printf!Arguments(c.format[p]) \in Nat
      BY <1>2, <1>3, <3>5
    <3>7. before[q] <= before[N]
      BY <3>4, <3>6
    <3> QED
      BY <3>7 DEF q
  <2> QED
    BY <2>1
<1>6. \A n \in Nat : n \in T
  <2> HIDE DEF T
  <2> QED
    BY <1>4, <1>5, Induction
<1>7. ASSUME NEW k \in 0 .. N
      PROVE  before[k] <= before[N]
  <2>1. N - k \in Nat /\ N - k <= N /\ N - (N - k) = k
    BY <1>1
  <2>2. N - k \in T
    <3> HIDE DEF T
    <3> QED
      BY <1>6, <2>1
  <2>3. before[N - (N - k)] <= before[N]
    BY <2>1, <2>2
  <2> QED
    BY <2>1, <2>3
<1> QED
  BY <1>7 DEF N, before

(* What the directives of a call print. *)
TextsOf(c) == [k \in DOMAIN c.format |-> Printf!Standard(c.format[k], Printf!WordsOf(c, k))]

(* The call prints what is to be printed, directive by directive: the next *)
(* one finds its words in front of those that are left.                    *)
LEMMA DirectiveOfCall ==
  ASSUME Printf!SnprintfAssumption, NEW c \in PrintCalls, ~Printf!HasPointer(c),
         NEW k \in 0 .. Len(c.format) - 1
  PROVE  /\ Printing(c.format[k + 1], Rest(c.words, Printf!Before(c)[k])) = TextsOf(c)[k + 1]
         /\ TextsOf(c)[k + 1] \in Seq(Glyph)
         /\ Printf!Before(c)[k] \in Nat
         /\ Printf!Arguments(c.format[k + 1]) \in Nat
         /\ Printf!Before(c)[k + 1] = Printf!Before(c)[k] + Printf!Arguments(c.format[k + 1])
         /\ Printf!Before(c)[k + 1] <= Len(c.words)
<1> DEFINE N == Len(c.format)
           dir == c.format[k + 1]
           before == Printf!Before(c)
           n == Printf!Arguments(dir)
           more == Rest(c.words, before[k])
           words == Printf!WordsOf(c, k + 1)
<1>1. /\ c.format \in Seq(Printf!Directives) /\ c.words \in Seq(Printf!Word)
      /\ before[N] <= Len(c.words)
      /\ \A j \in DOMAIN c.format :
           Printf!Typed(c.format[j], Printf!WordsOf(c, j)) /\ Printf!Fits(c.format[j], Printf!WordsOf(c, j))
  BY DEF Printf!SnprintfAssumption
<1>2. N \in Nat /\ DOMAIN c.format = 1 .. N /\ k \in 0 .. N /\ k + 1 \in 1 .. N /\ k + 1 \in 0 .. N
      /\ (k + 1) - 1 = k /\ N \in 0 .. N
  BY <1>1, LenProperties
<1>3. dir \in Printf!Directives
  BY <1>1, <1>2, ElementOfSeq
<1>4. n \in Nat
  BY DEF Printf!Arguments, Printf!Words
<1>5. /\ before[k] \in Nat /\ before[k + 1] \in Nat /\ before[N] \in Nat
      /\ before[k + 1] = before[k] + n
      /\ before[k + 1] <= before[N]
  <2>1. /\ \A j \in 0 .. N : before[j] \in Nat
        /\ \A j \in 1 .. N : before[j] = before[j - 1] + Printf!Arguments(c.format[j])
    BY <1>1, BeforeRecursion
  <2>2. \A j \in 0 .. N : before[j] <= before[N]
    BY <1>1, BeforeGrows
  <2> HIDE DEF before, N
  <2> QED
    BY <1>2, <2>1, <2>2
<1> HIDE DEF before, n, N
<1>6. Len(c.words) \in Nat /\ before[k + 1] <= Len(c.words) /\ before[k] <= Len(c.words)
  <2>1. Len(c.words) \in Nat
    BY <1>1, LenProperties
  <2> QED
    BY <1>1, <1>4, <1>5, <2>1
<1>7. /\ words \in Seq(Printf!Word) /\ Len(words) = n
      /\ \A i1 \in 1 .. n : words[i1] = c.words[before[k] + i1]
  <2> DEFINE a == before[k]
             b == before[k + 1]
  <2>1. words = SubSeq(c.words, a + 1, b)
    BY <1>2 DEF Printf!WordsOf, before
  <2>2. a \in Nat /\ b = a + n /\ b <= Len(c.words)
    BY <1>5, <1>6
  <2> HIDE DEF a, b, words
  <2>3. /\ SubSeq(c.words, a + 1, a + n) \in Seq(Printf!Word)
        /\ Len(SubSeq(c.words, a + 1, a + n)) = n
        /\ \A i1 \in 1 .. n : SubSeq(c.words, a + 1, a + n)[i1] = c.words[a + i1]
    <3>1. \A S : \A e \in Seq(S) : a + n <= Len(e) =>
            /\ SubSeq(e, a + 1, a + n) \in Seq(S)
            /\ Len(SubSeq(e, a + 1, a + n)) = n
            /\ \A i1 \in 1 .. n : SubSeq(e, a + 1, a + n)[i1] = e[a + i1]
      BY <1>4, <2>2
    <3> QED
      BY <1>1, <2>2, <3>1, Zenon
  <2> QED
    BY <2>1, <2>2, <2>3 DEF a
<1>8. \A i1 \in 1 .. n : more[i1] = words[i1]
  <2> DEFINE a == before[k]
             e == c.words
  <2>1. a \in 0 .. Len(e) /\ e \in Seq(Printf!Word)
    BY <1>1, <1>5, <1>6
  <2>2. \A i1 \in 1 .. Len(e) - a : Rest(e, a)[i1] = e[a + i1]
    <3> HIDE DEF a, e
    <3> QED
      BY <2>1, RestOf
  <2>3. \A i1 \in 1 .. n : i1 \in 1 .. Len(e) - a
    BY <1>4, <1>5, <1>6
  <2> HIDE DEF words
  <2> QED
    BY <1>7, <2>2, <2>3, Zenon
<1>9. ~(~dir.plain /\ dir.conv = "p")
  BY <1>2, Zenon DEF Printf!HasPointer
<1>10. Printf!Typed(dir, words) /\ Printf!Fits(dir, words)
  BY <1>1, <1>2
<1>11. TextsOf(c)[k + 1] = Printf!Standard(dir, words)
  BY <1>2 DEF TextsOf
<1> HIDE DEF dir, words, more
<1>12. Printing(dir, words) = Printf!Standard(dir, words) /\ Printf!Standard(dir, words) \in Seq(Glyph)
  <2>1. Len(words) = Printf!Arguments(dir) /\ words \in Seq(Printf!Word)
    BY <1>7 DEF n
  <2> QED
    BY <1>3, <1>9, <1>10, <2>1, DirectiveRight, Zenon
<1>13. Printing(dir, more) = Printing(dir, words)
  BY <1>8, <1>9, OwnWords, Zenon DEF n
<1> QED
  BY <1>4, <1>5, <1>6, <1>11, <1>12, <1>13 DEF n, before, dir, more

(* All of what a call prints is a text for each of its directives.         *)
LEMMA TextsOfCall ==
  ASSUME Printf!SnprintfAssumption, NEW c \in PrintCalls, ~Printf!HasPointer(c)
  PROVE  /\ Len(c.format) \in Nat
         /\ TextsOf(c) \in Seq(Seq(Glyph))
         /\ Len(TextsOf(c)) = Len(c.format)
         /\ Printf!Before(c)[0] = 0
         /\ c.format \in Seq(Printf!Directives) /\ c.words \in Seq(Printf!Word)
<1>1. c.format \in Seq(Printf!Directives) /\ c.words \in Seq(Printf!Word)
  BY DEF Printf!SnprintfAssumption
<1>2. Len(c.format) \in Nat /\ DOMAIN c.format = 1 .. Len(c.format)
  BY <1>1, LenProperties
<1>3. Printf!Before(c)[0] = 0
  BY <1>1, BeforeRecursion
<1>4. ASSUME NEW j \in 1 .. Len(c.format)
      PROVE  Printf!Standard(c.format[j], Printf!WordsOf(c, j)) \in Seq(Glyph)
  <2>1. j - 1 \in 0 .. Len(c.format) - 1 /\ (j - 1) + 1 = j
    BY <1>2
  <2>2. TextsOf(c)[(j - 1) + 1] \in Seq(Glyph)
    BY <2>1, DirectiveOfCall
  <2>3. TextsOf(c)[j] = Printf!Standard(c.format[j], Printf!WordsOf(c, j))
    BY <1>2 DEF TextsOf
  <2> QED
    BY <2>1, <2>2, <2>3
<1>5. TextsOf(c) \in Seq(Seq(Glyph)) /\ Len(TextsOf(c)) = Len(c.format)
  <2> DEFINE f == [j \in 1 .. Len(c.format) |-> Printf!Standard(c.format[j], Printf!WordsOf(c, j))]
  <2>1. TextsOf(c) = f
    BY <1>2 DEF TextsOf
  <2>2. f \in [1 .. Len(c.format) -> Seq(Glyph)]
    BY <1>4
  <2> HIDE DEF f
  <2>3. \A S, n, g : n \in Nat /\ g \in [1 .. n -> S] => g \in Seq(S) /\ Len(g) = n
    OBVIOUS
  <2> QED
    BY <1>2, <2>1, <2>2, <2>3, Zenon
<1> QED
  BY <1>1, <1>2, <1>3, <1>5, Zenon

(* What has been written of a call after k directives.                     *)
WrittenOf(c, k) == Joined(TextsOf(c))[k]

(* What has been written: nothing at first, the text of one directive more *)
(* after each of them, and all of it in the end.                           *)
LEMMA Written ==
  ASSUME Printf!SnprintfAssumption, NEW c \in PrintCalls, ~Printf!HasPointer(c)
  PROVE  /\ WrittenOf(c, 0) = << >>
         /\ \A k \in 0 .. Len(c.format) : WrittenOf(c, k) \in Seq(Glyph)
         /\ \A k \in 0 .. Len(c.format) - 1 :
              WrittenOf(c, k + 1) = WrittenOf(c, k) \o TextsOf(c)[k + 1]
         /\ WrittenOf(c, Len(c.format)) = Printf!FlattenSeq(TextsOf(c))
<1> DEFINE texts == TextsOf(c)
           N == Len(c.format)
           g == Joined(texts)
<1>1. N \in Nat /\ texts \in Seq(Seq(Glyph)) /\ Len(texts) = N
  BY TextsOfCall
<1> HIDE DEF texts, N
<1>2. Joins(g, texts)
  <2>1. \A k \in 1 .. Len(texts) : texts[k] \in Seq(Glyph)
    BY <1>1, ElementOfSeq
  <2> QED
    BY <1>1, <2>1, JoinedJoins
<1>3. Printf!FlattenSeq(texts) = g[Len(texts)]
  BY <1>1, FlattenIsJoined
<1> HIDE DEF g
<1>4. /\ g \in [0 .. N -> Seq(Glyph)]
      /\ g[0] = << >>
      /\ \A k \in 1 .. N : g[k] = g[k - 1] \o texts[k]
  BY <1>1, <1>2 DEF Joins
<1>5. \A k \in 0 .. N - 1 : g[k + 1] = g[k] \o texts[k + 1]
  <2> SUFFICES ASSUME NEW k \in 0 .. N - 1
               PROVE  g[k + 1] = g[k] \o texts[k + 1]
    OBVIOUS
  <2>1. k + 1 \in 1 .. N /\ (k + 1) - 1 = k
    BY <1>1
  <2>2. g[k + 1] = g[(k + 1) - 1] \o texts[k + 1]
    BY <1>4, <2>1
  <2> QED
    BY <2>1, <2>2
<1>6. \A k : WrittenOf(c, k) = g[k]
  BY Zenon DEF WrittenOf, g, texts
<1> QED
  BY <1>1, <1>3, <1>4, <1>5, <1>6 DEF texts, N

(* A call of snprintf after j directives.                                  *)
PrintedUpTo(j) ==
  /\ format = Rest(request.format, j)
  /\ va = Rest(request.words, Printf!Before(request)[j])
  /\ idx = Len(WrittenOf(request, j))
  /\ buffer = [k \in 1 .. request.count |->
                 IF request.buffer /\ k <= idx THEN WrittenOf(request, j)[k] ELSE "?"]

Printings ==
  library = "print" =>
    /\ request \in PrintCalls
    /\ place = "loop" /\ ~Printf!HasPointer(request) =>
         \E j \in 0 .. Len(request.format) : PrintedUpTo(j)
    /\ Printf!FormatRight

(* At first nothing has been printed, and nothing is to be. *)
LEMMA InitPrintings == Printf!SnprintfAssumption /\ LibraryInit => Printings
<1> SUFFICES ASSUME Printf!SnprintfAssumption, LibraryInit, library = "print"
             PROVE  Printings
  BY DEF Printings
<1>1. Printf!Init
  BY DEF LibraryInit
<1>2. request \in PrintCalls /\ place = "loop"
  BY <1>1 DEF Printf!Init
<1>3. ASSUME ~Printf!HasPointer(request)
      PROVE  \E j \in 0 .. Len(request.format) : PrintedUpTo(j)
  <2>1. /\ Len(request.format) \in Nat /\ Printf!Before(request)[0] = 0
        /\ request.format \in Seq(Printf!Directives) /\ request.words \in Seq(Printf!Word)
    BY <1>2, <1>3, TextsOfCall
  <2>2. WrittenOf(request, 0) = << >>
    BY <1>2, <1>3, Written
  <2>3. Rest(request.format, 0) = request.format /\ Rest(request.words, 0) = request.words
    BY <2>1, RestOfAll
  <2>4. request.count \in Nat
    BY <1>2 DEF Printf!SnprintfAssumption
  <2>5. idx = 0 /\ Len(<< >>) = 0
    BY <1>1 DEF Printf!Init
  <2>6. buffer = [k \in 1 .. request.count |-> "?"]
    BY <1>1 DEF Printf!Init, Printf!Old
  <2>7. buffer = [k \in 1 .. request.count |->
                    IF request.buffer /\ k <= idx THEN WrittenOf(request, 0)[k] ELSE "?"]
    <3>1. \A k \in 1 .. request.count : ~(k <= idx)
      BY <2>4, <2>5
    <3> QED
      BY <2>6, <3>1
  <2>8. PrintedUpTo(0)
    BY <1>1, <2>1, <2>2, <2>3, <2>5, <2>7 DEF PrintedUpTo, Printf!Init
  <2> QED
    BY <2>1, <2>8
<1>4. Printf!FormatRight
  BY <1>2 DEF Printf!FormatRight
<1> QED
  BY <1>2, <1>3, <1>4 DEF Printings

(* Every step puts out what the next directive prints, or ends the call.   *)
LEMMA StepPrints ==
  ASSUME Printf!Next, ~Printf!HasPointer(request), format # << >>,
         \E k \in DOMAIN request.format : Head(format) = request.format[k]
  PROVE  /\ place = "loop"
         /\ Printf!Out(Printing(Head(format), va), Printf!Arguments(Head(format)))
<1> DEFINE dir == Printf!directive
<1>1. dir = Head(format)
  BY DEF Printf!directive
<1>2. dir.plain \/ dir.conv # "p"
  BY <1>1, Zenon DEF Printf!HasPointer
<1> HIDE DEF dir
<1>3. ASSUME Printf!OutNumber
      PROVE  place = "loop" /\ Printf!Out(Printing(dir, va), Printf!Arguments(dir))
  <2>1. place = "loop" /\ ~dir.plain /\ dir.conv \in Printf!Number
    BY <1>3 DEF Printf!OutNumber, Printf!Conversion, dir
  <2>2. Printf!Argument(dir)
    BY <2>1 DEF Printf!Argument
  <2>3. Printing(dir, va) = Printf!Integer(dir, va) /\ Printf!Arguments(dir) = Printf!Words(dir) + 1
    BY <2>1, <2>2, Conversions DEF Printing, Printf!Arguments
  <2>4. Printf!Out(Printf!Integer(dir, va), Printf!Words(dir) + 1)
    BY <1>3, Zenon DEF Printf!OutNumber, dir
  <2> QED
    BY <2>1, <2>3, <2>4, Zenon
<1>4. ASSUME Printf!OutChar
      PROVE  place = "loop" /\ Printf!Out(Printing(dir, va), Printf!Arguments(dir))
  <2>1. place = "loop" /\ ~dir.plain /\ dir.conv = "c"
    BY <1>4 DEF Printf!OutChar, Printf!Conversion, dir
  <2>2. Printf!Argument(dir)
    BY <2>1 DEF Printf!Argument
  <2>3. /\ Printing(dir, va) = Printf!Padded(<<va[Printf!Words(dir) + 1][2]>>, dir, va)
        /\ Printf!Arguments(dir) = Printf!Words(dir) + 1
    BY <2>1, <2>2, Conversions DEF Printing, Printf!Arguments
  <2>4. Printf!Out(Printf!Padded(<<va[Printf!Words(dir) + 1][2]>>, dir, va), Printf!Words(dir) + 1)
    BY <1>4, Zenon DEF Printf!OutChar, dir
  <2> QED
    BY <2>1, <2>3, <2>4, Zenon
<1>5. ASSUME Printf!OutString
      PROVE  place = "loop" /\ Printf!Out(Printing(dir, va), Printf!Arguments(dir))
  <2>1. place = "loop" /\ ~dir.plain /\ dir.conv = "s"
    BY <1>5 DEF Printf!OutString, Printf!Conversion, dir
  <2>2. Printf!Argument(dir)
    BY <2>1 DEF Printf!Argument
  <2>3. Printing(dir, va) = Printf!String(dir, va) /\ Printf!Arguments(dir) = Printf!Words(dir) + 1
    BY <2>1, <2>2, Conversions DEF Printing, Printf!Arguments
  <2>4. Printf!Out(Printf!String(dir, va), Printf!Words(dir) + 1)
    BY <1>5, Zenon DEF Printf!OutString, dir
  <2> QED
    BY <2>1, <2>3, <2>4, Zenon
<1>6. ASSUME Printf!OutPointer
      PROVE  FALSE
  BY <1>2, <1>6 DEF Printf!OutPointer, Printf!Conversion, dir
<1>7. ASSUME Printf!OutPlain
      PROVE  place = "loop" /\ Printf!Out(Printing(dir, va), Printf!Arguments(dir))
  <2>1. place = "loop" /\ ~Printf!Argument(dir)
    BY <1>7 DEF Printf!OutPlain, dir
  <2>2. Printing(dir, va) = <<dir.conv>> /\ Printf!Arguments(dir) = Printf!Words(dir)
    BY <2>1 DEF Printing, Printf!Arguments, Printf!Words
  <2>3. Printf!Out(<<dir.conv>>, Printf!Words(dir))
    BY <1>7, Zenon DEF Printf!OutPlain, dir
  <2> QED
    BY <2>1, <2>2, <2>3, Zenon
<1>8. ASSUME Printf!Terminate
      PROVE  FALSE
  BY <1>8 DEF Printf!Terminate
<1>9. place = "loop" /\ Printf!Out(Printing(dir, va), Printf!Arguments(dir))
  BY <1>3, <1>4, <1>5, <1>6, <1>7, <1>8, Zenon DEF Printf!Next
<1> QED
  BY <1>1, <1>9, Zenon

(* The next directive is put out behind those before.                      *)
LEMMA OutPrints ==
  ASSUME Printf!SnprintfAssumption, request \in PrintCalls, ~Printf!HasPointer(request),
         NEW j \in 0 .. Len(request.format) - 1, PrintedUpTo(j),
         Printf!Out(TextsOf(request)[j + 1], Printf!Arguments(request.format[j + 1]))
  PROVE  request' = request /\ PrintedUpTo(j + 1)'
<1> DEFINE text == TextsOf(request)[j + 1]
           n == Printf!Arguments(request.format[j + 1])
           b == Printf!Before(request)[j]
           w == WrittenOf(request, j)
           v == WrittenOf(request, j + 1)
           count == request.count
<1>1. /\ Len(request.format) \in Nat
      /\ request.format \in Seq(Printf!Directives) /\ request.words \in Seq(Printf!Word)
      /\ count \in Nat
  BY TextsOfCall DEF Printf!SnprintfAssumption
<1>2. /\ text \in Seq(Glyph) /\ b \in Nat /\ n \in Nat
      /\ Printf!Before(request)[j + 1] = b + n
      /\ b + n <= Len(request.words)
  BY DirectiveOfCall
<1>3. w \in Seq(Glyph) /\ v = w \o text
  <2>1. j \in 0 .. Len(request.format)
    BY <1>1
  <2> QED
    BY <2>1, Written
<1>4. request' = request
  BY DEF Printf!Out
<1> HIDE DEF text, n, b, w, v
<1>5. /\ Len(w) \in Nat /\ Len(text) \in Nat /\ Len(v) = Len(w) + Len(text)
      /\ \A k \in 1 .. Len(w) : v[k] = w[k]
      /\ \A k \in Len(w) + 1 .. Len(w) + Len(text) : v[k] = text[k - Len(w)]
  <2>1. Concats(w \o text, w, text)
    BY <1>2, <1>3, ConcatText
  <2> QED
    BY <1>2, <1>3, <2>1, LenProperties DEF Concats
<1>6. format' = Rest(request.format, j + 1)
  <2>1. format' = Tail(format) /\ format = Rest(request.format, j)
    BY DEF Printf!Out, PrintedUpTo
  <2> QED
    BY <1>1, <2>1, RestOfOne
<1>7. va' = Rest(request.words, b + n)
  <2>1. va' = Rest(va, n) /\ va = Rest(request.words, b)
    BY DEF Printf!Out, PrintedUpTo, Rest, n, b
  <2>2. Len(request.words) \in Nat
    BY <1>1, LenProperties
  <2>3. b \in 0 .. Len(request.words) /\ n \in 0 .. Len(request.words) - b
    BY <1>2, <2>2
  <2> QED
    BY <1>1, <2>1, <2>3, RestOfRest
<1>8. idx = Len(w) /\ idx' = Len(v)
  BY <1>5 DEF Printf!Out, PrintedUpTo, w, text
<1>9. buffer' = [k \in 1 .. count |-> IF request.buffer /\ k <= Len(v) THEN v[k] ELSE "?"]
  <2>1. buffer = [k \in 1 .. count |-> IF request.buffer /\ k <= Len(w) THEN w[k] ELSE "?"]
    BY <1>8 DEF PrintedUpTo, w
  <2>2. buffer' = [k \in DOMAIN buffer |->
                     IF request.buffer /\ k \in Len(w) + 1 .. Len(w) + Len(text)
                       THEN text[k - Len(w)] ELSE buffer[k]]
    BY <1>8 DEF Printf!Out, text
  <2>3. DOMAIN buffer = 1 .. count
    BY <2>1
  <2>4. ASSUME NEW k \in 1 .. count
        PROVE  (IF request.buffer /\ k \in Len(w) + 1 .. Len(w) + Len(text)
                  THEN text[k - Len(w)] ELSE buffer[k])
                 = IF request.buffer /\ k <= Len(v) THEN v[k] ELSE "?"
    <3>1. buffer[k] = IF request.buffer /\ k <= Len(w) THEN w[k] ELSE "?"
      BY <2>1
    <3>2. CASE k <= Len(w)
      <4>1. k \in 1 .. Len(w) /\ k \notin Len(w) + 1 .. Len(w) + Len(text) /\ k <= Len(v)
        BY <1>5, <3>2
      <4> QED
        BY <1>5, <3>1, <4>1
    <3>3. CASE k > Len(w) /\ k <= Len(v)
      <4>1. k \in Len(w) + 1 .. Len(w) + Len(text) /\ ~(k <= Len(w))
        BY <1>5, <3>3
      <4> QED
        BY <1>5, <3>1, <3>3, <4>1
    <3>4. CASE k > Len(v)
      <4>1. k \notin Len(w) + 1 .. Len(w) + Len(text) /\ ~(k <= Len(w)) /\ ~(k <= Len(v))
        BY <1>5, <3>4
      <4> QED
        BY <3>1, <4>1
    <3> QED
      BY <1>5, <3>2, <3>3, <3>4
  <2> QED
    BY <2>2, <2>3, <2>4
<1>10. PrintedUpTo(j + 1)'
  <2>1. format' = Rest(request'.format, j + 1)
    BY <1>4, <1>6
  <2>2. va' = Rest(request'.words, Printf!Before(request')[j + 1])
    BY <1>2, <1>4, <1>7
  <2>3. idx' = Len(WrittenOf(request', j + 1))
    BY <1>4, <1>8 DEF v
  <2>4. buffer' = [k \in 1 .. request'.count |->
                     IF request'.buffer /\ k <= idx' THEN WrittenOf(request', j + 1)[k] ELSE "?"]
    BY <1>4, <1>8, <1>9 DEF v
  <2> QED
    BY <2>1, <2>2, <2>3, <2>4, Zenon DEF PrintedUpTo
<1> QED
  BY <1>4, <1>10

(* The end of a call leaves as much of the text as fits, with its '\0'.    *)
LEMMA TerminatePrints ==
  ASSUME Printf!SnprintfAssumption, request \in PrintCalls, ~Printf!HasPointer(request),
         NEW j \in 0 .. Len(request.format), PrintedUpTo(j), Printf!Terminate
  PROVE  request' = request /\ Printf!Printed(Printf!Expected)'
<1> DEFINE text == WrittenOf(request, j)
           L == Len(text)
           count == request.count
           stop == Printf!Least(L + 1, count)
           last == IF L < count THEN L + 1 ELSE count
<1>1. /\ Len(request.format) \in Nat /\ request.format \in Seq(Printf!Directives)
      /\ count \in Nat
  BY TextsOfCall DEF Printf!SnprintfAssumption
<1>2. request' = request
  BY DEF Printf!Terminate
<1>3. j = Len(request.format)
  <2>1. Rest(request.format, j) = << >>
    BY DEF Printf!Terminate, PrintedUpTo
  <2> QED
    BY <1>1, <2>1, RestOfNone
<1>4. text \in Seq(Glyph) /\ L \in Nat
  <2>1. text \in Seq(Glyph)
    BY Written
  <2> HIDE DEF text
  <2> QED
    BY <2>1, LenProperties
<1>5. text = Printf!FlattenSeq(TextsOf(request))
  BY <1>3, Written
<1> HIDE DEF text, L
<1>6. Printf!Expected' = text
  BY <1>2, <1>5 DEF Printf!Expected, TextsOf
<1>7. idx = L /\ result' = L
  BY DEF PrintedUpTo, Printf!Terminate, text, L
<1>8. buffer = [k \in 1 .. count |-> IF request.buffer /\ k <= L THEN text[k] ELSE "?"]
  BY <1>7 DEF PrintedUpTo, text
<1>9. buffer' = [k \in DOMAIN buffer |-> IF request.buffer /\ k = last THEN Printf!NUL ELSE buffer[k]]
  BY <1>7 DEF Printf!Terminate, Printf!Terminator
<1>10. stop = last
  BY <1>1, <1>4 DEF Printf!Least
<1>11. last <= L + 1 /\ last <= count
  BY <1>1, <1>4
<1> HIDE DEF stop, last
<1>12. buffer' = [k \in DOMAIN buffer' |->
                   CASE ~request.buffer \/ k > stop -> "?"
                     [] request.buffer /\ k < stop  -> text[k]
                     [] request.buffer /\ k = stop  -> Printf!NUL]
  <2>1. DOMAIN buffer = 1 .. count /\ DOMAIN buffer' = 1 .. count
    BY <1>8, <1>9
  <2>2. last \in Int
    BY <1>1, <1>4 DEF last
  <2>3. ASSUME NEW k \in 1 .. count
        PROVE  (IF request.buffer /\ k = last THEN Printf!NUL ELSE buffer[k])
                 = CASE ~request.buffer \/ k > stop -> "?"
                     [] request.buffer /\ k < stop  -> text[k]
                     [] request.buffer /\ k = stop  -> Printf!NUL
    <3>1. buffer[k] = IF request.buffer /\ k <= L THEN text[k] ELSE "?"
      BY <1>8
    <3>2. k < last => k <= L
      BY <1>4, <1>11, <2>2
    <3>3. k > last => ~(k <= L)
      BY <1>1, <1>4 DEF last
    <3>4. k < last \/ k = last \/ k > last
      BY <2>2
    <3>5. /\ k < last => ~(k = last) /\ ~(k > last)
          /\ k = last => ~(k < last) /\ ~(k > last)
          /\ k > last => ~(k < last) /\ ~(k = last)
      BY <2>2
    <3> QED
      BY <1>10, <3>1, <3>2, <3>3, <3>4, <3>5
  <2> QED
    BY <1>9, <2>1, <2>3
<1>13. stop = Printf!Least(Len(Printf!Expected') + 1, request'.count)
  BY <1>2, <1>6, Zenon DEF stop, count, L
<1>14. result' = Len(Printf!Expected')
  BY <1>6, <1>7, Zenon DEF L
<1>15. Printf!Printed(Printf!Expected)'
  <2> DEFINE expected == Printf!Expected'
  <2>1. expected = text
    BY <1>6
  <2> HIDE DEF expected
  <2>2. result' = Len(expected) /\ stop = Printf!Least(Len(expected) + 1, request'.count)
    BY <1>13, <1>14 DEF expected
  <2>3. buffer' = [k \in DOMAIN buffer' |->
                    CASE ~request'.buffer \/ k > stop -> "?"
                      [] request'.buffer /\ k < stop  -> expected[k]
                      [] request'.buffer /\ k = stop  -> Printf!NUL]
    BY <1>2, <1>12, <2>1
  <2> QED
    BY <2>2, <2>3 DEF Printf!Printed, expected
<1> QED
  BY <1>2, <1>15

(* Every step of the library keeps what has been printed right. *)
LEMMA NextPrintings ==
  Printf!SnprintfAssumption /\ Printings /\ [LibraryNext]_libraryVars => Printings'
<1> SUFFICES ASSUME Printf!SnprintfAssumption, Printings, [LibraryNext]_libraryVars, library' = "print"
             PROVE  Printings'
  BY DEF Printings
<1>1. library = "print"
  BY DEF LibraryNext, libraryVars
<1>2. request \in PrintCalls /\ Printf!FormatRight
  BY <1>1 DEF Printings
<1>3. ASSUME request' = request,
             place' = "loop" /\ ~Printf!HasPointer(request) =>
               \E j \in 0 .. Len(request.format) : PrintedUpTo(j)',
             Printf!FormatRight'
      PROVE  Printings'
  <2>1. place' = "loop" /\ ~Printf!HasPointer(request') =>
          \E j \in 0 .. Len(request'.format) : PrintedUpTo(j)'
    BY <1>3
  <2>2. request' \in PrintCalls
    BY <1>2, <1>3
  <2> QED
    BY <1>3, <2>1, <2>2, Zenon DEF Printings
<1>4. CASE Printf!Next
  <2>1. request' = request
    BY <1>4 DEF Printf!Next, Printf!OutNumber, Printf!OutChar, Printf!OutString, Printf!OutPointer,
                Printf!OutPlain, Printf!Terminate, Printf!Out
  <2>2. CASE Printf!HasPointer(request)
    <3>1. Printf!FormatRight'
      BY <2>1, <2>2 DEF Printf!FormatRight
    <3> QED
      BY <1>3, <2>1, <2>2, <3>1
  <2>3. CASE ~Printf!HasPointer(request) /\ format # << >>
    <3>1. place = "loop"
      BY <1>4, <2>3 DEF Printf!Next, Printf!OutNumber, Printf!OutChar, Printf!OutString,
                        Printf!OutPointer, Printf!OutPlain, Printf!Conversion, Printf!Terminate
    <3>2. PICK j \in 0 .. Len(request.format) : PrintedUpTo(j)
      BY <1>1, <2>3, <3>1 DEF Printings
    <3>3. Len(request.format) \in Nat /\ request.format \in Seq(Printf!Directives)
      BY <1>2, <2>3, TextsOfCall
    <3>4. j \in 0 .. Len(request.format) - 1 /\ j + 1 \in 0 .. Len(request.format)
      <4>1. j # Len(request.format)
        BY <2>3, <3>2, <3>3, RestOfNone DEF PrintedUpTo
      <4> QED
        BY <3>3, <4>1
    <3>5. Head(format) = request.format[j + 1]
      BY <3>2, <3>3, <3>4, RestOfOne DEF PrintedUpTo
    <3>6. \E k \in DOMAIN request.format : Head(format) = request.format[k]
      <4>1. j + 1 \in DOMAIN request.format
        BY <3>3, <3>4
      <4> QED
        BY <3>5, <4>1
    <3>7. Printf!Out(Printing(Head(format), va), Printf!Arguments(Head(format)))
      BY <1>4, <2>3, <3>6, StepPrints
    <3>8. Printing(Head(format), va) = TextsOf(request)[j + 1]
      <4>1. va = Rest(request.words, Printf!Before(request)[j])
        BY <3>2 DEF PrintedUpTo
      <4> QED
        BY <1>2, <2>3, <3>4, <3>5, <4>1, DirectiveOfCall
    <3>9. Printf!Out(TextsOf(request)[j + 1], Printf!Arguments(request.format[j + 1]))
      BY <3>5, <3>7, <3>8, Zenon
    <3>10. PrintedUpTo(j + 1)'
      BY <1>2, <2>3, <3>2, <3>4, <3>9, OutPrints
    <3>11. place' = place
      BY <3>9 DEF Printf!Out
    <3>12. Printf!FormatRight'
      BY <3>1, <3>11 DEF Printf!FormatRight
    <3> QED
      BY <1>3, <2>1, <3>4, <3>10, <3>12
  <2>4. CASE ~Printf!HasPointer(request) /\ format = << >>
    <3>1. Printf!Terminate
      <4>1. ~Printf!OutNumber /\ ~Printf!OutChar /\ ~Printf!OutString /\ ~Printf!OutPointer /\ ~Printf!OutPlain
        BY <2>4 DEF Printf!OutNumber, Printf!OutChar, Printf!OutString, Printf!OutPointer,
                    Printf!OutPlain, Printf!Conversion
      <4> QED
        BY <1>4, <4>1 DEF Printf!Next
    <3>2. place = "loop" /\ place' = "returned"
      BY <3>1 DEF Printf!Terminate
    <3>3. PICK j \in 0 .. Len(request.format) : PrintedUpTo(j)
      BY <1>1, <2>4, <3>2 DEF Printings
    <3>4. Printf!Printed(Printf!Expected)'
      BY <1>2, <2>4, <3>1, <3>3, TerminatePrints
    <3>5. Printf!FormatRight'
      BY <3>4 DEF Printf!FormatRight
    <3>6. place' = "loop" /\ ~Printf!HasPointer(request) =>
            \E k \in 0 .. Len(request.format) : PrintedUpTo(k)'
      BY <3>2
    <3> QED
      BY <1>3, <2>1, <3>5, <3>6
  <2> QED
    BY <2>2, <2>3, <2>4
<1>5. CASE UNCHANGED <<printVars, place, result>>
  <2>1. /\ request' = request /\ format' = format /\ va' = va
        /\ buffer' = buffer /\ idx' = idx /\ place' = place /\ result' = result
    BY <1>5 DEF printVars
  <2>2. ASSUME NEW j \in 0 .. Len(request.format), PrintedUpTo(j)
        PROVE  PrintedUpTo(j)'
    BY <2>1, <2>2 DEF PrintedUpTo
  <2>3. place' = "loop" /\ ~Printf!HasPointer(request) =>
          \E j \in 0 .. Len(request.format) : PrintedUpTo(j)'
    <3> SUFFICES ASSUME place = "loop", ~Printf!HasPointer(request)
                 PROVE  \E j \in 0 .. Len(request.format) : PrintedUpTo(j)'
      BY <2>1
    <3>1. PICK j \in 0 .. Len(request.format) : PrintedUpTo(j)
      BY <1>1 DEF Printings
    <3> QED
      BY <2>2, <3>1
  <2>4. Printf!FormatRight'
    BY <1>2, <2>1 DEF Printf!FormatRight, Printf!Printed, Printf!Expected
  <2> QED
    BY <1>3, <2>1, <2>3, <2>4
<1> QED
  BY <1>1, <1>4, <1>5 DEF LibraryNext, libraryVars

(* Every call of snprintf that has no pointer to print prints what the C   *)
(* standard says, cut where the buffer ends: for every width, precision    *)
(* and argument, any number of directives, and any sizes of the types.     *)
THEOREM FormatsRight == LibrarySpec => []FormatRight
<1>1. LibraryInit => Printings
  BY InitPrintings, LibraryAssumption
<1>2. Printings /\ [LibraryNext]_libraryVars => Printings'
  BY NextPrintings, LibraryAssumption
<1>3. Printings => FormatRight
  BY DEF Printings, FormatRight
<1> QED
  BY <1>1, <1>2, <1>3, PTL DEF LibrarySpec
=============================================================================
