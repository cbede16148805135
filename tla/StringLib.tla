----------------------------- MODULE StringLib -----------------------------
(***************************************************************************)
(* The string library of the kernel (lib/string.c): a call of one of its   *)
(* functions, an iteration of the function's loop at a time, on a memory   *)
(* of chars where source and destination may lie anywhere, or overlap.     *)
(***************************************************************************)
EXTENDS Integers

CONSTANTS
  Size,       (* Of the memory.                                            *)
  SIZE_MAX,   (* The largest size_t.                                       *)
  Calls       (* The calls: function, memory and arguments.                *)

Addr == 0 .. Size - 1

(* A char, seen as unsigned. *)
Char == 0 .. 255

Block == {"memcpy", "memmove", "memset"}
Copying == {"strcpy", "strncpy", "strcat", "strncat"}
Comparing == {"memcmp", "strcmp", "strncmp"}

Call == [fn : Block \cup Copying \cup Comparing, mem : [Addr -> Char],
         dest : Nat, src : Nat, num : Nat]

(* Is there a string at p? *)
Terminated(m, p) == \E n \in Addr : p + n < Size /\ m[p + n] = 0

(* Blocks lie in the memory, and those of memcpy, whose pointers are       *)
(* restrict, apart.  Strings have their '\0'.                              *)
StringAssumption ==
  /\ Size \in Nat
  /\ SIZE_MAX \in Nat
  /\ Calls \subseteq Call
  /\ \A c \in Calls :
       /\ c.fn \in Block \cup {"memcmp"} => c.dest + c.num <= Size
       /\ c.fn \in {"memcpy", "memmove", "memcmp"} => c.src + c.num <= Size
       /\ c.fn = "memcpy" => c.dest + c.num <= c.src \/ c.src + c.num <= c.dest
       /\ c.fn \in Copying \cup {"strcmp", "strncmp"} => Terminated(c.mem, c.src)
       /\ c.fn \in {"strcat", "strncat", "strcmp", "strncmp"} => Terminated(c.mem, c.dest)

VARIABLES
  call,     (* The call: the second argument of memset is its src.         *)
  mem,      (* The memory.                                                 *)
  pc,       (* "strlen" and "loop", or "broken" out of it, and "returned". *)
  d, s,     (* The pointers that the string functions move.                *)
  i,        (* Their counters; the variable len of strlen.                 *)
  ch,       (* The character a string function copied last.                *)
  ret       (* What the call has returned.                                 *)

vars == <<call, mem, pc, d, s, i, ch, ret>>

(* Mistake: memmove copies upwards, whatever the addresses. *)
Downwards_never(c) == FALSE

(* memmove to a higher address copies the last char first. *)
Downwards(c) == c.fn = "memmove" /\ c.dest > c.src

Start(c) ==
  /\ mem = c.mem
  /\ pc = IF c.fn \in {"strcat", "strncat"} THEN "strlen" ELSE "loop"
  /\ d = c.dest
  /\ s = c.src
  /\ i = IF Downwards(c) THEN c.num ELSE 0
  /\ ch = 0
  /\ ret = 0

Init == call \in Calls /\ Start(call)

Return(value) == pc' = "returned" /\ ret' = value

-----------------------------------------------------------------------------
(* memcpy, memmove and memset. *)

Upwards ==
  \/ call.fn = "memcpy"
  \/ call.fn = "memmove" /\ call.dest # call.src /\ ~Downwards(call)

CopyUp ==
  /\ pc = "loop"
  /\ Upwards
  /\ i < call.num
  /\ mem' = [mem EXCEPT ![call.dest + i] = mem[call.src + i]]
  /\ i' = i + 1
  /\ UNCHANGED <<call, pc, d, s, ch, ret>>

CopyDown ==
  /\ pc = "loop"
  /\ Downwards(call)
  /\ i # 0
  /\ mem' = [mem EXCEPT ![call.dest + i - 1] = mem[call.src + i - 1]]
  /\ i' = i - 1
  /\ UNCHANGED <<call, pc, d, s, ch, ret>>

Fill ==
  /\ pc = "loop"
  /\ call.fn = "memset"
  /\ i < call.num
  /\ mem' = [mem EXCEPT ![call.dest + i] = call.src % 256]
  /\ i' = i + 1
  /\ UNCHANGED <<call, pc, d, s, ch, ret>>

BlockEnd ==
  /\ pc = "loop"
  /\ call.fn \in Block
  /\ IF Downwards(call) THEN i = 0
     ELSE (call.fn = "memmove" /\ call.dest = call.src) \/ i >= call.num
  /\ Return(call.dest)
  /\ UNCHANGED <<call, mem, d, s, i, ch>>

-----------------------------------------------------------------------------
(* The string functions. *)

(* strlen, which never moves its pointer: its loop ends at once or never.  *)
Strlen ==
  /\ pc = "strlen"
  /\ IF mem[d] # 0
       THEN i' = (i + 1) % (SIZE_MAX + 1) /\ UNCHANGED <<pc, d>>
       ELSE pc' = "loop" /\ d' = d + i /\ i' = 0
  /\ UNCHANGED <<call, mem, s, ch, ret>>

(* *dest++ = ch = *src++. *)
CopyChar ==
  /\ ch' = mem[s]
  /\ mem' = [mem EXCEPT ![d] = mem[s]]
  /\ s' = s + 1
  /\ d' = d + 1

(* strcpy and the call of it in strcat. *)
CopyString ==
  /\ pc = "loop"
  /\ call.fn \in {"strcpy", "strcat"}
  /\ CopyChar
  /\ IF ch' = 0 THEN Return(d') ELSE UNCHANGED <<pc, ret>>
  /\ UNCHANGED <<call, i>>

(* Mistake: room for the '\0' is not kept. *)
Room_for_chars == call.num

(* num - 1, in the arithmetic of size_t. *)
Room == IF call.num = 0 THEN SIZE_MAX ELSE call.num - 1

(* strncpy and the call of it in strncat. *)
CopyAtMost ==
  /\ pc = "loop"
  /\ call.fn \in {"strncpy", "strncat"}
  /\ i < Room
  /\ CopyChar
  /\ pc' = IF ch' = 0 THEN "broken" ELSE "loop"
  /\ i' = i + 1
  /\ UNCHANGED <<call, ret>>

(* Only a string that was cut off still needs its '\0'. *)
AtMostEnd ==
  /\ call.fn \in {"strncpy", "strncat"}
  /\ pc = "broken" \/ (pc = "loop" /\ i >= Room)
  /\ IF ch # 0
       THEN mem' = [mem EXCEPT ![d] = 0] /\ Return(d + 1)
       ELSE Return(d) /\ UNCHANGED mem
  /\ UNCHANGED <<call, d, s, i, ch>>

-----------------------------------------------------------------------------
(* memcmp, strcmp and strncmp: the arguments are dest and src. *)

(* Mistake: chars are compared as signed. *)
Value_signed(c) == IF c > 127 THEN c - 256 ELSE c

(* Chars are compared as unsigned. *)
Value(c) == c

Counted == call.fn \in {"memcmp", "strncmp"}

Compare ==
  /\ pc = "loop"
  /\ call.fn \in Comparing
  /\ Counted => i < call.num
  /\ LET diff == Value(mem[call.dest + i]) - Value(mem[call.src + i]) IN
       IF diff # 0 \/ (call.fn # "memcmp" /\ mem[call.dest + i] = 0)
         THEN Return(diff) /\ UNCHANGED i
         ELSE i' = i + 1 /\ UNCHANGED <<pc, ret>>
  /\ UNCHANGED <<call, mem, d, s, ch>>

CompareEnd ==
  /\ pc = "loop"
  /\ Counted
  /\ i >= call.num
  /\ Return(0)
  /\ UNCHANGED <<call, mem, d, s, i, ch>>

-----------------------------------------------------------------------------
Next ==
  \/ CopyUp \/ CopyDown \/ Fill \/ BlockEnd
  \/ Strlen \/ CopyString \/ CopyAtMost \/ AtMostEnd
  \/ Compare \/ CompareEnd

Spec == Init /\ [][Next]_vars

-----------------------------------------------------------------------------
(* The memory m after src .. src + n - 1 has been copied to dest. *)
Copied(m, dest, src, n) ==
  [a \in Addr |-> IF a \in dest .. dest + n - 1 THEN m[src + (a - dest)] ELSE m[a]]

(* A block arrives as it was before the call, also in a place it overlaps, *)
(* and nothing else changes.                                               *)
BlocksRight ==
  pc = "returned" /\ call.fn \in Block =>
    /\ ret = call.dest
    /\ call.fn # "memset" => mem = Copied(call.mem, call.dest, call.src, call.num)
    /\ call.fn = "memset" =>
         mem = [a \in Addr |-> IF a \in call.dest .. call.dest + call.num - 1
                                 THEN call.src % 256 ELSE call.mem[a]]

(* The first n such that m[p + n] is '\0'. *)
Length(m, p) ==
  CHOOSE n \in 0 .. Size - p - 1 : m[p + n] = 0 /\ \A k \in 0 .. n - 1 : m[p + k] # 0

(* Where a copy goes, and how many chars it takes with its '\0'. *)
To(c) == c.dest + (IF c.fn \in {"strcat", "strncat"} THEN Length(c.mem, c.dest) ELSE 0)

Whole(c) == c.fn \in {"strcpy", "strcat"} \/ c.num > Length(c.mem, c.src)

Chars(c) == IF Whole(c) THEN Length(c.mem, c.src) + 1 ELSE c.num

(* The copies that are defined in C and come to an end: there is room, and *)
(* the pointers, which are restrict, lead to places apart; num is enough   *)
(* for a char and its '\0'; and what is appended to is an empty string,    *)
(* because strlen does not return from another one.                        *)
CopyAssumption ==
  \A c \in Calls : c.fn \in Copying =>
    /\ To(c) + Chars(c) <= Size
    /\ To(c) + Chars(c) <= c.src \/ c.src + Chars(c) <= To(c)
    /\ c.fn \in {"strncpy", "strncat"} => c.num > 1
    /\ c.fn \in {"strcat", "strncat"} => c.mem[c.dest] = 0

(* A string is copied to the place asked for, or as much of it as fits     *)
(* into num chars with its '\0', and nothing else changes.  The pointer    *)
(* that is returned is not the subject.                                    *)
StringsRight ==
  pc = "returned" /\ call.fn \in Copying =>
    LET m == call.mem IN
      IF Whole(call) THEN mem = Copied(m, To(call), call.src, Chars(call))
      ELSE mem = [Copied(m, To(call), call.src, call.num - 1)
                    EXCEPT ![To(call) + call.num - 1] = 0]

(* A comparison has the sign of the first difference, between unsigned     *)
(* chars, and none is found behind the end of a string or of num chars.    *)
ComparesRight ==
  pc = "returned" /\ call.fn \in Comparing =>
    LET m == call.mem
        c1(k) == m[call.dest + k]
        c2(k) == m[call.src + k]
        goes_on(k) ==
          /\ Counted => k < call.num
          /\ \A l \in 0 .. k - 1 : c1(l) = c2(l) /\ (call.fn # "memcmp" => c1(l) # 0)
        first == {k \in Addr : goes_on(k) /\ c1(k) # c2(k)}
    IN  /\ mem = m
        /\ ret = 0 <=> first = {}
        /\ \A k \in first : ret < 0 <=> c1(k) < c2(k)
=============================================================================
