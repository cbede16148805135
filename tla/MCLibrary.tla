----------------------------- MODULE MCLibrary -----------------------------
(* Instances of the libraries for TLC. *)
EXTENDS Library, FiniteSets

-----------------------------------------------------------------------------
(* lib/string.c: every block in a memory of six chars, and two strings of  *)
(* up to two chars, on both sides of 127, at 0 and at 3.  Copies are those *)
(* of CopyAssumption.                                                      *)
Requests(fns, mems, dests, srcs, nums) ==
  [fn : fns, mem : mems, dest : dests, src : srcs, num : nums]

Lies(c) ==
  /\ c.dest + c.num <= Size
  /\ c.fn # "memset" => c.src + c.num <= Size
  /\ c.fn = "memcpy" => c.dest + c.num <= c.src \/ c.src + c.num <= c.dest

Pattern == [a \in 0 .. 5 |-> a + 1]
Memory == [0 .. 5 -> {0, 65, 200}]
Strings == {m \in Memory : m[2] = 0 /\ m[5] = 0}

StringCalls ==
  {c \in Requests({"memcpy", "memmove", "memset"}, {Pattern}, 0 .. 5, 0 .. 5, 0 .. 6) : Lies(c)}
    \cup Requests({"memset"}, {Pattern}, {1}, {256 + 7}, {4})
    \cup {c \in Requests({"strcpy", "strncpy"}, Strings, {3}, {0}, 2 .. 4) :
            To(c) + Chars(c) <= Size}
    \cup {c \in Requests({"strcat", "strncat"}, Strings, {3}, {0}, 2 .. 4) :
            c.mem[3] = 0 /\ To(c) + Chars(c) <= Size}
    \cup Requests({"strcmp", "strncmp"}, Strings, {3}, {0}, 1 .. 4)
    \cup Requests({"memcmp"}, Memory, {3}, {0}, 0 .. 3)

ASSUME CopyAssumption

-----------------------------------------------------------------------------
(* fs/tarfs.c: archives of up to three files, of no byte, a full block, or *)
(* a byte more, made of blocks that look like headers or do not.           *)
FileNames == {"a", "b"}
FileSizes == {<<0>>, <<1, 0, 0, 0>>, <<1, 0, 0, 1>>}

TarArchives ==
  UNION {[1 .. n -> [name : FileNames, size : FileSizes]] : n \in 0 .. 3}

BlocksOfData ==
  {[ustar |-> TRUE, name |-> "b", size |-> <<1, 0, 0, 0>>],
   [ustar |-> FALSE, name |-> "a", size |-> <<0>>]}

-----------------------------------------------------------------------------
(* lib/snprintf.c.                                                         *)
None == -1
Star == -2

Directive(flags, width, precision, length, conv) ==
  [flags |-> flags, width |-> width, precision |-> precision, length |-> length,
   conv |-> conv, plain |-> FALSE]
Text(c) == [Directive({}, None, None, "", c) EXCEPT !.plain = TRUE]
Plain(conv) == Directive({}, None, None, "", conv)

Num(n) == <<"num", n>>
Hello == <<"str", <<"H", "i">>>>

snprintf(count, directives, words) ==
  [count |-> count, buffer |-> TRUE, format |-> directives, words |-> words]

(* Every way to print a number.  "%#b" is not of the C standard.           *)
Numbers ==
  {snprintf(14, <<Directive(f, w, p, "", c)>>, <<Num(n)>>) :
     f \in SUBSET {"0", "-", "+", " ", "#"}, w \in {None, 1, 6}, p \in {None, 0, 4},
     c \in {"d", "u", "x", "X", "o"}, n \in {0, 7, 300, -300}}

Widths ==
  {snprintf(30, <<Directive({}, None, None, l, c)>>, <<Num(n)>>) :
     l \in {"", "h", "hh", "l"}, c \in {"d", "i", "u", "x", "b"},
     n \in {-(2 ^ 23), 2 ^ 23 - 1, -1, 128, 65535}}

Characters ==
  {snprintf(9, <<Directive(f, w, p, "", c[1])>>, <<c[2]>>) :
     f \in SUBSET {"-"}, w \in {None, 1, 7}, p \in {None, 0, 1, 9},
     c \in {<<"s", Hello>>, <<"s", Num(0)>>, <<"s", <<"str", << >>>>>>, <<"c", <<"chr", "x">>>>}}

(* Stars take words; a buffer of any size, or none, cuts the text.         *)
Mixed ==
  {snprintf(n, <<Text("="), Directive({}, Star, None, "", "s"), Plain("%"),
             Directive({}, Star, Star, "", "d"), Plain("y"), Plain("c")>>,
        <<Num(w), Hello, Num(5), Num(p), Num(-20), <<"chr", "z">>>>) :
     n \in 0 .. 17, w \in {-4, 0, 3}, p \in {0, 3}}
    \cup {[snprintf(0, <<Text("t"), Plain("u")>>, <<Num(12)>>) EXCEPT !.buffer = FALSE]}
    \cup {snprintf(12, <<Plain("p"), Plain("d")>>, <<Num(0), Num(3)>>)}

(* handle_trap with esp = 4096 and nr = 3, the breakpoint; what the stack  *)
(* holds behind the arguments is 99.                                       *)
ExceptionMessages ==
  {snprintf(40, <<Plain("s"), Text("e"), Plain("p"), Text("n"), Plain("u")>>,
        <<Hello, Num(4096), Num(3), Num(99)>>)}

SnprintfCalls == Numbers \cup Widths \cup Characters \cup Mixed \cup ExceptionMessages
=============================================================================
