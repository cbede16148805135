------------------------------ MODULE Snprintf ------------------------------
(***************************************************************************)
(* Formatted output (lib/snprintf.c): _vsnprintf, which takes a format     *)
(* apart directive by directive and puts the characters of each into the   *)
(* caller's buffer.  Floating point conversions, which the kernel has no   *)
(* use for, and the long long ones, which take two words, are left out.    *)
(*                                                                         *)
(* A format is a sequence of directives; plain text is one of a character. *)
(* A character is a string.                                                *)
(***************************************************************************)
EXTENDS Integers, Sequences, SequencesExt

CONSTANTS
  PRINTF_NTOA_BUFFER_SIZE,   (* The room for a number with its zeros.      *)
  CharValues, ShortValues,   (* How many values the types have.            *)
  IntValues,                 (* Also long and pointers.                    *)
  PointerSize,               (* The chars of a pointer.                    *)
  Calls                      (* The calls of snprintf: size, format, words *)
                             (* and whether there is a buffer.             *)

(* What the width or the precision is when it is missing, or '*'.          *)
None == -1
Star == -2

Base == [d |-> 10, i |-> 10, u |-> 10, x |-> 16, X |-> 16, o |-> 8, b |-> 2]
Number == DOMAIN Base
SignedNumber == {"d", "i"}

(* A directive %[flags][width][.precision][length]conv, or plain text.     *)
Flag == {"0", "-", "+", " ", "#"}
Directive(flags, width, precision, length, conv) ==
  [flags |-> flags, width |-> width, precision |-> precision, length |-> length,
   conv |-> conv, plain |-> FALSE]
Text(c) == [Directive({}, None, None, "", c) EXCEPT !.plain = TRUE]

(* A word of the variable arguments: a number, a character or a string. *)
Num(n) == <<"num", n>>
Chr(c) == <<"chr", c>>
Str(s) == <<"str", s>>
NULL == Num(0)

VARIABLES
  call,       (* The call.                                                 *)
  format,     (* The directives that are left.                             *)
  va,         (* The words that are left.                                  *)
  buffer,     (* The caller's buffer.                                      *)
  idx,        (* How many characters have been put out.                    *)
  pc,
  rv          (* What the call has returned.                               *)

vars == <<call, format, va, buffer, idx, pc, rv>>

NUL == "\\0"

(* What a buffer holds before the call. *)
Old(count) == [k \in 1 .. count |-> "?"]

Init ==
  /\ call \in Calls
  /\ format = call.format
  /\ va = call.words
  /\ buffer = Old(call.count)
  /\ idx = 0
  /\ pc = "loop"
  /\ rv = 0

-----------------------------------------------------------------------------
Repeat(c, n) == [k \in 1 .. n |-> c]

Least(m, n) == IF m < n THEN m ELSE n

(* How many characters are missing from n to the width. *)
Padding(n, width) == IF n < width THEN width - n ELSE 0

(* buf, filled up with zeros to n characters, as far as there is room. *)
Zeros(buf, n) == buf \o Repeat("0", Padding(Len(buf), Least(n, PRINTF_NTOA_BUFFER_SIZE)))

Put(buf, c) == IF Len(buf) < PRINTF_NTOA_BUFFER_SIZE THEN Append(buf, c) ELSE buf

(* The text of a buffer that holds it backwards, and its padding. *)
_out_rev(buf, width, flags) ==
  LET spaces == Repeat(" ", Padding(Len(buf), width)) IN
  IF "-" \in flags THEN Reverse(buf) \o spaces
  ELSE IF "0" \in flags THEN Reverse(buf)
  ELSE spaces \o Reverse(buf)

DigitNames == <<"0", "1", "2", "3", "4", "5", "6", "7", "8", "9", "a", "b", "c", "d", "e", "f">>
UpperNames == <<"0", "1", "2", "3", "4", "5", "6", "7", "8", "9", "A", "B", "C", "D", "E", "F">>

(* Zeros give way to the prefix, when the width or the precision has put   *)
(* all of them there.                                                      *)
Taken(spare, len, base, precision, width, flags) ==
  IF "." \notin flags /\ len > 0 /\ (len = precision \/ len = width)
    THEN Least(spare, IF base = 16 THEN 2 ELSE 1)
    ELSE 0

(* Zeros, prefix and sign behind the digits, the last of which comes first. *)
_ntoa_format(digits, negative, base, precision, width, flags) ==
  LET signed   == negative \/ flags \cap {"+", " "} # {}
      zeropad  == {"-", "0"} \cap flags = {"0"}
      inner    == IF zeropad /\ width > 0 /\ signed THEN width - 1 ELSE width
      padded   == Zeros(IF zeropad THEN Zeros(digits, inner) ELSE digits, precision)
      spare    == Len(padded) - Len(digits)
      hash     == "p" \in flags \/ ("#" \in flags /\ ~(base = 8 /\ spare > 0))
      cut      == SubSeq(padded, 1,
                    Len(padded) - Taken(spare, Len(padded), base, precision, inner, flags))
      letter   == CASE base = 16 -> Put(cut, IF "X" \in flags THEN "X" ELSE "x")
                    [] base = 2  -> Put(cut, "b")
                    [] OTHER     -> cut
      prefixed == IF hash THEN Put(letter, "0") ELSE padded
      sign     == IF negative THEN Put(prefixed, "-")
                  ELSE IF "+" \in flags THEN Put(prefixed, "+")
                  ELSE IF " " \in flags THEN Put(prefixed, " ")
                  ELSE prefixed
  IN  _out_rev(sign, inner, flags)

(* What is left of the value after k iterations of the loop over digits. *)
Quotients(value, base) ==
  LET left[k \in 0 .. PRINTF_NTOA_BUFFER_SIZE] ==
        IF k = 0 THEN value ELSE left[k - 1] \div base
  IN  left

(* How many iterations there are. *)
Iterations(value, base) ==
  CHOOSE k \in 1 .. PRINTF_NTOA_BUFFER_SIZE :
    /\ k = PRINTF_NTOA_BUFFER_SIZE \/ Quotients(value, base)[k] = 0
    /\ \A j \in 1 .. k - 1 : Quotients(value, base)[j] # 0

Digits(value, base, names) ==
  [k \in 1 .. Iterations(value, base) |-> names[(Quotients(value, base)[k - 1] % base) + 1]]

(* A number in a base.  Zero has no prefix; if there is a precision, it    *)
(* has no digits but those of the precision.                               *)
_ntoa(value, negative, base, precision, width, flags) ==
  LET digits == Digits(value, base, IF "X" \in flags THEN UpperNames ELSE DigitNames)
  IN  IF value = 0 /\ "." \in flags
        THEN _ntoa_format(<< >>, negative, base, precision, width,
                          IF base = 16 THEN flags \ {"#"} ELSE flags)
        ELSE _ntoa_format(digits, negative, base, precision, width,
                          IF value = 0 THEN flags \ {"#"} ELSE flags)

-----------------------------------------------------------------------------
(* Does the conversion of a directive take a word? *)
Argument(dir) == ~dir.plain /\ dir.conv \in Number \cup {"c", "s", "p"}

(* What a directive says of its conversion; '*' takes a word.              *)
Words(dir) == (IF dir.width = Star THEN 1 ELSE 0) + (IF dir.precision = Star THEN 1 ELSE 0)

StarWidth(dir, words) == dir.width = Star /\ words[1][2] < 0

Width(dir, words) ==
  CASE dir.width = None      -> 0
    [] dir.width = Star      -> IF StarWidth(dir, words) THEN -words[1][2] ELSE words[1][2]
    [] OTHER                 -> dir.width

Precision(dir, words) ==
  CASE dir.precision = None -> 0
    [] dir.precision = Star -> IF words[Words(dir)][2] > 0 THEN words[Words(dir)][2] ELSE 0
    [] OTHER                -> dir.precision

(* The '.' stands for FLAGS_PRECISION. *)
Flags(dir, words) ==
  dir.flags \cup (IF StarWidth(dir, words) THEN {"-"} ELSE {})
            \cup (IF dir.precision # None THEN {"."} ELSE {})

(* The casts of an argument: to the type that the length says. *)
Values(length) ==
  CASE length = "hh" -> CharValues [] length = "h" -> ShortValues [] OTHER -> IntValues

Unsigned(n, values) == n % values

Signed(n, values) ==
  LET u == Unsigned(n, values) IN IF u >= values \div 2 THEN u - values ELSE u

(* The text of a number.  'X' and 'p' are FLAGS_UPPERCASE, FLAGS_POINTER.  *)
Integer(dir, words) ==
  LET given == Flags(dir, words)
      word  == words[Words(dir) + 1][2]
      value == IF dir.conv \in SignedNumber THEN Signed(word, Values(dir.length))
                                            ELSE Unsigned(word, Values(dir.length))
      void  == (IF Base[dir.conv] = 10 THEN {"#"} ELSE {})
                 \cup (IF dir.conv \notin SignedNumber THEN {"+", " "} ELSE {})
                 \cup (IF "." \in given THEN {"0"} ELSE {})
      flags == (given \ void) \cup ({dir.conv} \cap {"X"})
  IN  _ntoa(IF value < 0 THEN -value ELSE value, value < 0, Base[dir.conv],
            Precision(dir, words), Width(dir, words), flags)

(* The padding of characters and strings, with blanks on either side. *)
Padded(text, dir, words) ==
  LET spaces == Repeat(" ", Padding(Len(text), Width(dir, words))) IN
  IF "-" \in Flags(dir, words) THEN text \o spaces ELSE spaces \o text

(* As much of a string as the precision says. *)
Shown(dir, words, s) ==
  IF "." \in Flags(dir, words) THEN SubSeq(s, 1, Least(Len(s), Precision(dir, words))) ELSE s

String(dir, words) ==
  LET p == words[Words(dir) + 1] IN
  IF p = NULL
    THEN _out_rev(<<")", "l", "l", "u", "n", "(">>, Width(dir, words), Flags(dir, words))
    ELSE Padded(Shown(dir, words, p[2]), dir, words)

(* A pointer, of which a word is tested against NULL and the next printed. *)
Pointer(dir, words) ==
  LET width == 2 * PointerSize + 2
      flags == Flags(dir, words) \cup {"0", "p"}
      n     == Words(dir)
  IN  IF words[n + 1] = NULL
        THEN _out_rev(<<")", "l", "i", "n", "(">>, width, flags)
        ELSE _ntoa(Unsigned(words[n + 2][2], IntValues), FALSE, 16, Precision(dir, words), width, flags)

-----------------------------------------------------------------------------
(* out = _out_buffer or _out_null, character by character, for a directive *)
(* that takes n words.                                                     *)
Out(text, n) ==
  /\ buffer' = [k \in DOMAIN buffer |->
                 IF call.buffer /\ k \in idx + 1 .. idx + Len(text)
                   THEN text[k - idx] ELSE buffer[k]]
  /\ idx' = idx + Len(text)
  /\ va' = SubSeq(va, n + 1, Len(va))
  /\ format' = Tail(format)
  /\ UNCHANGED <<call, pc, rv>>

directive == Head(format)

Conversion(convs) ==
  pc = "loop" /\ format # << >> /\ ~directive.plain /\ directive.conv \in convs

OutNumber ==
  Conversion(Number) /\ Out(Integer(directive, va), Words(directive) + 1)

OutChar ==
  /\ Conversion({"c"})
  /\ Out(Padded(<<va[Words(directive) + 1][2]>>, directive, va), Words(directive) + 1)

OutString ==
  Conversion({"s"}) /\ Out(String(directive, va), Words(directive) + 1)

OutPointer ==
  /\ Conversion({"p"})
  /\ Out(Pointer(directive, va),
         Words(directive) + (IF va[Words(directive) + 1] = NULL THEN 1 ELSE 2))

(* Plain text, "%%", and a conversion that there is not. *)
OutPlain ==
  /\ pc = "loop"
  /\ format # << >>
  /\ ~Argument(directive)
  /\ Out(<<directive.conv>>, Words(directive))

(* Mistake: the '\0' goes behind the text, if there is room for it. *)
Terminator_behind == idx + 1

(* Where the '\0' goes: the last place of the buffer, if the text fills it. *)
Terminator == IF idx < call.count THEN idx + 1 ELSE call.count

(* With no place at all the '\0' is put out at maxlen - 1 = SIZE_MAX.      *)
Terminate ==
  /\ pc = "loop"
  /\ format = << >>
  /\ buffer' = [k \in DOMAIN buffer |-> IF call.buffer /\ k = Terminator THEN NUL ELSE buffer[k]]
  /\ pc' = "returned"
  /\ rv' = idx
  /\ UNCHANGED <<call, format, va, idx>>

Next == OutNumber \/ OutChar \/ OutString \/ OutPointer \/ OutPlain \/ Terminate

Spec == Init /\ [][Next]_vars

-----------------------------------------------------------------------------
(* What a directive prints, as the C standard has it, told from the front  *)
(* of the text, where the code builds it from the back.                    *)

(* The digits of a number that is not zero, the first digit first.         *)
Numeral(n, base) ==
  LET digits[k \in 0 .. n] ==
        IF k = 0 THEN << >> ELSE Append(digits[k \div base], k % base) IN
  digits[n]

Larger(m, n) == IF m > n THEN m ELSE n

(* Is there a precision?  One below 0 counts as none. *)
Precise(dir, words) ==
  dir.precision # None /\ (dir.precision = Star => words[Words(dir)][2] >= 0)

(* A number with its sign, prefix and zeros.  '#' gives an octal number a  *)
(* zero in front.                                                          *)
NumberText(dir, words) ==
  LET n       == words[Words(dir) + 1][2]
      signed  == dir.conv \in SignedNumber
      value   == IF signed THEN Signed(n, Values(dir.length)) ELSE Unsigned(n, Values(dir.length))
      flags   == Flags(dir, words)
      numeral == Numeral(IF value < 0 THEN -value ELSE value, Base[dir.conv])
      names   == IF dir.conv = "X" THEN UpperNames ELSE DigitNames
      digits  == [k \in DOMAIN numeral |-> names[numeral[k] + 1]]
      sign    == CASE value < 0                 -> <<"-">>
                   [] value >= 0 /\ signed /\ "+" \in flags -> <<"+">>
                   [] value >= 0 /\ signed /\ {"+", " "} \cap flags = {" "} -> <<" ">>
                   [] OTHER                     -> << >>
      prefix  == IF Base[dir.conv] = 16 /\ "#" \in flags /\ value # 0
                   THEN <<"0", dir.conv>> ELSE << >>
      least   == Larger(IF dir.conv = "o" /\ "#" \in flags THEN Len(digits) + 1 ELSE 0,
                        IF Precise(dir, words) THEN Precision(dir, words) ELSE 1)
      all     == IF {"-", "0"} \cap flags = {"0"} /\ ~Precise(dir, words)
                   THEN Larger(least, Width(dir, words) - Len(sign \o prefix)) ELSE least
  IN  sign \o prefix \o Repeat("0", Padding(Len(digits), all)) \o digits

(* The text of a string, of which the precision shows a part. *)
StandardString(dir, words) ==
  LET p == words[Words(dir) + 1] IN
  IF p = NULL THEN Padded(<<"(", "n", "u", "l", "l", ")">>, dir, words)
  ELSE Padded(IF Precise(dir, words) THEN SubSeq(p[2], 1, Least(Len(p[2]), Precision(dir, words)))
                                     ELSE p[2], dir, words)

(* A pointer as 0x and all of its digits. *)
StandardPointer(word) ==
  IF word = NULL THEN <<"(", "n", "i", "l", ")">>
  ELSE LET numeral == Numeral(Unsigned(word[2], IntValues), 16)
       IN  <<"0", "x">> \o Repeat("0", 2 * PointerSize - Len(numeral))
             \o [k \in DOMAIN numeral |-> DigitNames[numeral[k] + 1]]

Standard(dir, words) ==
  CASE ~Argument(dir)                         -> <<dir.conv>>
    [] Argument(dir) /\ dir.conv \in Number   -> Padded(NumberText(dir, words), dir, words)
    [] Argument(dir) /\ dir.conv = "s"        -> StandardString(dir, words)
    [] Argument(dir) /\ dir.conv = "c"        -> Padded(<<words[Words(dir) + 1][2]>>, dir, words)
    [] Argument(dir) /\ dir.conv = "p"        -> StandardPointer(words[Words(dir) + 1])

Arguments(dir) == Words(dir) + (IF Argument(dir) THEN 1 ELSE 0)

(* How many words the first k directives of a call take. *)
Before(c) ==
  LET taken[k \in 0 .. Len(c.format)] ==
        IF k = 0 THEN 0 ELSE taken[k - 1] + Arguments(c.format[k])
  IN  taken

(* The words of directive k. *)
WordsOf(c, k) == SubSeq(c.words, Before(c)[k - 1] + 1, Before(c)[k])

(* All that the call prints: every directive with the words that are its.  *)
Expected ==
  FlattenSeq([k \in DOMAIN call.format |-> Standard(call.format[k], WordsOf(call, k))])

-----------------------------------------------------------------------------
(* What the words and the parts of a directive are.                        *)
Directives ==
  [flags : SUBSET Flag, width : Nat \cup {None, Star}, precision : Nat \cup {None, Star},
   length : STRING, conv : STRING, plain : BOOLEAN]
Word == ({"num"} \X Int) \cup ({"chr"} \X STRING) \cup ({"str"} \X Seq(STRING))

(* The words of a directive are of the types it takes.  '0' is for numbers. *)
Typed(dir, words) ==
  /\ \A k \in 1 .. Words(dir) : words[k][1] = "num"
  /\ Argument(dir) =>
       LET word == words[Words(dir) + 1] IN
       /\ dir.conv \in Number => word[1] = "num"
       /\ dir.conv = "s" => (word = NULL \/ word[1] = "str") /\ "0" \notin dir.flags
       /\ dir.conv = "c" => word[1] = "chr" /\ "0" \notin dir.flags

(* What the code prints as the standard has it: a precision is not below   *)
(* 0, a number with its zeros has room in the buffer of _ntoa, and "%#b",  *)
(* which is not of the standard, is not used.                              *)
Fits(dir, words) ==
  /\ dir.precision = Star => Precise(dir, words)
  /\ Argument(dir) /\ dir.conv \in Number =>
       /\ Len(NumberText(dir, words)) <= PRINTF_NTOA_BUFFER_SIZE
       /\ dir.conv = "b" => "#" \notin dir.flags

HasPointer(c) == \E k \in DOMAIN c.format : ~c.format[k].plain /\ c.format[k].conv = "p"

SnprintfAssumption ==
  /\ PRINTF_NTOA_BUFFER_SIZE \in Nat \ {0}
  /\ {CharValues, ShortValues, IntValues, PointerSize} \subseteq Nat \ {0}
  /\ \A c \in Calls :
       /\ c.count \in Nat /\ c.buffer \in BOOLEAN
       /\ c.format \in Seq(Directives) /\ c.words \in Seq(Word)
       /\ ~HasPointer(c) =>
            /\ Before(c)[Len(c.format)] <= Len(c.words)
            /\ \A k \in DOMAIN c.format :
                 Typed(c.format[k], WordsOf(c, k)) /\ Fits(c.format[k], WordsOf(c, k))

(* The buffer holds as much of the text as fits in it with its '\0',      *)
(* nothing is written past that, and the length of the text is returned.   *)
Printed(text) ==
  LET stop == Least(Len(text) + 1, call.count) IN
  /\ rv = Len(text)
  /\ buffer = [k \in DOMAIN buffer |->
       CASE ~call.buffer \/ k > stop -> "?"
         [] call.buffer /\ k < stop  -> text[k]
         [] call.buffer /\ k = stop  -> NUL]

(* Numbers, characters and strings are printed as the C standard says, for *)
(* every flag, width, precision and length, every directive takes its own  *)
(* arguments, and the text is cut where the buffer ends, with its '\0',   *)
(* although the length returned is that of all of it.                      *)
FormatRight == pc = "returned" /\ ~HasPointer(call) => Printed(Expected)

(* Messages with pointers show their arguments, as that of an exception    *)
(* (traps.c) means to: the pointer is the argument that "%p" stands for.   *)
PointersShown == pc = "returned" /\ HasPointer(call) => Printed(Expected)
=============================================================================
