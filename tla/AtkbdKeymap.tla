---------------------------- MODULE AtkbdKeymap ----------------------------
(***************************************************************************)
(* The tables of the keyboard driver (arch/i386/atkbd.c): from the bytes   *)
(* of a scan code to a keycode, and from a keycode to a character.         *)
(*                                                                         *)
(* A byte of a scan code is written as its two hexadecimal digits.  The    *)
(* tables are laid out the other way round than in the code: row by row of *)
(* the keyboard, so that entry col + 1 of row + 1 belongs to K(row, col).  *)
(***************************************************************************)
EXTENDS Integers, Sequences

(* Row in bits 5 to 7, column in bits 0 to 4. *)
K(row, col) == 32 * (row % 8) + (col % 32)

KeyCode == 0 .. 255

nokey       == K(7, 0)
unsupported == K(7, 1)
unknown     == K(7, 2)

Rows == 0 .. 5

(* The scan codes of one byte, but for "0e" and "7e": see Map0.  No key    *)
(* has the keycodes at "--".                                               *)
Codes == <<
  <<"76", "05", "06", "04", "0c", "03", "0b", "83", "0a", "01", "09", "78", "07">>,
  <<"--", "16", "1e", "26", "25", "2e", "36", "3d", "3e", "46", "45", "4e", "55", "66", "77", "--", "7c", "7b">>,
  <<"0d", "15", "1d", "24", "2d", "2c", "35", "3c", "43", "44", "4d", "54", "5b", "5a", "6c", "75", "7d", "79">>,
  <<"58", "1c", "1b", "23", "2b", "34", "33", "3b", "42", "4b", "4c", "52", "5d", "--", "6b", "73", "74">>,
  <<"12", "61", "1a", "22", "21", "2a", "32", "31", "3a", "41", "49", "4a", "59", "--", "69", "72", "7a">>,
  <<"14", "--", "--", "11", "29", "--", "--", "--", "--", "--", "--", "--", "70", "71">> >>

(* The scan codes of two bytes, by the second one. *)
CodesE0 == <<
  <<"--", "--", "--", "--", "--", "--", "--", "--", "--", "--", "--", "--", "--", "--", "70", "71", "6c", "69", "7d", "7a">>,
  <<"--", "--", "--", "--", "--", "--", "--", "--", "--", "--", "--", "--", "--", "--", "--", "4a">>,
  << >>,
  << >>,
  <<"--", "--", "--", "--", "--", "--", "--", "--", "--", "--", "--", "--", "--", "75", "--", "--", "--", "5a">>,
  <<"--", "--", "1f", "--", "--", "11", "--", "27", "14", "6b", "72", "74">> >>

(* The media and system keys of map_e0. *)
MediaKeys ==
  {"10", "15", "18", "20", "21", "23", "28", "2b", "2f", "30", "32", "34",
   "37", "38", "3a", "3b", "3f", "40", "48", "4d", "50", "5e"}

(* The bytes past the end of both tables. *)
Prefixes == {"e0", "e1", "f0"}

(* The rows of a table as pairs of a byte and its keycode. *)
Pairs(codes) ==
  {p \in UNION {{<<codes[r + 1][c], K(r, c - 1)>> : c \in DOMAIN codes[r + 1]} : r \in Rows} :
     p[1] # "--"}

(* Two keys share the keycode of the backspace key. *)
Map0 == Pairs(Codes) \cup {<<"0e", K(1, 13)>>, <<"7e", unsupported>>}

MapE0 == Pairs(CodesE0) \cup {<<b, unsupported>> : b \in MediaKeys}

LookUp(map, b) ==
  CASE b \in Prefixes               -> unknown
    [] \E p \in map : p[1] = b      -> (CHOOSE p \in map : p[1] = b)[2]
    [] OTHER                        -> nokey

map0(b) == LookUp(Map0, b)

map_e0(b) == LookUp(MapE0, b)

-----------------------------------------------------------------------------
KEY_LSHIFT   == K(4, 0)
KEY_LCTRL    == K(5, 0)
KEY_LALT     == K(5, 3)
KEY_LGUI     == K(5, 2)
KEY_RSHIFT   == K(4, 12)
KEY_RCTRL    == K(5, 8)
KEY_RALT     == K(5, 5)
KEY_RGUI     == K(5, 7)
KEY_CAPSLOCK == K(3, 0)
KEY_NUMLOCK  == K(1, 14)

(* The value of a table entry that nothing initialises. *)
NoSym == "\\0"

(* The first two tables of def_keymap; the other two are empty.  Some      *)
(* characters are called by name, as are "\\b" and "\\n".                  *)
Plain == <<
  << >>,
  <<"--", "1", "2", "3", "4", "5", "6", "7", "8", "9", "0", "-", "=", "\\b", "--", "/", "*", "-">>,
  <<"--", "q", "w", "e", "r", "t", "y", "u", "i", "o", "p", "[", "]", "\\n", "7", "8", "9", "+">>,
  <<"--", "a", "s", "d", "f", "g", "h", "j", "k", "l", "semicolon", "'", "\\", "--", "4", "5", "6">>,
  <<"--", "--", "z", "x", "c", "v", "b", "n", "m", "comma", ".", "/", "--", "--", "1", "2", "3", "\\n">>,
  <<"--", "--", "--", "--", "space", "--", "--", "--", "--", "--", "--", "--", "0">> >>

Shifted == <<
  << >>,
  <<"--", "!", "@", "#", "$", "%", "^", "&", "*", "(", ")", "underscore", "+", "\\b", "--", "/", "*", "-">>,
  <<"--", "Q", "W", "E", "R", "T", "Y", "U", "I", "O", "P", "lbrace", "rbrace", "\\n", "7", "8", "9", "+">>,
  <<"--", "A", "S", "D", "F", "G", "H", "J", "K", "L", ":", "quote", "|", "--", "4", "5", "6">>,
  <<"--", "--", "Z", "X", "C", "V", "B", "N", "M", "<", ">", "?", "--", "--", "1", "2", "3", "\\n">>,
  <<"--", "--", "--", "--", "space", "--", "--", "--", "--", "--", "--", "--", "0">> >>

Entry(table, kc) ==
  LET row == kc \div 32  col == kc % 32 IN
  IF row \in Rows /\ col < Len(table[row + 1]) /\ table[row + 1][col + 1] # "--"
    THEN table[row + 1][col + 1]
    ELSE NoSym

def_keymap(i, kc) ==
  CASE i = 0 -> Entry(Plain, kc)
    [] i = 1 -> Entry(Shifted, kc)
    [] OTHER -> NoSym

(* The entries marked 0x100, which need the num lock. *)
NumPad == {K(row, col) : row \in 2 .. 4, col \in 14 .. 16}

-----------------------------------------------------------------------------
(* Mistake: a shift key that is let go is taken for a fake one. *)
ReadsOn_after_shift ==
  {<<"e0">>, <<"e0", "f0">>, <<"f0">>, <<"f0", "12">>}

(* scan_keycode, after the bytes s: does it read another one?             *)
ReadsOn ==
  LET long == {<<"e0">>, <<"e0", "f0">>}
      fake == {"12", "2a"}
  IN  long \cup {<<"f0">>}
      \cup {Append(p, x) : p \in long, x \in fake}
      \cup {p \o <<x, "e0">> : p \in long, x \in fake}
      \cup {<<"e0", "f0", "7c">>, <<"e0", "f0", "7c", "e0">>, <<"e0", "f0", "7c", "e0", "f0">>}

HasE0(s) == s[1] = "e0"

(* Mistake: 0xf0 is expected to be the first byte. *)
HasF0_first(s) == s[1] = "f0"

HasF0(s) == s[IF HasE0(s) THEN 2 ELSE 1] = "f0"

(* ki->state: was the key pressed, as opposed to let go? *)
Pressed(s) == ~HasF0(s)

(* The byte after the prefixes. *)
Code(s) == s[1 + (IF HasE0(s) THEN 1 ELSE 0) + (IF HasF0(s) THEN 1 ELSE 0)]

(* ki->kc, once the last byte is read.                                     *)
scan_keycode(s) ==
  IF ~HasE0(s) THEN map0(Code(s))
  ELSE CASE HasF0(s) /\ Code(s) = "7c" ->
              IF SubSeq(s, 4, Len(s)) = <<"e0", "f0", "12">> THEN K(0, 13) ELSE unknown
         [] Code(s) = "12" ->
              IF s[Len(s)] = "7c" /\ s[Len(s) - 1] = "e0" THEN K(0, 13) ELSE unknown
         [] Code(s) = "2a" ->
              IF s[Len(s)] = "37" /\ s[Len(s) - 1] = "e0" THEN K(0, 17) ELSE unknown
         [] OTHER -> map_e0(Code(s))
=============================================================================
