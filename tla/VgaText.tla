------------------------------ MODULE VgaText ------------------------------
(***************************************************************************)
(* The text screen of the VGA console (arch/i386/vgatm.c): the video       *)
(* memory, the position of the next character, and what send() does to     *)
(* them for every character.                                               *)
(*                                                                         *)
(* A cell stands for its character alone: the attribute byte is the same   *)
(* color everywhere for the ASCII characters the kernel writes.            *)
(***************************************************************************)
EXTENDS Integers, Sequences

CONSTANTS
  width, height,  (* The size of the screen; 80 by 25 in the code.         *)
  Glyph,          (* The characters with a picture, '\0' among them.       *)
  Blank           (* ' '.                                                  *)

BEL == "\\a"
BS  == "\\b"
FF  == "\\f"
NL  == "\\n"
CR  == "\\r"
TAB == "\\t"
VT  == "\\v"
ESC == "\\033"

Control == {BEL, BS, FF, NL, CR, TAB, VT, ESC}

ASSUME ScreenAssumption ==
  /\ width \in Nat \ {0}
  /\ height \in Nat \ {0}
  /\ Blank \in Glyph
  /\ Glyph \cap Control = {}

Cell == 0 .. width * height - 1

(* The static variables vidmem, posx and posy between two characters. *)
Screen ==
  [vidmem : [Cell -> Glyph], posx : 0 .. width - 1, posy : 0 .. height - 1]

(* vgatm_init. *)
ClearScreen == [vidmem |-> [i \in Cell |-> Blank], posx |-> 0, posy |-> 0]

Index(x, y) == y * width + x

(* The cell where the next character goes. *)
Position(s) == Index(s.posx, s.posy)

put(s, x, y, ch) == [s EXCEPT !.vidmem[Index(x, y)] = ch]

(* Blanks from column x to the end of row y. *)
blank_line(s, x, y) ==
  [s EXCEPT !.vidmem = [i \in Cell |->
     IF i \in Index(x, y) .. Index(width - 1, y) THEN Blank ELSE s.vidmem[i]]]

clear_line(s, y) == blank_line(s, 0, y)

(* Mistake: the first column is a wall. *)
StepBack_in_line(s) == IF s.posx > 0 THEN [s EXCEPT !.posx = @ - 1] ELSE s

(* case '\b': one cell back, also to the end of the row above. *)
StepBack(s) ==
  CASE s.posx > 0                -> [s EXCEPT !.posx = @ - 1]
    [] s.posx = 0 /\ s.posy > 0  -> [s EXCEPT !.posx = width - 1, !.posy = @ - 1]
    [] OTHER                     -> s

(* static int tabwidth: no function of the driver ever assigns to it. *)
tabwidth == 0

(* posx % tabwidth in case '\t': the processor raises a divide error. *)
DividesByZero(ch) == ch = TAB /\ tabwidth = 0

(* The switch of send(), for a character that does not divide by zero. *)
Draw(s, ch) ==
  CASE ch \in {BEL, ESC} -> s
    [] ch = BS           -> StepBack(s)
    [] ch \in {FF, VT}   -> [s EXCEPT !.posy = @ + 1]
    [] ch = NL           -> [blank_line(s, s.posx, s.posy) EXCEPT !.posx = width]
    [] ch = CR           -> [clear_line(s, s.posy) EXCEPT !.posx = 0]
    [] OTHER             -> [put(s, s.posx, s.posy, ch) EXCEPT !.posx = @ + 1]

(* Mistake: one column too many. *)
Wrap_late(s) ==
  IF s.posx > width THEN [s EXCEPT !.posx = 0, !.posy = @ + 1] ELSE s

Wrap(s) ==
  IF s.posx >= width THEN [s EXCEPT !.posx = 0, !.posy = @ + 1] ELSE s

(* Mistake: memmove is given the number of cells for that of bytes. *)
ScrollUp_half(m) ==
  [i \in Cell |-> IF i + width \notin Cell THEN Blank
                  ELSE m[IF 2 * i < (height - 1) * width THEN i + width ELSE i]]

(* The rows move up by one and the last one is cleared. *)
ScrollUp(m) ==
  [i \in Cell |-> IF i + width \in Cell THEN m[i + width] ELSE Blank]

Scroll(s) ==
  IF s.posy >= height
    THEN [vidmem |-> ScrollUp(s.vidmem), posx |-> 0, posy |-> height - 1]
    ELSE s

send(s, ch) == Scroll(Wrap(Draw(s, ch)))

(* update_cursor: the 16-bit register of the CRT controller. *)
CursorRegister(s) == Position(s) % 65536

-----------------------------------------------------------------------------
(* Echoing c and then "\b \b", as kernel_main does for the backspace key,  *)
(* leaves screen s as it was before c, but for a blank at the position;    *)
(* in the last cell c has scrolled the screen.                             *)
ErasesEcho(s, c) ==
  LET erased == send(send(send(send(s, c), BS), Blank), BS)
      before == put(s, s.posx, s.posy, Blank)
  IN  erased = IF Position(s) < width * height - 1
                 THEN before
                 ELSE [before EXCEPT !.vidmem = ScrollUp(@), !.posy = @ - 1]
=============================================================================
