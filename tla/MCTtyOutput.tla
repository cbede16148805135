---------------------------- MODULE MCTtyOutput ----------------------------
(* Instances of TtyOutput for TLC. *)
EXTENDS TtyOutput

CONSTANTS a, b       \* Visible characters.

Glyphs == {NUL, Blank, a, b}

(* All the characters send() tells apart, but for the tab.                 *)
ScreenChars == {NUL, Blank, a, b, BEL, BS, FF, NL, CR, VT, ESC}

(* Every kind of character, and text that wraps and scrolls.  Characters   *)
(* that do nothing fill the ring of four slots up, so that what it still   *)
(* holds of earlier writes does not multiply the states.                   *)
ScreenStrings ==
  {<<c, BEL, ESC, BEL>> : c \in {a, BS, NL, CR, FF, VT}}
  \cup {<<a, b, a, b>>, <<NL, a, Blank, b>>}

(* Buffers of which the last takes three chunks.  After one or seven       *)
(* characters the next call starts at another slot, so that chunks start   *)
(* and wrap at every one; the NULs at the end leave the ring as it was.    *)
SerialStrings == {<< >>, <<NUL>>, <<b, a, b, NUL, NUL, NUL, NUL>>}

(* The null device gets two chunks.  No device has the number 3.           *)
AllCalls ==
  ({2} \X ScreenStrings) \cup ({1} \X SerialStrings)
    \cup {<<0, <<NUL, NUL, NUL, NUL>>>>, <<3, << >>>>}
=============================================================================
