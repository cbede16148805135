----------------------------- MODULE MCTtyInput -----------------------------
(* Instances of TtyInput for TLC. *)
EXTENDS TtyInput

CONSTANTS a        \* A printable character.

TwoChars == {NUL, a}
=============================================================================
