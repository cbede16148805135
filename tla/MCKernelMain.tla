---------------------------- MODULE MCKernelMain -----------------------------
(* Instances of KernelMain for TLC. *)
EXTENDS KernelMain

CONSTANT a       \* A visible character.

Glyphs == {NUL, Blank, a}

TypedChars == {NUL, a, BS, NL}
=============================================================================
