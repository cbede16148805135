------------------------------ MODULE MCAtkbd ------------------------------
(* Instances of Atkbd for TLC. *)
EXTENDS Atkbd, FiniteSets

A        == <<"1c">>
LShift   == <<"12">>
AltGr    == <<"e0", "11">>
CapsLock == <<"58">>
NumLock  == <<"77">>

(* One key of every kind.                                                  *)
MixedKeys == {A, LShift, AltGr, CapsLock, NumLock, PrintScreen}

AnyTwo == {chord \in SUBSET Keys : Cardinality(chord) <= 2}
=============================================================================
