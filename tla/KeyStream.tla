----------------------------- MODULE KeyStream -----------------------------
(***************************************************************************)
(* What the keyboard promises the rest of the kernel, without bytes,       *)
(* interrupts or tables: every key the user presses, repeats or lets go is *)
(* handled once, in the order it happened, under the modifiers as they     *)
(* were at that point of the user's typing, whatever has been typed since. *)
(*                                                                         *)
(* A key is named by the bytes it sends when it is pressed.                *)
(***************************************************************************)
EXTENDS Naturals, Sequences

CONSTANTS
  Keys,         (* The keys the user uses.                                 *)
  MaxPending,   (* Bound: what the user does ahead of the kernel.          *)
  Chords        (* Bound: the sets of keys held down together.             *)

VARIABLES
  held,         (* The keys held down.                                     *)
  pending,      (* What the user did and the kernel has not handled.       *)
  down,         (* The keys held down as far as the kernel knows.          *)
  caps, num,    (* The locks.                                              *)
  char          (* The character typed by the action handled last.         *)

vars == <<held, pending, down, caps, num, char>>

LShift   == <<"12">>
AltGr    == <<"e0", "11">>
CapsLock == <<"58">>
NumLock  == <<"77">>

Locks == {CapsLock, NumLock}

(* The keys of a US keyboard, with the two characters on each of them.     *)
Labels == {
  <<"0e", "grave", "~">>, <<"16", "1", "!">>, <<"1e", "2", "@">>, <<"26", "3", "#">>,
  <<"25", "4", "$">>, <<"2e", "5", "%">>, <<"36", "6", "^">>, <<"3d", "7", "&">>,
  <<"3e", "8", "*">>, <<"46", "9", "(">>, <<"45", "0", ")">>, <<"4e", "-", "underscore">>,
  <<"55", "=", "+">>, <<"66", "\\b", "\\b">>,
  <<"15", "q", "Q">>, <<"1d", "w", "W">>, <<"24", "e", "E">>, <<"2d", "r", "R">>,
  <<"2c", "t", "T">>, <<"35", "y", "Y">>, <<"3c", "u", "U">>, <<"43", "i", "I">>,
  <<"44", "o", "O">>, <<"4d", "p", "P">>, <<"54", "[", "lbrace">>, <<"5b", "]", "rbrace">>,
  <<"5d", "\\", "|">>,
  <<"1c", "a", "A">>, <<"1b", "s", "S">>, <<"23", "d", "D">>, <<"2b", "f", "F">>,
  <<"34", "g", "G">>, <<"33", "h", "H">>, <<"3b", "j", "J">>, <<"42", "k", "K">>,
  <<"4b", "l", "L">>, <<"4c", "semicolon", ":">>, <<"52", "'", "quote">>, <<"5a", "\\n", "\\n">>,
  <<"1a", "z", "Z">>, <<"22", "x", "X">>, <<"21", "c", "C">>, <<"2a", "v", "V">>,
  <<"32", "b", "B">>, <<"31", "n", "N">>, <<"3a", "m", "M">>, <<"41", "comma", "<">>,
  <<"49", ".", ">">>, <<"4a", "/", "?">>, <<"29", "space", "space">>,
  <<"7c", "*", "*">>, <<"7b", "-", "-">>, <<"79", "+", "+">> }

(* The keypad, where the digits need the num lock, except 0. *)
PadLabels == {
  <<"6c", "7">>, <<"75", "8">>, <<"7d", "9">>, <<"6b", "4">>, <<"73", "5">>,
  <<"74", "6">>, <<"69", "1">>, <<"72", "2">>, <<"7a", "3">> }

LabelledKeys ==
  {<<l[1]>> : l \in Labels \cup PadLabels} \cup {<<"70">>, <<"e0", "4a">>, <<"e0", "5a">>}

NoChar == "\\0"

(* What is printed on key k, below and, if up, above. *)
Label(k, up) ==
  IF \E l \in Labels : k = <<l[1]>>
    THEN (CHOOSE l \in Labels : k = <<l[1]>>)[IF up THEN 3 ELSE 2]
  ELSE CASE k = <<"70">>       -> "0"
         [] k = <<"e0", "4a">> -> "/"
         [] k = <<"e0", "5a">> -> "\\n"
         [] OTHER              -> NoChar

(* What key k types: the caps lock works like the left shift key, on every *)
(* key, and AltGr selects a part of the layout that is empty.              *)
Types(k) ==
  IF AltGr \in down THEN NoChar
  ELSE IF \E l \in PadLabels : k = <<l[1]>>
    THEN IF num THEN (CHOOSE l \in PadLabels : k = <<l[1]>>)[2] ELSE NoChar
    ELSE Label(k, (LShift \in down) # caps)

Init ==
  /\ held = {}
  /\ pending = << >>
  /\ down = {}
  /\ caps = FALSE
  /\ num = FALSE
  /\ char = "none"

(* The user presses a key, or holds it long enough for it to repeat.       *)
Press(k) ==
  /\ Len(pending) < MaxPending
  /\ k \in held => k \notin Locks
  /\ held \cup {k} \in Chords
  /\ held' = held \cup {k}
  /\ pending' = Append(pending, [key |-> k, press |-> TRUE])
  /\ UNCHANGED <<down, caps, num, char>>

LetGo(k) ==
  /\ Len(pending) < MaxPending
  /\ k \in held
  /\ held' = held \ {k}
  /\ pending' = Append(pending, [key |-> k, press |-> FALSE])
  /\ UNCHANGED <<down, caps, num, char>>

Handle ==
  /\ pending # << >>
  /\ pending' = Tail(pending)
  /\ LET k == Head(pending).key  press == Head(pending).press IN
       /\ down' = IF press THEN down \cup {k} ELSE down \ {k}
       /\ caps' = (caps # (press /\ k = CapsLock))
       /\ num' = (num # (press /\ k = NumLock))
       /\ char' = IF press THEN Types(k) ELSE "none"
  /\ UNCHANGED held

Next == (\E k \in Keys : Press(k) \/ LetGo(k)) \/ Handle

Spec == Init /\ [][Next]_vars

FairSpec == Spec /\ WF_vars(Handle)
=============================================================================
