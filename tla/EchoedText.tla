----------------------------- MODULE EchoedText -----------------------------
(***************************************************************************)
(* What the kernel shows of the user's typing, without queues, positions   *)
(* or control characters: the text on the screen, as one run of cells up   *)
(* to the cursor, which every key edits in turn.                           *)
(***************************************************************************)
EXTENDS Naturals, Sequences, SequencesExt

CONSTANTS
  Typed,          (* What the keys type.                                   *)
  NUL,            (* What a key without a character types.                 *)
  Blank,          (* ' '.                                                  *)
  width, height,  (* The size of the screen.                               *)
  Capacity        (* How many keys the kernel remembers.                   *)

VARIABLES
  waiting,    (* Keys typed and not echoed yet, oldest first.              *)
  shown       (* The cells before the cursor.                              *)

vars == <<waiting, shown>>

Blanks(n) == [i \in 1 .. n |-> Blank]

(* A full screen loses its first row. *)
Fit(text) ==
  IF Len(text) >= width * height THEN SubSeq(text, width + 1, Len(text)) ELSE text

Edit(text, c) ==
  CASE c = NUL   -> text
    [] c = "\\b" -> IF text = << >> THEN text ELSE Front(text)
    [] c = "\\n" -> Fit(text \o Blanks(width - (Len(text) % width)))
    [] OTHER     -> Fit(Append(text, c))

Init == waiting = << >> /\ shown = << >>

(* The kernel remembers Capacity keys besides the one it is at; others are *)
(* discarded, which changes nothing.                                       *)
Type(c) ==
  /\ Len(waiting) <= Capacity
  /\ waiting' = Append(waiting, c)
  /\ UNCHANGED shown

Echo ==
  /\ waiting # << >>
  /\ shown' = Edit(shown, Head(waiting))
  /\ waiting' = Tail(waiting)

(* A key that was typed before the previous one was echoed can get lost.   *)
Lose ==
  /\ Len(waiting) >= 2
  /\ waiting' = <<Head(waiting)>> \o Tail(Tail(waiting))
  /\ UNCHANGED shown

Next == (\E c \in Typed : Type(c)) \/ Echo \/ Lose

Spec == Init /\ [][Next]_vars /\ WF_vars(Echo)
=============================================================================
