------------------------------ MODULE CharFifo ------------------------------
(***************************************************************************)
(* What an input queue of the tty layer promises, without indices, slots   *)
(* or program counters: a bounded first-in first-out channel from a driver *)
(* to the buffer of the reader's current call.                             *)
(***************************************************************************)
EXTENDS Naturals, Sequences

CONSTANTS
  Char,       (* The characters that travel.                               *)
  Capacity    (* How many of them the channel holds at most.               *)

VARIABLES
  in,         (* The character that has arrived last.                      *)
  fifo,       (* Characters accepted and not yet handed out, oldest first. *)
  out         (* Characters handed out in the reader's current call.       *)

vars == <<in, fifo, out>>

Init == in \in Char /\ fifo = << >> /\ out = << >>

(* A character arrives; when there is no room for it, it is discarded.     *)
Put(c) ==
  /\ in' = c
  /\ fifo' = IF Len(fifo) < Capacity THEN Append(fifo, c) ELSE fifo
  /\ UNCHANGED out

(* The reader takes the oldest character. *)
Get ==
  /\ fifo # << >>
  /\ out' = Append(out, Head(fifo))
  /\ fifo' = Tail(fifo)
  /\ UNCHANGED in

(* The reader starts a new call. *)
NewCall ==
  /\ out' = << >>
  /\ UNCHANGED <<in, fifo>>

Next == (\E c \in Char : Put(c)) \/ Get \/ NewCall

Spec == Init /\ [][Next]_vars
=============================================================================
