------------------------------- MODULE Atkbd -------------------------------
(***************************************************************************)
(* The keyboard and the mouse at work (arch/i386/atkbd.c): the user, the   *)
(* keyboard that sends scan codes, the mouse that sends packets, the 8042  *)
(* that holds one byte of either at a time, the interrupt controller that  *)
(* remembers one interrupt of each, and the interrupt handlers.  They poll *)
(* the 8042 for the bytes of a whole scan code, and turn it into an event  *)
(* for the console, or of a packet, and print it.                          *)
(*                                                                         *)
(* A handler runs with interrupts disabled from its first instruction to   *)
(* its last: while it polls, only the hardware moves.  The kernel is past  *)
(* init_atkbd and has executed its last sti.                               *)
(***************************************************************************)
EXTENDS AtkbdKeymap

CONSTANTS
  Keys,         (* The keys the user uses, by what they send when pressed. *)
  MaxPending,   (* Bound: what the user does ahead of the kernel.          *)
  Chords,       (* Bound: the sets of keys held down together.             *)
  BothHands     (* Does the user use both devices at the same time?  The   *)
                (* handlers do not ask whose byte it is that they read.    *)

PrintScreen == <<"e0", "12", "e0", "7c">>

(* What a key sends when it is let go. *)
Break(k) ==
  IF k = PrintScreen THEN <<"e0", "f0", "7c", "e0", "f0", "12">>
  ELSE IF k[1] = "e0" THEN <<"e0", "f0", k[2]>>
  ELSE <<"f0", k[1]>>

(* The keys of the tables.  The pause key is not one of them: the driver   *)
(* takes its eight bytes for those of other keys.                          *)
AllKeys ==
  {<<p[1]>> : p \in Map0} \cup {<<"e0", p[1]>> : p \in MapE0} \cup {PrintScreen}

(* No two of Keys share a keycode, as back quote and backspace would.      *)
ASSUME KeyboardAssumption ==
  /\ Keys \subseteq AllKeys
  /\ \A k, l \in Keys : k # l => scan_keycode(k) # scan_keycode(l)
  /\ MaxPending \in Nat
  /\ Chords \subseteq SUBSET Keys
  /\ BothHands \in BOOLEAN

(* What the mouse sends when it is moved. *)
Packet == <<"m0", "m1", "m2">>

(* The keys and their keycodes. *)
KeyTable == {<<k, scan_keycode(k)>> : k \in AllKeys}

VARIABLES
  held,       (* The keys held down.                                       *)
  pending,    (* What the user did and the handler has not handled.        *)
  wire,       (* The bytes the keyboard has yet to send.                   *)
  obf,        (* The output buffer of the 8042: a byte or none.            *)
  aux,        (* Is it a byte of the mouse (bit 5 of the status)?          *)
  irr,        (* Is an interrupt of the keyboard requested?                *)
  pc,         (* Where the interrupt handler is.                           *)
  sc,         (* The bytes of the scan code it has read (ki->sc).          *)
  keys,       (* The keycodes k with keys[k] set.                          *)
  capslock, numlock,
  ev,         (* What the console looks at of the last event: its keysym   *)
              (* if a key is pressed.                                      *)
  mouse_wire, (* The bytes the mouse has yet to send.                      *)
  mouse_irr,  (* Is an interrupt of the mouse requested?                   *)
  data        (* The bytes of a packet that its handler has read.          *)

mouseVars == <<mouse_wire, mouse_irr, data>>
keyboardVars == <<held, pending, wire, irr, sc, keys, capslock, numlock, ev>>
buffer == <<obf, aux>>
vars == <<keyboardVars, buffer, pc, mouseVars>>

Init ==
  /\ held = {}
  /\ pending = << >>
  /\ wire = << >>
  /\ obf = << >>
  /\ aux = FALSE
  /\ irr = FALSE
  /\ pc = "returned"
  /\ sc = << >>
  /\ keys = {}
  /\ capslock = FALSE
  /\ numlock = FALSE
  /\ ev = "none"
  /\ mouse_wire = << >>
  /\ mouse_irr = FALSE
  /\ data = << >>

-----------------------------------------------------------------------------
(* The user and the hardware. *)

KeyboardQuiet == pending = << >> /\ wire = << >> /\ ~irr /\ pc \notin {"first", "more", "received"}

MouseQuiet == mouse_wire = << >> /\ ~mouse_irr /\ pc \notin {"data0", "data1", "data2", "print"}

(* Pressed, or held until it repeats, which nobody does with a lock.       *)
Press(k) ==
  /\ BothHands \/ MouseQuiet
  /\ Len(pending) < MaxPending
  /\ k \in held => scan_keycode(k) \notin {KEY_CAPSLOCK, KEY_NUMLOCK}
  /\ held \cup {k} \in Chords
  /\ held' = held \cup {k}
  /\ pending' = Append(pending, [key |-> k, press |-> TRUE])
  /\ wire' = wire \o k
  /\ UNCHANGED <<buffer, irr, pc, sc, keys, capslock, numlock, ev, mouseVars>>

LetGo(k) ==
  /\ BothHands \/ MouseQuiet
  /\ Len(pending) < MaxPending
  /\ k \in held
  /\ held' = held \ {k}
  /\ pending' = Append(pending, [key |-> k, press |-> FALSE])
  /\ wire' = wire \o Break(k)
  /\ UNCHANGED <<buffer, irr, pc, sc, keys, capslock, numlock, ev, mouseVars>>

MoveMouse ==
  /\ BothHands \/ KeyboardQuiet
  /\ Len(mouse_wire) <= 3 * (MaxPending - 1)
  /\ mouse_wire' = mouse_wire \o Packet
  /\ UNCHANGED <<keyboardVars, buffer, pc, mouse_irr, data>>

(* The 8042 lets the keyboard send when its buffer is empty, and raises    *)
(* the line of the interrupt.                                              *)
Transfer ==
  /\ wire # << >>
  /\ obf = << >>
  /\ obf' = <<Head(wire)>>
  /\ aux' = FALSE
  /\ wire' = Tail(wire)
  /\ irr' = TRUE
  /\ UNCHANGED <<held, pending, pc, sc, keys, capslock, numlock, ev, mouseVars>>

TransferMouse ==
  /\ mouse_wire # << >>
  /\ obf = << >>
  /\ obf' = <<Head(mouse_wire)>>
  /\ aux' = TRUE
  /\ mouse_wire' = Tail(mouse_wire)
  /\ mouse_irr' = TRUE
  /\ UNCHANGED <<keyboardVars, pc, data>>

-----------------------------------------------------------------------------
(* The interrupt handler of the keyboard. *)

Interrupt ==
  /\ pc = "returned"
  /\ irr
  /\ irr' = FALSE
  /\ pc' = "first"
  /\ UNCHANGED <<held, pending, wire, buffer, sc, keys, capslock, numlock, ev, mouseVars>>

(* Mistake: the mouse handler gives up on the later bytes of a packet, too. *)
TimeOut_within ==
  /\ pc \in {"first", "data0", "data1", "data2"}
  /\ obf = << >>
  /\ pc' = "returned"
  /\ data' = << >>
  /\ UNCHANGED <<keyboardVars, buffer, mouse_wire, mouse_irr>>

(* recv_data_wto gives up when its polls have found nothing: this was the  *)
(* interrupt of a byte that an earlier one has read.                       *)
TimeOut ==
  /\ pc \in {"first", "data0"}
  /\ obf = << >>
  /\ pc' = "returned"
  /\ UNCHANGED <<keyboardVars, buffer, mouseVars>>

(* recv_data_wto for the first byte, recv_data for the others. *)
Receive ==
  /\ pc \in {"first", "more"}
  /\ obf # << >>
  /\ obf' = << >>
  /\ aux' = FALSE
  /\ sc' = sc \o obf
  /\ pc' = IF sc' \in ReadsOn THEN "more" ELSE "received"
  /\ UNCHANGED <<held, pending, wire, irr, keys, capslock, numlock, ev, mouseVars>>

get_mod ==
  keys \cap {KEY_LSHIFT, KEY_LCTRL, KEY_LALT, KEY_LGUI,
             KEY_RSHIFT, KEY_RCTRL, KEY_RALT, KEY_RGUI}

(* Mistake: the caps lock is one more shift key. *)
Level_or(mod, caps) ==
  (IF KEY_LSHIFT \in mod \/ caps THEN 1 ELSE 0) + (IF KEY_RALT \in mod THEN 2 ELSE 0)

(* The table of the keymap that the modifiers select. *)
Level(mod, caps) ==
  (IF (KEY_LSHIFT \in mod) # caps THEN 1 ELSE 0) + (IF KEY_RALT \in mod THEN 2 ELSE 0)

(* Mistake: a lock also changes when its key is let go. *)
to_keyevent_toggles_twice ==
  LET kc == scan_keycode(sc) IN
  /\ capslock' = (capslock # (kc = KEY_CAPSLOCK))
  /\ numlock' = (numlock # (kc = KEY_NUMLOCK))
  /\ ev' = IF Pressed(sc) THEN def_keymap(Level(get_mod, capslock'), kc) ELSE "none"
  /\ keys' = IF Pressed(sc) THEN keys \cup {kc} ELSE keys \ {kc}

(* The symbol of an event.  A keypad digit loses its mark, which the       *)
(* console's char has no room for.                                         *)
keysym(caps, num, kc) ==
  LET level == Level(get_mod, caps) IN
  IF kc \in NumPad /\ level < 2 /\ ~num THEN NoSym ELSE def_keymap(level, kc)

to_keyevent ==
  LET kc == scan_keycode(sc)
      toggles(key) == Pressed(sc) /\ kc = key
  IN  /\ capslock' = (capslock # toggles(KEY_CAPSLOCK))
      /\ numlock' = (numlock # toggles(KEY_NUMLOCK))
      /\ ev' = IF Pressed(sc) THEN keysym(capslock', numlock', kc) ELSE "none"
      /\ keys' = IF Pressed(sc) THEN keys \cup {kc} ELSE keys \ {kc}

(* Mistake: the end of the interrupt also discards one requested since. *)
KeyEvent_drops_request ==
  /\ pc = "received"
  /\ to_keyevent
  /\ pc' = "returned"
  /\ pending' = IF pending = << >> THEN << >> ELSE Tail(pending)
  /\ sc' = << >>
  /\ irr' = FALSE
  /\ UNCHANGED <<held, wire, buffer, mouseVars>>

(* The rest of handle_keyboard, to its end-of-interrupt command. *)
KeyEvent ==
  /\ pc = "received"
  /\ to_keyevent
  /\ pc' = "returned"
  /\ pending' = IF pending = << >> THEN << >> ELSE Tail(pending)
  /\ sc' = << >>
  /\ UNCHANGED <<held, wire, buffer, irr, mouseVars>>

-----------------------------------------------------------------------------
(* The interrupt handler of the mouse. *)

MouseInterrupt ==
  /\ pc = "returned"
  /\ mouse_irr
  /\ mouse_irr' = FALSE
  /\ pc' = "data0"
  /\ UNCHANGED <<keyboardVars, buffer, mouse_wire, data>>

(* recv_data_wto for the first byte, recv_data for the others. *)
ReceiveMouse ==
  /\ pc \in {"data0", "data1", "data2"}
  /\ obf # << >>
  /\ obf' = << >>
  /\ aux' = FALSE
  /\ data' = data \o obf
  /\ pc' = CASE pc = "data0" -> "data1" [] pc = "data1" -> "data2" [] OTHER -> "print"
  /\ UNCHANGED <<keyboardVars, mouse_wire, mouse_irr>>

(* printk and the end-of-interrupt command. *)
PrintMovement ==
  /\ pc = "print"
  /\ pc' = "returned"
  /\ data' = << >>
  /\ UNCHANGED <<keyboardVars, buffer, mouse_wire, mouse_irr>>

-----------------------------------------------------------------------------
Handler ==
  \/ Interrupt \/ TimeOut \/ Receive \/ KeyEvent
  \/ MouseInterrupt \/ ReceiveMouse \/ PrintMovement

Sending == Transfer \/ TransferMouse

Next == (\E k \in Keys : Press(k) \/ LetGo(k)) \/ MoveMouse \/ Sending \/ Handler

Spec == Init /\ [][Next]_vars

(* The processor takes its interrupts and the devices send. *)
FairSpec == Spec /\ WF_vars(Handler) /\ WF_vars(Sending)

-----------------------------------------------------------------------------
(* A byte that waits in the 8042 is about to be read or its interrupt is   *)
(* still to come, although a handler reads bytes of several interrupts,    *)
(* and of the other device, too: otherwise the buffer would stay full, and *)
(* neither device ever interrupt again.                                    *)
NoLostWakeup ==
  obf # << >> /\ pc \notin {"first", "more", "data0", "data1", "data2"} =>
    IF aux THEN mouse_irr ELSE irr

(* The handler polls without a timeout, and with interrupts disabled, only *)
(* for bytes the keyboard is going to send; the six bytes of sc suffice.   *)
NeverStuck ==
  /\ pc = "more" => obf # << >> \/ wire # << >>
  /\ pc \in {"data1", "data2"} => obf # << >> \/ mouse_wire # << >>
  /\ Len(sc) <= 6

(* The three bytes that mouse_handle prints are those of one movement, the *)
(* first of them first, although it comes for every byte and may find the  *)
(* bytes gone, or the packet after: it never loses the mouse's rhythm.     *)
MouseInStep == pc = "print" => data = Packet

(* When the handler has caught up with the user, keys[] says which keys    *)
(* are held.                                                               *)
KeysMirrorHeld ==
  pending = << >> /\ pc = "returned" =>
    \A p \in KeyTable :
      p[1] \in Keys => (p[2] \in keys <=> p[1] \in held)

Stream == INSTANCE KeyStream WITH
  down <- {p[1] : p \in {q \in KeyTable : q[2] \in keys /\ q[1] \in Keys}},
  caps <- capslock,
  num  <- numlock,
  char <- ev

(* Whatever the user types, and however bytes and interrupts interleave,   *)
(* the handler does what KeyStream promises: it handles every key, once    *)
(* and in order, under the modifiers and locks of that moment.             *)
EveryKeyHandled == Stream!FairSpec

(* Under every combination of modifiers and locks that a handler leaves    *)
(* behind, every key of the keyboard would type what is printed on it: the *)
(* tables of scan codes agree with those of characters.  The back quote,   *)
(* which types a backspace, is the exception.                              *)
KeysTypeLabels ==
  pc = "returned" =>
    \A k \in Stream!LabelledKeys \ {<<"0e">>} :
      keysym(capslock, numlock, scan_keycode(k)) = Stream!Types(k)
=============================================================================
