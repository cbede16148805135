----------------------------- MODULE KernelMain -----------------------------
(***************************************************************************)
(* The kernel's main program (kernel/kernel.c), from the breakpoint in     *)
(* kernel_entry on: it registers its terminals, sets up the serial port,   *)
(* prints two messages around the start of the keyboard driver, and then   *)
(* for ever reads a character from the VGA console and writes its echo     *)
(* back, while keyboard interrupts go on filling the queue it reads from   *)
(* and mouse interrupts print on the serial line.                          *)
(*                                                                         *)
(* The console's queue is the bounded channel that TtyInput has been shown *)
(* to implement (CharFifo), and tty_write gives a device the characters of *)
(* its buffer in order, as TtyOutput shows (InTransit).  AtkbdInit tells   *)
(* the start of the keyboard driver; here it is its first and its last     *)
(* message, and the moment in which it takes interrupts to ignore them.    *)
(***************************************************************************)
EXTENDS VgaText, TtyQueue

CONSTANTS
  MaxBacklog,   (* Bound: keys pressed and not yet echoed or lost.         *)
  Noise,        (* What is on the screen at boot.                          *)
  MaxMouse      (* Bound: the movements of the mouse.                      *)

(* The keys type all that a queue can hold, but no key types a tab; NUL is *)
(* pushed for a key without a character.                                   *)
ASSUME KernelAssumption ==
  /\ Char \subseteq Glyph \cup {BS, NL}
  /\ NUL \in Glyph \ {Blank}
  /\ Noise \in Glyph
  /\ MaxBacklog \in Nat
  /\ MaxMouse \in Nat

VARIABLES
  pc,         (* Where the kernel is.                                      *)
  fifo,       (* The read queue of the console.                            *)
  got,        (* What tty_read has stored from &ch on.                     *)
  echo,       (* What tty_write has yet to send to the console.            *)
  screen,     (* The video memory and the position in it.                  *)
  cursor,     (* The cursor register of the CRT controller.                *)
  iflag,      (* Are interrupts enabled?                                   *)
  in_setup,
  tty_devices, tty_printk,
  buf,        (* The buffer of vprintk: pieces of text.                    *)
  num, nw,    (* How many of them tty_write is to write and has written.   *)
  ret,        (* Where vprintk returns to.                                 *)
  chip,       (* Is the UART in time for the test of init_port?            *)
  uart,       (* Its registers.                                            *)
  line,       (* What the terminal on the serial line has received.        *)
  printed,    (* What the kernel has printed since there are terminals.    *)
  moved       (* How often the mouse has moved.                            *)

echoVars == <<fifo, got, echo, screen, cursor>>
printVars == <<buf, num, nw, ret, printed>>
bootVars == <<iflag, in_setup, tty_devices, tty_printk, printVars, chip, uart, line, moved>>
vars == <<pc, echoVars, bootVars>>

(* The registers of a 16550 that matter, at reset. *)
Reset == [dlab |-> FALSE, dll |-> 1, dlm |-> 0, loop |-> FALSE]

Init ==
  /\ pc = "int3"
  /\ fifo = << >>
  /\ got = << >>
  /\ echo = << >>
  /\ screen = [vidmem |-> [i \in Cell |-> Noise], posx |-> 0, posy |-> 0]
  /\ cursor = 0
  /\ iflag = FALSE
  /\ in_setup = TRUE
  /\ tty_devices = << >>
  /\ tty_printk = 0
  /\ buf = << >>
  /\ num = 0
  /\ nw = 0
  /\ ret = "int3"
  /\ chip \in {"good", "late"}
  /\ uart = Reset
  /\ line = << >>
  /\ printed = << >>
  /\ moved = 0

-----------------------------------------------------------------------------
(* The UART. *)

(* A character arrives as itself if both ends have the same baud rate.     *)
Transmit(text) ==
  line' = IF uart.loop THEN line
          ELSE line \o [k \in DOMAIN text |->
                 IF uart.dll + 256 * uart.dlm = 115200 \div 9600 THEN text[k] ELSE "garbage"]

(* outb(COM1 + offset, value). *)
Outb(offset, value) ==
  CASE offset = 0 /\ uart.dlab ->
         uart' = [uart EXCEPT !.dll = value] /\ UNCHANGED line
    [] offset = 0 /\ ~uart.dlab -> UNCHANGED uart /\ Transmit(<<value>>)
    [] offset = 1 /\ uart.dlab ->
         uart' = [uart EXCEPT !.dlm = value] /\ UNCHANGED line
    [] offset = 3 -> uart' = [uart EXCEPT !.dlab = value >= 128] /\ UNCHANGED line
    [] offset = 4 -> uart' = [uart EXCEPT !.loop = (value \div 16) % 2 = 1] /\ UNCHANGED line
    [] OTHER -> UNCHANGED <<uart, line>>

divisor(baud) == 115200 \div baud

(* What init_port writes to the registers, up to the test byte. *)
PortSetup(baud) ==
  << <<1, 0>>, <<3, 128>>, <<0, divisor(baud) % 256>>, <<1, divisor(baud) \div 65536>>,
     <<3, 3>>, <<2, 199>>, <<4, 11>>, <<4, 30>>, <<0, 174>> >>

-----------------------------------------------------------------------------
(* Printing. *)

HelloWorld == <<"Hello World!", "\n">>
HelloBack == <<"Hello back", "\n">>
Initializing == <<"atkbd: initializing the 8042.\n">>
NoUsablePorts == <<"atkbd: no usable PS/2 ports", ".\n">>
Complete == <<"atkbd: 8042 initialization", "sequence complete", ".\n">>
Exception == <<"Exception: debug", "\n">>
Movement == <<"x: ...", "y: ...">>

(* vsnprintf(buf, ...): what was in buf behind the text stays there. *)
Formatted(text) == text \o SubSeq(buf, Len(text) + 1, Len(buf))

(* A call of printk, after which the kernel is at place. *)
printk(text, place) ==
  /\ buf' = Formatted(text)
  /\ num' = Len(text)
  /\ nw' = 0
  /\ ret' = place
  /\ printed' = IF tty_devices = << >> THEN printed ELSE printed \o text
  /\ pc' = "printk"

(* The device of printk; there is none before tty_init. *)
Device == IF tty_printk < Len(tty_devices) THEN tty_devices[tty_printk + 1] ELSE "none"

(* tty_write's loop and, on the serial device, serial_write. *)
PrintPiece ==
  /\ pc = "printk"
  /\ Device # "none"
  /\ nw < num
  /\ IF Device = "serial" THEN Transmit(<<buf[nw + 1]>>) ELSE UNCHANGED line
  /\ nw' = nw + 1
  /\ UNCHANGED <<pc, echoVars, iflag, in_setup, tty_devices, tty_printk, buf, num, ret, chip,
                 uart, printed, moved>>

PrintEnd ==
  /\ pc = "printk"
  /\ Device = "none" \/ nw >= num
  /\ pc' = ret
  /\ UNCHANGED <<echoVars, bootVars>>

-----------------------------------------------------------------------------
(* The boot. *)

Boot(place) == pc = place /\ UNCHANGED <<fifo, got, echo, chip, moved>>

(* int $3 in kernel_entry, to try out the IDT: its message gets nowhere. *)
Int3 ==
  /\ Boot("int3")
  /\ printk(Exception, "null")
  /\ UNCHANGED <<screen, cursor, iflag, in_setup, tty_devices, tty_printk, uart, line>>

register_tty(dev) ==
  tty_devices' = IF Len(tty_devices) < 32 THEN Append(tty_devices, dev) ELSE tty_devices

RegisterNull ==
  /\ Boot("null")
  /\ register_tty("null")
  /\ pc' = "port"
  /\ nw' = 0
  /\ UNCHANGED <<screen, cursor, iflag, in_setup, tty_printk, buf, num, ret, printed, uart, line>>

(* init_port(COM1, 9600), a write at a time; nw counts them. *)
SetUpPort ==
  /\ Boot("port")
  /\ nw < Len(PortSetup(9600))
  /\ Outb(PortSetup(9600)[nw + 1][1], PortSetup(9600)[nw + 1][2])
  /\ nw' = nw + 1
  /\ UNCHANGED <<pc, screen, cursor, iflag, in_setup, tty_devices, tty_printk, buf, num, ret,
                 printed>>

(* The test byte is read back, or not; serial_init registers the port all  *)
(* the same.                                                               *)
TestPort ==
  /\ Boot("port")
  /\ nw >= Len(PortSetup(9600))
  /\ IF uart.loop /\ chip = "good" THEN Outb(4, 15) ELSE UNCHANGED <<uart, line>>
  /\ register_tty("serial")
  /\ pc' = "vgatm"
  /\ UNCHANGED <<screen, cursor, iflag, in_setup, tty_printk, printVars>>

vgatm_init ==
  /\ Boot("vgatm")
  /\ screen' = ClearScreen
  /\ cursor' = 0
  /\ register_tty("vgatm")
  /\ pc' = "hello"
  /\ UNCHANGED <<iflag, in_setup, tty_printk, printVars, uart, line>>

Hello ==
  /\ Boot("hello")
  /\ tty_printk' = 1
  /\ printk(HelloWorld, "init_atkbd")
  /\ UNCHANGED <<screen, cursor, iflag, in_setup, tty_devices, uart, line>>

init_atkbd ==
  /\ Boot("init_atkbd")
  /\ in_setup' = TRUE
  /\ printk(Initializing, "8042")
  /\ UNCHANGED <<iflag, screen, cursor, tty_devices, tty_printk, uart, line>>

(* It gives up on a controller that fails its tests, and kernel_main does  *)
(* not ask.                                                                *)
GiveUp ==
  /\ Boot("8042")
  /\ printk(NoUsablePorts, "back")
  /\ UNCHANGED <<iflag, in_setup, screen, cursor, tty_devices, tty_printk, uart, line>>

(* It enables interrupts for a moment, to get rid of them. *)
OpenWindow ==
  /\ Boot("8042")
  /\ iflag' = TRUE
  /\ pc' = "window"
  /\ UNCHANGED <<screen, cursor, in_setup, tty_devices, tty_printk, printVars, uart, line>>

(* Mistake: interrupts stay enabled. *)
CloseWindow_open ==
  /\ Boot("window")
  /\ in_setup' = FALSE
  /\ printk(Complete, "back")
  /\ UNCHANGED <<iflag, screen, cursor, tty_devices, tty_printk, uart, line>>

CloseWindow ==
  /\ Boot("window")
  /\ iflag' = FALSE
  /\ in_setup' = FALSE
  /\ printk(Complete, "back")
  /\ UNCHANGED <<screen, cursor, tty_devices, tty_printk, uart, line>>

Back ==
  /\ Boot("back")
  /\ printk(HelloBack, "sti")
  /\ UNCHANGED <<iflag, in_setup, screen, cursor, tty_devices, tty_printk, uart, line>>

Sti ==
  /\ Boot("sti")
  /\ iflag' = TRUE
  /\ pc' = "read"
  /\ UNCHANGED <<screen, cursor, in_setup, tty_devices, tty_printk, printVars, uart, line>>

-----------------------------------------------------------------------------
(* Interrupts.  The gates clear IF, so that a handler is one step. *)

(* vgatm_keyboard_handler, for the press of a key. *)
KeyPress(c) ==
  /\ iflag
  /\ ~in_setup
  /\ Len(got) + Len(fifo) < MaxBacklog
  /\ fifo' = IF Len(fifo) < Capacity THEN Append(fifo, c) ELSE fifo
  /\ UNCHANGED <<pc, got, echo, screen, cursor, bootVars>>

(* mouse_handle prints, whatever vprintk is doing for the kernel. *)
MouseMove ==
  /\ iflag
  /\ moved < MaxMouse
  /\ moved' = moved + 1
  /\ IF in_setup THEN UNCHANGED <<buf, line, printed>>
     ELSE /\ buf' = Formatted(Movement)
          /\ IF Device = "serial" THEN Transmit(Movement) ELSE UNCHANGED line
          /\ printed' = printed \o Movement
  /\ UNCHANGED <<pc, echoVars, iflag, in_setup, tty_devices, tty_printk, num, nw, ret, chip, uart>>

-----------------------------------------------------------------------------
(* The loop, with tty = 2: that is the console. *)

Looping(place) == pc = place /\ tty_devices[2 + 1] = "vgatm" /\ UNCHANGED bootVars

(* tty_read waits for a key. *)
Wait == Looping("read") /\ got = << >> /\ fifo = << >> /\ UNCHANGED echoVars /\ UNCHANGED pc

(* It empties the queue, whatever it has been asked for. *)
Read ==
  /\ Looping("read")
  /\ fifo # << >>
  /\ got' = Append(got, Head(fifo))
  /\ fifo' = Tail(fifo)
  /\ UNCHANGED <<pc, echo, screen, cursor>>

(* The variable ch.  What tty_read stored past it is lost: with the flags  *)
(* of the Makefile, the bytes above ch are padding and the frames of       *)
(* functions that never return.                                            *)
ch == Head(got)

(* Mistake: the backspace is echoed as it is. *)
EchoOf_plain(c) == <<c>>

(* The buffers that the loop passes to tty_write. *)
EchoOf(c) == IF c = BS THEN <<BS, Blank, BS>> ELSE <<c>>

(* Mistake: '\0' is echoed. *)
ReadEnd_with_nul ==
  /\ Looping("read")
  /\ fifo = << >>
  /\ got # << >>
  /\ pc' = "write"
  /\ echo' = EchoOf(ch)
  /\ UNCHANGED <<fifo, got, screen, cursor>>

(* tty_read returns, and the loop acts on the character. *)
ReadEnd ==
  /\ Looping("read")
  /\ fifo = << >>
  /\ got # << >>
  /\ IF ch = NUL
       THEN got' = << >> /\ UNCHANGED <<pc, echo>>
       ELSE pc' = "write" /\ echo' = EchoOf(ch) /\ UNCHANGED got
  /\ UNCHANGED <<fifo, screen, cursor>>

Write ==
  /\ Looping("write")
  /\ echo # << >>
  /\ screen' = send(screen, Head(echo))
  /\ echo' = Tail(echo)
  /\ UNCHANGED <<fifo, pc, got, cursor>>

(* vgatm_write moves the cursor, tty_write returns, and the loop starts    *)
(* again.                                                                  *)
WriteEnd ==
  /\ Looping("write")
  /\ echo = << >>
  /\ cursor' = CursorRegister(screen)
  /\ got' = << >>
  /\ pc' = "read"
  /\ UNCHANGED <<fifo, echo, screen>>

Loop == Wait \/ Read \/ ReadEnd \/ Write \/ WriteEnd

Booting ==
  \/ Int3 \/ RegisterNull \/ SetUpPort \/ TestPort \/ vgatm_init
  \/ Hello \/ init_atkbd \/ GiveUp \/ OpenWindow \/ CloseWindow \/ Back \/ Sti

Kernel == PrintPiece \/ PrintEnd \/ Booting \/ Loop

Next == (\E c \in Char : KeyPress(c)) \/ MouseMove \/ Kernel

Spec == Init /\ [][Next]_vars

(* Interrupts return to the kernel. *)
FairSpec == Spec /\ WF_vars(Kernel)

-----------------------------------------------------------------------------
(* The serial line has all that the kernel and its mouse handler have      *)
(* printed since there are terminals, message after message, at the rate   *)
(* of 9600 baud (serial_init, vprintk); but nothing at all if the UART was *)
(* too late for init_port, which then leaves it in loopback mode.          *)
LineShowsMessages ==
  pc # "printk" => line = IF chip = "good" THEN printed ELSE << >>

(* Between two echoes the cursor is shown where the next character goes,   *)
(* and no trace of an erased or scrolled one is left behind it.            *)
CleanAfterCursor ==
  pc = "read" =>
    /\ cursor = Position(screen)
    /\ \A i \in Cell : i >= cursor => screen.vidmem[i] = Blank

(* The cells before the position of screen s. *)
TextOn(s) == [i \in 1 .. Position(s) |-> s.vidmem[i - 1]]

(* Has the first character of the echo reached the screen? *)
Appeared == pc = "write" /\ echo # EchoOf(ch)

(* Erasing a cell has written its blank when one BS of "\b \b" is left.    *)
Editor == INSTANCE EchoedText WITH
  Typed   <- Char,
  waiting <- (IF got # << >> /\ ~Appeared THEN <<ch>> ELSE << >>) \o fifo,
  shown   <- TextOn(IF echo = <<BS>> THEN StepBack(screen) ELSE screen)

(* The screen shows what the keys have typed, edited by the backspace key  *)
(* across lines, in order and sooner or later for every key; a key is lost *)
(* only when it was pressed before the previous one was echoed.            *)
ScreenShowsTyping == Editor!Spec
=============================================================================
