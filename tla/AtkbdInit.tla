----------------------------- MODULE AtkbdInit -----------------------------
(***************************************************************************)
(* The start of the keyboard driver (init_atkbd in arch/i386/atkbd.c): it  *)
(* configures the 8042, resets and identifies the device on each port,     *)
(* starts the ones it has a driver for, and discards their interrupts.     *)
(*                                                                         *)
(* The kernel polls with interrupts disabled.  Meanwhile the devices send  *)
(* their answers, and what the user types, one byte after the other into   *)
(* the one-byte output buffer of the 8042, and the interrupt controller    *)
(* remembers their interrupts.  A value of the configuration byte is the   *)
(* set of its bits that are 1.                                             *)
(***************************************************************************)
EXTENDS Integers, Sequences, SequencesExt

CONSTANTS
  Machines,     (* The hardware the kernel may find: see Machine.          *)
  Flaky,        (* The commands that a device may ask to be sent again.    *)
  MaxResends,   (* Bound: how often devices do that.                       *)
  TypeAt,       (* The values of pc at which the user may touch a device.  *)
  MaxTyped      (* Bound: how often the user does that.                    *)

Port == {0, 1}

IrqBit(p) == p

OffBit(p) == 4 + p

TranslationBit == 6

Config == SUBSET {0, 1, 4, 5, 6}

Kinds == {"keyboard", "mouse", "ancient", "broken"}

Machine == [
  chan   : {"single", "dual", "stuck"},  (* One port, two, or one with bit 5 stuck. *)
  good   : BOOLEAN,                      (* Does the self-test succeed?        *)
  resets : BOOLEAN,                      (* Does it reset the configuration?   *)
  tests  : SUBSET Port,                  (* The ports whose test succeeds.     *)
  dev    : [Port -> Kinds],
  bios   : Config ]                      (* The configuration at boot.         *)

ASSUME InitAssumption ==
  /\ Machines \subseteq Machine
  /\ MaxResends \in Nat
  /\ MaxTyped \in Nat

VARIABLES
  machine,    (* The hardware; it does not change.                         *)
  config,     (* The configuration byte of the 8042.                       *)
  obf,        (* Its output buffer: a port and the byte it sent, or none.  *)
  out,        (* The bytes each device has yet to send.                    *)
  scanning,   (* The ports whose device sends what the user does.          *)
  irr,        (* The ports whose interrupt is requested.                   *)
  resends, typed,
  pc,         (* Where init_atkbd is.                                      *)
  port,       (* The port at which check_port is.                          *)
  cmd,        (* The command it sends.                                     *)
  cfg, dualchan, ident,   (* Local variables.                              *)
  ports, devs,            (* struct atkbd: usable ports, their drivers.    *)
  in_setup

hardware == <<machine, config, obf, out, scanning, irr, resends, typed>>
locals   == <<port, cmd, cfg, dualchan, ident>>
vars     == <<hardware, pc, locals, ports, devs, in_setup>>

Channels == IF machine.chan = "single" THEN {0} ELSE Port

(* The keyboard works at boot, and the user may have pressed a key.        *)
Init ==
  /\ machine \in Machines
  /\ config = machine.bios
  /\ obf \in {<< >>, <<<<0, "key">>>>}
  /\ out = [p \in Port |-> << >>]
  /\ scanning = {p \in Channels : machine.dev[p] = "keyboard"}
  /\ irr = {p \in Port : obf # << >> /\ p = 0 /\ IrqBit(p) \in config}
  /\ resends = 0
  /\ typed = 0
  /\ pc = "disable"
  /\ port = 0
  /\ cmd = "none"
  /\ cfg = {}
  /\ dualchan = FALSE
  /\ ident = << >>
  /\ ports = {}
  /\ devs = [p \in Port |-> "NULL"]
  /\ in_setup = TRUE

-----------------------------------------------------------------------------
(* The devices. *)

(* The 8042 lets a device send when its buffer is empty, and requests an   *)
(* interrupt if the configuration says so.                                 *)
Transfer(p) ==
  /\ out[p] # << >>
  /\ obf = << >>
  /\ OffBit(p) \notin config
  /\ obf' = <<<<p, Head(out[p])>>>>
  /\ out' = [out EXCEPT ![p] = Tail(@)]
  /\ irr' = IF IrqBit(p) \in config THEN irr \cup {p} ELSE irr
  /\ UNCHANGED <<machine, config, scanning, resends, typed, pc, locals, ports, devs, in_setup>>

Type(p) ==
  /\ typed < MaxTyped
  /\ pc \in TypeAt
  /\ p \in scanning
  /\ typed' = typed + 1
  /\ out' = [out EXCEPT ![p] = Append(@, "key")]
  /\ UNCHANGED <<machine, config, obf, scanning, irr, resends, pc, locals, ports, devs, in_setup>>

(* What a device answers to a command. *)
Identification(kind) ==
  CASE kind = "keyboard" -> <<"AB", "83">>
    [] kind = "mouse"    -> <<"00">>
    [] OTHER             -> << >>

Answer(kind, c) ==
  CASE c = "FF" /\ kind = "broken" -> <<"FC">>
    [] c = "FF" /\ kind = "mouse"  -> <<"FA", "AA", "00">>
    [] c = "FF" /\ kind \notin {"broken", "mouse"}
                                   -> <<"FA", "AA">>
    [] c = "F2"                    -> <<"FA">> \o Identification(kind)
    [] c = "EE"                    -> <<"EE">>
    [] OTHER                       -> <<"FA">>

ScansAfter(c, p) ==
  CASE c = "FF" -> IF machine.dev[p] = "keyboard" THEN scanning \cup {p} ELSE scanning \ {p}
    [] c = "F4" -> scanning \cup {p}
    [] c = "F5" -> scanning \ {p}
    [] OTHER    -> scanning

(* A byte for a device enables its port.  The device takes the command, or *)
(* wants to have it again; a reset also empties its own buffer.            *)
Deliver(p, c) ==
  /\ config' = config \ {OffBit(p)}
  /\ \/ /\ out' = [out EXCEPT ![p] = (IF c = "FF" THEN << >> ELSE @) \o Answer(machine.dev[p], c)]
        /\ scanning' = ScansAfter(c, p)
        /\ UNCHANGED resends
     \/ /\ c \in Flaky
        /\ resends < MaxResends
        /\ out' = [out EXCEPT ![p] = Append(@, "FE")]
        /\ resends' = resends + 1
        /\ UNCHANGED scanning

-----------------------------------------------------------------------------
(* The 8042.  Both ports are disabled, so that its answers are read at     *)
(* once; at the first one the interrupts of the boot are still enabled.    *)

(* Commands 0xAD and 0xA7, and the read that flushes the buffer. *)
Disable ==
  /\ pc = "disable"
  /\ config' = config \cup {OffBit(p) : p \in Channels}
  /\ obf' = << >>
  /\ pc' = "configure"
  /\ UNCHANGED <<machine, out, scanning, irr, resends, typed, locals, ports, devs, in_setup>>

(* Mistake: the translation of the scan codes stays on. *)
Configure_translated ==
  /\ pc = "configure"
  /\ dualchan' = (OffBit(1) \in config)
  /\ cfg' = config \ {IrqBit(0), IrqBit(1)}
  /\ config' = cfg'
  /\ irr' = IF IrqBit(0) \in config THEN irr \cup {0} ELSE irr
  /\ pc' = "selftest"
  /\ UNCHANGED <<machine, obf, out, scanning, resends, typed, port, cmd, ident, ports, devs, in_setup>>

Configure ==
  /\ pc = "configure"
  /\ dualchan' = (OffBit(1) \in config)
  /\ cfg' = config \ {IrqBit(0), IrqBit(1), TranslationBit}
  /\ config' = cfg'
  /\ irr' = IF IrqBit(0) \in config THEN irr \cup {0} ELSE irr
  /\ pc' = "selftest"
  /\ UNCHANGED <<machine, obf, out, scanning, resends, typed, port, cmd, ident, ports, devs, in_setup>>

SelfTest ==
  /\ pc = "selftest"
  /\ IF machine.good
       THEN config' = cfg /\ pc' = "checkdual"
       ELSE config' = (IF machine.resets THEN machine.bios ELSE config) /\ pc' = "failed"
  /\ UNCHANGED <<machine, obf, out, scanning, irr, resends, typed, locals, ports, devs, in_setup>>

(* Command 0xA8 clears bit 5 unless it is stuck, and 0xA7 sets it again. *)
CheckDual ==
  /\ pc = "checkdual"
  /\ dualchan' = (dualchan /\ machine.chan = "dual")
  /\ cfg' = IF ~dualchan THEN cfg
            ELSE IF dualchan' THEN config \ {OffBit(1)} ELSE config
  /\ pc' = "testports"
  /\ UNCHANGED <<hardware, port, cmd, ident, ports, devs, in_setup>>

TestPorts ==
  /\ pc = "testports"
  /\ ports' = {p \in machine.tests : p = 1 => dualchan}
  /\ pc' = IF ports' = {} THEN "failed" ELSE "enable"
  /\ UNCHANGED <<hardware, locals, devs, in_setup>>

(* Mistake: the interrupts stay off. *)
Enable_without_interrupts ==
  /\ pc = "enable"
  /\ cfg' = config
  /\ config' = config \ {OffBit(p) : p \in ports}
  /\ pc' = "writeback"
  /\ UNCHANGED <<machine, obf, out, scanning, irr, resends, typed, port, cmd, dualchan, ident,
                 ports, devs, in_setup>>

(* The configuration is read, then the usable ports are enabled by command *)
(* (0xAE, 0xA8).                                                           *)
Enable ==
  /\ pc = "enable"
  /\ cfg' = config \cup {IrqBit(p) : p \in ports}
  /\ config' = config \ {OffBit(p) : p \in ports}
  /\ pc' = "writeback"
  /\ UNCHANGED <<machine, obf, out, scanning, irr, resends, typed, port, cmd, dualchan, ident,
                 ports, devs, in_setup>>

StartCheck(p) == port' = p /\ cmd' = "FF" /\ pc' = "send"

WriteBack ==
  /\ pc = "writeback"
  /\ config' = cfg
  /\ irr' = irr \cup {p \in Port : obf # << >> /\ obf[1][1] = p /\ IrqBit(p) \in cfg}
  /\ StartCheck(IF 0 \in ports THEN 0 ELSE 1)
  /\ UNCHANGED <<machine, obf, out, scanning, resends, typed, cfg, dualchan, ident, ports, devs,
                 in_setup>>

-----------------------------------------------------------------------------
(* check_port. *)

(* check_port is done with its port. *)
Leave ==
  IF port = 0 /\ 1 \in ports
    THEN StartCheck(1)
    ELSE pc' = "window" /\ UNCHANGED <<port, cmd>>

Continue(c) == cmd' = c /\ pc' = "send" /\ UNCHANGED port

(* After the last answer to a command. *)
Answered ==
  CASE cmd = "F5" -> Continue("F2")
    [] cmd = "F2" -> pc' = "ident" /\ UNCHANGED <<port, cmd>>
    [] cmd = "EE" -> Continue("F4")
    [] cmd = "F4" -> Leave

(* send_datap. *)
Send ==
  /\ pc = "send"
  /\ Deliver(port, cmd)
  /\ ident' = << >>
  /\ pc' = "receive"
  /\ UNCHANGED <<machine, obf, irr, typed, port, cmd, cfg, dualchan, ports, devs, in_setup>>

(* recv_data, whatever the port that sent the byte. *)
Received == obf # << >> /\ obf' = << >>

resp == obf[1][2]

OnlyReads ==
  UNCHANGED <<machine, config, out, scanning, irr, resends, typed, cfg, dualchan, ident, ports,
              devs, in_setup>>

(* The answer to the reset. *)
ReceiveReset ==
  /\ pc = "receive"
  /\ cmd = "FF"
  /\ Received
  /\ CASE resp = "FA" -> Continue("F5")
       [] resp = "FE" -> Continue("FF")
       [] OTHER       -> Leave
  /\ OnlyReads

(* Mistake: whatever comes is taken for the acknowledgement. *)
Receive_anything ==
  /\ pc = "receive"
  /\ cmd # "FF"
  /\ Received
  /\ IF resp = "FE" THEN Continue(cmd) ELSE Answered
  /\ OnlyReads

(* send_cmdp, where wait_ACK is set for 0xF5 and 0xF2. *)
Receive ==
  /\ pc = "receive"
  /\ cmd # "FF"
  /\ Received
  /\ CASE resp = "FE"                           -> Continue(cmd)
       [] resp # "FE" /\ resp # "FA" /\ cmd \in {"F5", "F2"}
                                                -> pc' = "acknowledge" /\ UNCHANGED <<port, cmd>>
       [] OTHER                                 -> Answered
  /\ OnlyReads

Acknowledge ==
  /\ pc = "acknowledge"
  /\ Received
  /\ IF resp = "FA" THEN Answered ELSE UNCHANGED <<pc, port, cmd>>
  /\ OnlyReads


(* recv_data_wto.  A device that has something to send is faster than the  *)
(* timeout.                                                                *)
ReceiveIdent ==
  /\ pc = "ident"
  /\ Received
  /\ ident' = Append(ident, resp)
  /\ pc' = IF Len(ident') = 2 THEN "identified" ELSE "ident"
  /\ UNCHANGED <<machine, config, out, scanning, irr, resends, typed, port, cmd, cfg, dualchan,
                 ports, devs, in_setup>>

(* Mistake: recv_data, which has no timeout, is called instead. *)
TimeOut_never == pc = "ident" /\ obf # << >> /\ UNCHANGED vars

TimeOut ==
  /\ pc = "ident"
  /\ obf = << >>
  /\ out[port] = << >>
  /\ ident' = ident \o [i \in 1 .. 2 - Len(ident) |-> "FF"]
  /\ pc' = "identified"
  /\ UNCHANGED <<hardware, port, cmd, cfg, dualchan, ports, devs, in_setup>>

(* The table atkbd_drivers, whose first entry is "Unknown". *)
atkbd_drivers == <<
  <<"Unknown", <<"FF", "FF">>>>,
  <<"MF2 keyboard", <<"AB", "83">>>>,
  <<"PS/2 mouse", <<"00", "FF">>>>,
  <<"Mouse w/ scroll wheel", <<"03", "FF">>>>,
  <<"5-button mouse", <<"04", "FF">>>>,
  <<"MF2 keyboard w/ translation", <<"AB", "41">>>>,
  <<"MF2 keyboard w/ translation", <<"AB", "C1">>>>,
  <<"ancient AT keyboard w/ translation", <<"FF", "FF">>>> >>

Driver(id) ==
  LET match == SelectInSubSeq(atkbd_drivers, 2, Len(atkbd_drivers), LAMBDA d : d[2] = id)
  IN  atkbd_drivers[IF match = 0 THEN 1 ELSE match][1]

(* Mistake: a device whose driver has no init is left without a driver. *)
Identify_without_default ==
  /\ pc = "identified"
  /\ CASE Driver(ident) = "MF2 keyboard" ->
             devs' = [devs EXCEPT ![port] = Driver(ident)] /\ Continue("EE")
       [] Driver(ident) = "PS/2 mouse" ->
             devs' = [devs EXCEPT ![port] = Driver(ident)] /\ Continue("F4")
       [] OTHER -> Leave /\ UNCHANGED devs
  /\ UNCHANGED <<hardware, cfg, dualchan, ident, ports, in_setup>>

(* The driver is looked up, and its init called. *)
Identify ==
  /\ pc = "identified"
  /\ devs' = [devs EXCEPT ![port] = Driver(ident)]
  /\ CASE Driver(ident) = "MF2 keyboard" -> Continue("EE")
       [] Driver(ident) = "PS/2 mouse"   -> Continue("F4")
       [] OTHER                          -> Leave
  /\ UNCHANGED <<hardware, cfg, dualchan, ident, ports, in_setup>>

-----------------------------------------------------------------------------
(* sti(); io_wait(); cli(): handle_keyboard and handle_mouse are called    *)
(* for the interrupts requested so far, and return without reading a byte  *)
(* because of in_setup.  Without a driver they dereference NULL, and       *)
(* anything may happen.                                                    *)
Interrupt(p) ==
  /\ pc = "window"
  /\ p \in irr
  /\ irr' = irr \ {p}
  /\ pc' = IF devs[p] = "NULL" THEN "wild" ELSE "window"
  /\ UNCHANGED <<machine, config, obf, out, scanning, resends, typed, locals, ports, devs, in_setup>>

Finish ==
  /\ pc = "window"
  /\ irr = {}
  /\ in_setup' = FALSE
  /\ pc' = "done"
  /\ UNCHANGED <<hardware, locals, ports, devs>>

-----------------------------------------------------------------------------
Kernel ==
  \/ Disable \/ Configure \/ SelfTest \/ CheckDual \/ TestPorts \/ Enable \/ WriteBack
  \/ Send \/ ReceiveReset \/ Receive \/ Acknowledge \/ ReceiveIdent \/ TimeOut \/ Identify
  \/ Finish \/ \E p \in Port : Interrupt(p)

Next == Kernel \/ \E p \in Port : Transfer(p) \/ Type(p)

Spec == Init /\ [][Next]_vars

(* The processor goes on, and the devices send.                            *)
FairSpec == Spec /\ WF_vars(Kernel) /\ WF_vars(\E p \in Port : Transfer(p))

-----------------------------------------------------------------------------
(* The driver that each kind of device is meant to get. *)
DriverFor(kind) ==
  CASE kind = "keyboard" -> "MF2 keyboard"
    [] kind = "mouse"    -> "PS/2 mouse"
    [] kind = "ancient"  -> "ancient AT keyboard w/ translation"

(* However the answers of the devices, late ones to the reset among them,  *)
(* and repetitions of commands interleave, every device of a usable port   *)
(* gets its driver, and those with an init are left scanning.              *)
Identified ==
  pc = "done" =>
    \A p \in ports :
      /\ devs[p] = DriverFor(machine.dev[p])
      /\ p \in scanning <=> machine.dev[p] \in {"keyboard", "mouse"}

(* The driver hands the hardware over with nothing left in it: no byte in  *)
(* the buffer or on its way, which would block the keyboard, no interrupt, *)
(* the usable ports on with their interrupts, the others off, and no       *)
(* translation of the scan codes.                                          *)
HandedOver ==
  pc = "done" /\ typed = 0 =>
    /\ obf = << >>
    /\ \A p \in Port : out[p] = << >>
    /\ irr = {}
    /\ config \cap {IrqBit(0), IrqBit(1), TranslationBit} = {IrqBit(p) : p \in ports}
    /\ \A p \in Channels : OffBit(p) \in config <=> p \notin ports

(* When interrupts are enabled, every interrupt finds a driver: handlers   *)
(* dereference devs[p] without looking.                                    *)
DriverPresent == pc \in {"window", "done"} => \A p \in irr : devs[p] # "NULL"

(* From the message "8042 initialization sequence complete." on, a byte in  *)
(* the buffer has its interrupt: nobody else will read it, and no other    *)
(* byte gets in.                                                           *)
BufferIsServed == pc = "done" /\ obf # << >> => irr # {}

(* The driver never waits for a byte that no device is going to send.      *)
InitReturns == <>(pc \in {"done", "failed"})

=============================================================================
