-------------------------- MODULE AtkbdInitProofs --------------------------
(***************************************************************************)
(* Theorems about the start of the keyboard driver, for every controller,  *)
(* working devices, and any number of repeated commands: the devices are   *)
(* identified, the hardware is handed over clean, every interrupt finds a  *)
(* driver, and no byte is left without an interrupt.                       *)
(***************************************************************************)
EXTENDS AtkbdInit, SequenceTheorems, TLAPS

(* Nobody touches a device until the driver has been started, which is     *)
(* what keeps it from working otherwise.                                   *)
HandsOff == TypeAt \subseteq {"done", "failed"}

(* The devices of the ports whose test succeeds work, and the firmware has *)
(* not enabled the interrupts of a port whose test fails.                  *)
Working ==
  \A m \in Machines :
    /\ \A p \in m.tests : m.dev[p] # "broken"
    /\ IrqBit(0) \in m.bios => 0 \in m.tests

-----------------------------------------------------------------------------
(* The inductive invariant.  Where the driver is: *)
Configuring == {"disable", "configure", "selftest", "checkdual", "testports", "enable", "writeback"}
Checking    == {"send", "receive", "acknowledge", "ident", "identified"}
Ready       == {"window", "done"}

Byte == {"AA", "AB", "83", "00", "FA", "FC", "FE", "EE", "key"}

Types ==
  /\ machine \in Machines
  /\ config \subseteq {0, 1, 4, 5, 6}
  /\ cfg \subseteq {0, 1, 4, 5, 6}
  /\ obf = << >> \/ \E p \in Port, b \in Byte : obf = <<<<p, b>>>>
  /\ out \in [Port -> Seq(Byte)]
  /\ scanning \subseteq Port
  /\ irr \subseteq Port
  /\ typed \in Nat
  /\ pc \in Configuring \cup Checking \cup Ready \cup {"failed"}
  /\ port \in Port
  /\ ports \subseteq Port
  /\ DOMAIN devs = Port
  /\ typed # 0 => pc \in {"done", "failed"}

(* The configuration.  A port is off until it has been found usable, and   *)
(* the interrupts are those of the usable ports.                           *)
Irqs(c) == c \cap {IrqBit(0), IrqBit(1), TranslationBit}

AllOff(c) == \A p \in Channels : OffBit(p) \in c

Configured ==
  /\ pc = "disable" => config = machine.bios
  /\ pc = "configure" => AllOff(config) /\ (IrqBit(0) \in config => 0 \in machine.tests)
  /\ pc = "selftest" => cfg = config
  /\ pc \in {"selftest", "checkdual", "testports", "enable"} =>
       Irqs(config) = {} /\ AllOff(config)
  /\ pc = "writeback" => Irqs(cfg) = ports /\ AllOff(cfg)
  /\ pc \in Checking \cup Ready =>
       Irqs(config) = ports /\ \A p \in Channels \ ports : OffBit(p) \in config

(* The ports that check_port is called for, and those it is done with.     *)
Usable ==
  /\ pc \in {"enable", "writeback"} \cup Checking \cup Ready =>
       ports # {} /\ ports \subseteq machine.tests
  /\ pc \in Checking => port \in ports
  /\ scanning \subseteq Channels \cup ports
  /\ pc \in Configuring => scanning \subseteq Channels

Checked(p) ==
  /\ devs[p] = DriverFor(machine.dev[p])
  /\ p \in scanning <=> machine.dev[p] \in {"keyboard", "mouse"}
  /\ OffBit(p) \notin config

Done ==
  \A p \in ports : pc \in Ready \/ (pc \in Checking /\ p < port) => Checked(p)

(* Interrupts are requested of usable ports only. *)
Requested ==
  /\ pc \in Configuring => irr \subseteq {0} \cap machine.tests
  /\ pc \in {"enable", "writeback"} => irr \subseteq ports
  /\ pc \in Checking \cup Ready => irr \subseteq ports

(* No byte of port p is on its way. *)
Silent(p) == out[p] = << >> /\ (obf # << >> => obf[1][1] # p)

Silence ==
  /\ pc = "disable" => \A p \in Port : out[p] = << >>
  /\ pc \in (Configuring \ {"disable"}) \cup {"window"} => \A p \in Port : Silent(p)
  /\ pc \in Checking => \A p \in Port \ {port} : Silent(p)
  /\ pc = "done" =>
       /\ obf # << >> => obf[1][1] \in irr
       /\ typed = 0 => irr = {} /\ \A p \in Port : Silent(p)
       /\ \A p \in Port : out[p] # << >> => p \in Channels \cup ports

(* What the device has yet to say, in the 8042 and behind it. *)
Stream == (IF obf = << >> THEN << >> ELSE <<resp>>) \o out[port]

Kind == machine.dev[port]

(* The end of the answer to a reset, which comes late. *)
Late == IF Kind = "mouse" THEN <<"AA", "00">> ELSE <<"AA">>

(* What is on its way after command c: the end of the answer to the reset  *)
(* is in front of the next answer.                                         *)
Answers(c) ==
  IF c = "F5"
    THEN IF Kind = "mouse" THEN {<<"AA", "00", "FA">>, <<"AA", "00", "FE">>}
                           ELSE {<<"AA", "FA">>, <<"AA", "FE">>}
    ELSE {Answer(Kind, c), <<"FE">>}

Conversation ==
  /\ pc = "send" => Stream = IF cmd = "F5" THEN Late ELSE << >>
  /\ pc = "receive" => Stream \in Answers(cmd) /\ ident = << >>
  /\ pc = "acknowledge" =>
       /\ cmd = "F5"
       /\ Stream \in {<<"00", "FA">>, <<"FA">>, <<"00", "FE">>, <<"FE">>, << >>}
  /\ pc \in {"ident", "identified"} => cmd = "F2"
  /\ pc = "ident" =>
       \/ ident = << >> /\ Stream = Identification(Kind)
       \/ ident = <<"AB">> /\ Stream = <<"83">> /\ Kind = "keyboard"
       \/ ident = <<"00">> /\ Stream = << >> /\ Kind = "mouse"
  /\ pc = "identified" =>
       /\ Stream = << >>
       /\ ident = CASE Kind = "keyboard" -> <<"AB", "83">>
                    [] Kind = "mouse"    -> <<"00", "FF">>
                    [] Kind = "ancient"  -> <<"FF", "FF">>

(* The device of the port that is being checked. *)
Device ==
  pc \in Checking =>
    /\ cmd \in {"FF", "F5", "F2", "EE", "F4"}
    /\ cmd = "EE" => Kind = "keyboard"
    /\ cmd = "F4" => Kind \in {"keyboard", "mouse"}
    /\ cmd \in {"EE", "F4"} => devs[port] = DriverFor(Kind)
    /\ pc # "send" \/ cmd # "FF" => OffBit(port) \notin config
    /\ cmd = "F5" /\ pc \in {"receive", "acknowledge"} /\ Stream # << >> =>
         (Stream[Len(Stream)] = "FA" => port \notin scanning)
    /\ cmd \in {"F2", "EE"} => port \notin scanning
    /\ cmd = "F4" /\ pc = "receive" /\ Stream = <<"FA">> => port \in scanning

IInv ==
  /\ Types /\ Configured /\ Usable /\ Done /\ Requested /\ Silence /\ Conversation /\ Device

-----------------------------------------------------------------------------
(* Sequences of bytes. *)
LEMMA Head1 ==
  ASSUME NEW S, NEW a \in S, NEW t \in Seq(S)
  PROVE  /\ <<a>> \o t \in Seq(S) /\ <<a>> \o t # << >>
         /\ Head(<<a>> \o t) = a /\ Tail(<<a>> \o t) = t
<1>1. <<a>> \in Seq(S) /\ Len(<<a>>) = 1 /\ <<a>>[1] = a
  OBVIOUS
<1>2. /\ <<a>> \o t \in Seq(S)
      /\ Len(<<a>> \o t) = 1 + Len(t)
      /\ (<<a>> \o t)[1] = a
      /\ \A i \in 1 .. Len(t) : (<<a>> \o t)[i + 1] = t[i]
  BY <1>1
<1>3. Tail(<<a>> \o t) \in Seq(S) /\ Len(Tail(<<a>> \o t)) = Len(t)
  BY <1>2
<1>4. \A i \in 1 .. Len(t) : Tail(<<a>> \o t)[i] = t[i]
  BY <1>2, <1>3
<1>5. Tail(<<a>> \o t) = t
  BY <1>3, <1>4, SeqEqual
<1> QED
  BY <1>2, <1>5

LEMMA HeadAndTail ==
  ASSUME NEW S, NEW t \in Seq(S), t # << >>
  PROVE  Head(t) \in S /\ Tail(t) \in Seq(S) /\ <<Head(t)>> \o Tail(t) = t
<1>1. Head(t) \in S /\ Tail(t) \in Seq(S)
  OBVIOUS
<1>2. /\ <<Head(t)>> \o Tail(t) \in Seq(S)
      /\ Len(<<Head(t)>> \o Tail(t)) = Len(t)
      /\ \A i \in 1 .. Len(t) : (<<Head(t)>> \o Tail(t))[i] = t[i]
  BY <1>1
<1> QED
  BY <1>1, <1>2, SeqEqual

(* The sequences that devices send, and the bytes of an identification. *)
LEMMA Pairs ==
  ASSUME NEW a, NEW b
  PROVE  <<a>> \o <<b>> = <<a, b>> /\ Append(<<a>>, b) = <<a, b>> /\ Append(<< >>, a) = <<a>>
<1> DEFINE S == {a, b}
<1>1. <<a>> \in Seq(S) /\ <<b>> \in Seq(S) /\ <<a, b>> \in Seq(S)
  OBVIOUS
<1>2. <<a>> \o <<b>> = <<a, b>>
  <2>1. /\ <<a>> \o <<b>> \in Seq(S)
        /\ Len(<<a>> \o <<b>>) = 2
        /\ (<<a>> \o <<b>>)[1] = a /\ (<<a>> \o <<b>>)[2] = b
    BY <1>1
  <2>2. Len(<<a, b>>) = 2 /\ <<a, b>>[1] = a /\ <<a, b>>[2] = b
    OBVIOUS
  <2>3. \A i \in 1 .. Len(<<a>> \o <<b>>) : (<<a>> \o <<b>>)[i] = <<a, b>>[i]
    BY <2>1, <2>2
  <2> HIDE DEF S
  <2> QED
    BY <1>1, <2>1, <2>2, <2>3, SeqEqual, Zenon
<1>3. Append(<<a>>, b) = <<a, b>>
  <2>1. /\ Append(<<a>>, b) \in Seq(S)
        /\ Len(Append(<<a>>, b)) = 2
        /\ Append(<<a>>, b)[1] = a /\ Append(<<a>>, b)[2] = b
    BY <1>1
  <2>2. Len(<<a, b>>) = 2 /\ <<a, b>>[1] = a /\ <<a, b>>[2] = b
    OBVIOUS
  <2>3. \A i \in 1 .. Len(Append(<<a>>, b)) : (Append(<<a>>, b))[i] = <<a, b>>[i]
    BY <2>1, <2>2
  <2> HIDE DEF S
  <2> QED
    BY <1>1, <2>1, <2>2, <2>3, SeqEqual, Zenon
<1>4. Append(<< >>, a) = <<a>>
  <2>1. << >> \in Seq(S)
    OBVIOUS
  <2>2. /\ Append(<< >>, a) \in Seq(S)
        /\ Len(Append(<< >>, a)) = 1
        /\ Append(<< >>, a)[1] = a
    BY <2>1
  <2>3. Len(<<a>>) = 1 /\ <<a>>[1] = a
    OBVIOUS
  <2> QED
    BY <1>1, <2>2, <2>3, SeqEqual
<1> QED
  BY <1>2, <1>3, <1>4

LEMMA Triples ==
  ASSUME NEW a, NEW b, NEW c
  PROVE  <<a, b>> \o <<c>> = <<a, b, c>>
<1> DEFINE S == {a, b, c}
<1>1. <<a, b>> \in Seq(S) /\ <<c>> \in Seq(S) /\ <<a, b, c>> \in Seq(S)
  OBVIOUS
<1>2. /\ <<a, b>> \o <<c>> \in Seq(S)
      /\ Len(<<a, b>> \o <<c>>) = 3
      /\ (<<a, b>> \o <<c>>)[1] = a
      /\ (<<a, b>> \o <<c>>)[2] = b
      /\ (<<a, b>> \o <<c>>)[3] = c
  BY <1>1
<1>3. Len(<<a, b, c>>) = 3 /\ <<a, b, c>>[1] = a /\ <<a, b, c>>[2] = b /\ <<a, b, c>>[3] = c
  OBVIOUS
<1>4. \A i \in 1 .. Len(<<a, b>> \o <<c>>) : (<<a, b>> \o <<c>>)[i] = <<a, b, c>>[i]
  BY <1>2, <1>3
<1> HIDE DEF S
<1> QED
  BY <1>1, <1>2, <1>3, <1>4, SeqEqual, Zenon

LEMMA Padded ==
  /\ <<"FF", "FF">> = << >> \o [i \in 1 .. 2 - Len(<< >>) |-> "FF"]
  /\ <<"00", "FF">> = <<"00">> \o [i \in 1 .. 2 - Len(<<"00">>) |-> "FF"]
<1>1. <<"FF", "FF">> = << >> \o [i \in 1 .. 2 - Len(<< >>) |-> "FF"]
  OBVIOUS
<1>2. <<"00", "FF">> = <<"00">> \o [i \in 1 .. 2 - Len(<<"00">>) |-> "FF"]
  OBVIOUS
<1> QED
  BY <1>1, <1>2

LEMMA Tails ==
  /\ Tail(<<"FA">>) = << >>
  /\ Tail(<<"FE">>) = << >>
  /\ Tail(<<"EE">>) = << >>
  /\ Tail(<<"00">>) = << >>
  /\ Tail(<<"83">>) = << >>
  /\ Tail(<<"FA", "AA">>) = <<"AA">>
  /\ Tail(<<"FA", "AA", "00">>) = <<"AA", "00">>
  /\ Tail(<<"FA", "00">>) = <<"00">>
  /\ Tail(<<"FA", "AB", "83">>) = <<"AB", "83">>
  /\ Tail(<<"AB", "83">>) = <<"83">>
  /\ Tail(<<"AA", "FA">>) = <<"FA">>
  /\ Tail(<<"AA", "00", "FA">>) = <<"00", "FA">>
  /\ Tail(<<"AA", "FE">>) = <<"FE">>
  /\ Tail(<<"AA", "00", "FE">>) = <<"00", "FE">>
  /\ Tail(<<"00", "FA">>) = <<"FA">>
  /\ Tail(<<"00", "FE">>) = <<"FE">>
OBVIOUS

(* The table of drivers. *)
LEMMA Drivers ==
  /\ Driver(<<"AB", "83">>) = "MF2 keyboard"
  /\ Driver(<<"00", "FF">>) = "PS/2 mouse"
  /\ Driver(<<"FF", "FF">>) = "ancient AT keyboard w/ translation"
<1>0. /\ atkbd_drivers[2][2] = <<"AB", "83">>
      /\ atkbd_drivers[3][2] = <<"00", "FF">>
      /\ atkbd_drivers[4][2] = <<"03", "FF">>
      /\ atkbd_drivers[5][2] = <<"04", "FF">>
      /\ atkbd_drivers[6][2] = <<"AB", "41">>
      /\ atkbd_drivers[7][2] = <<"AB", "C1">>
      /\ atkbd_drivers[8][2] = <<"FF", "FF">>
  BY DEF atkbd_drivers
<1>1. Len(atkbd_drivers) = 8
  BY DEF atkbd_drivers
<1>2. ASSUME NEW id, NEW k \in 2 .. 8, \A i \in 2 .. 8 : atkbd_drivers[i][2] = id <=> i = k
      PROVE  Driver(id) = atkbd_drivers[k][1]
  <2>1. {i \in 2 .. 8 : atkbd_drivers[i][2] = id} = {k}
    BY <1>2
  <2>2. Min({k}) = k
    BY DEF Min
  <2>3. SelectInSubSeq(atkbd_drivers, 2, Len(atkbd_drivers), LAMBDA d : d[2] = id) = k
    BY <1>1, <2>1, <2>2 DEF SelectInSubSeq
  <2> QED
    BY <2>3 DEF Driver
<1>3. \A i \in 2 .. 8 : atkbd_drivers[i][2] = <<"AB", "83">> <=> i = 2
  BY <1>0
<1>4. \A i \in 2 .. 8 : atkbd_drivers[i][2] = <<"00", "FF">> <=> i = 3
  BY <1>0
<1>5. \A i \in 2 .. 8 : atkbd_drivers[i][2] = <<"FF", "FF">> <=> i = 8
  BY <1>0
<1>6. /\ atkbd_drivers[2][1] = "MF2 keyboard"
      /\ atkbd_drivers[3][1] = "PS/2 mouse"
      /\ atkbd_drivers[8][1] = "ancient AT keyboard w/ translation"
  BY DEF atkbd_drivers
<1> QED
  <2>1. Driver(<<"AB", "83">>) = atkbd_drivers[2][1]
    BY <1>2, <1>3
  <2>2. Driver(<<"00", "FF">>) = atkbd_drivers[3][1]
    BY <1>2, <1>4
  <2>3. Driver(<<"FF", "FF">>) = atkbd_drivers[8][1]
    BY <1>2, <1>5
  <2> QED
    BY <1>6, <2>1, <2>2, <2>3

-----------------------------------------------------------------------------
(* The hardware, and the bytes on their way. *)
LEMMA Hardware ==
  ASSUME Types
  PROVE  /\ machine \in Machines
         /\ machine.tests \subseteq Port
         /\ machine.dev \in [Port -> Kinds]
         /\ machine.bios \subseteq {0, 1, 4, 5, 6}
         /\ Channels \subseteq Port
<1>1. machine \in Machine
  BY InitAssumption DEF Types
<1> QED
  BY <1>1 DEF Types, Machine, Config, Channels, Port

(* The device that is being checked works. *)
LEMMA DeviceWorks ==
  ASSUME Working, Types, Usable, pc \in Checking
  PROVE  Kind \in {"keyboard", "mouse", "ancient"}
<1>1. port \in machine.tests /\ Kind \in Kinds
  BY Hardware DEF Types, Usable, Checking, Kind
<1> QED
  BY <1>1, Hardware DEF Working, Kinds, Kind

LEMMA StreamType ==
  ASSUME Types
  PROVE  Stream \in Seq(Byte) /\ out[port] \in Seq(Byte) /\ (obf # << >> => resp \in Byte)
<1>1. out[port] \in Seq(Byte)
  BY DEF Types
<1>2. CASE obf = << >>
  BY <1>1, <1>2 DEF Stream
<1>3. CASE obf # << >>
  <2>1. resp \in Byte
    BY <1>3 DEF Types, resp
  <2> QED
    BY <1>1, <1>3, <2>1 DEF Stream
<1> QED
  BY <1>2, <1>3

(* What is read is the first byte on its way. *)
LEMMA Reads ==
  ASSUME Types, Received, out' = out, port' = port
  PROVE  Stream # << >> /\ resp = Head(Stream) /\ Stream' = Tail(Stream)
<1>1. obf # << >> /\ obf' = << >>
  BY DEF Received
<1>2. out[port] \in Seq(Byte) /\ resp \in Byte
  BY <1>1, StreamType
<1>3. Stream = <<resp>> \o out[port]
  BY <1>1 DEF Stream
<1>4. Stream' = << >> \o out[port]
  BY <1>1 DEF Stream
<1>5. Stream' = out[port]
  BY <1>2, <1>4
<1> HIDE DEF resp
<1> QED
  BY <1>2, <1>3, <1>5, Head1

(* A byte that moves on to the 8042 is still on its way. *)
LEMMA MovesOn ==
  ASSUME Types, port' = port, obf = << >>, out[port] # << >>,
         obf' = <<<<port, Head(out[port])>>>>, out' = [out EXCEPT ![port] = Tail(@)]
  PROVE  Stream' = Stream
<1>1. out[port] \in Seq(Byte)
  BY StreamType
<1>2. Stream = << >> \o out[port]
  BY DEF Stream
<1>3. obf' # << >> /\ resp' = Head(out[port])
  BY DEF resp
<1>4. out'[port'] = Tail(out[port])
  BY DEF Types
<1>5. Stream' = <<Head(out[port])>> \o Tail(out[port])
  BY <1>3, <1>4 DEF Stream
<1> QED
  BY <1>1, <1>2, <1>5, HeadAndTail

(* No byte is on its way when there is none in the 8042 or behind it.      *)
LEMMA NothingComes ==
  ASSUME Types, Stream = << >>
  PROVE  obf = << >> /\ out[port] = << >>
<1>1. out[port] \in Seq(Byte) /\ (obf # << >> => resp \in Byte)
  BY StreamType
<1>2. CASE obf # << >>
  <2>1. Stream = <<resp>> \o out[port]
    BY <1>2 DEF Stream
  <2> HIDE DEF resp
  <2> QED
    BY <1>1, <1>2, <2>1, Head1
<1>3. CASE obf = << >>
  BY <1>1, <1>3 DEF Stream
<1> QED
  BY <1>2, <1>3

-----------------------------------------------------------------------------
(* What the steps of check_port have in common. *)
Untouched == UNCHANGED <<machine, config, cfg, scanning, irr, typed, ports>>

(* check_port goes on with the same port. *)
LEMMA GoesOn ==
  ASSUME Types, Configured, Usable, Done, Requested, Silence,
         pc \in Checking, pc' \in Checking, port' = port,
         obf' \in {obf, << >>}, out' = out, Untouched,
         DOMAIN devs' = Port, \A p \in Port \ {port} : devs'[p] = devs[p]
  PROVE  Types' /\ Configured' /\ Usable' /\ Done' /\ Requested' /\ Silence'
<1>1. Types'
  BY DEF Types, Untouched, Checking
<1>2. Channels' = Channels
  BY DEF Channels, Untouched
<1>3. pc \notin Configuring \cup Ready /\ pc' \notin Configuring \cup Ready
  BY DEF Checking, Configuring, Ready
<1>4. Configured'
  BY <1>2, <1>3 DEF Configured, Untouched, Configuring, Ready, Checking
<1>5. Usable'
  BY <1>2, <1>3 DEF Usable, Untouched, Configuring, Ready, Checking
<1>6. Done'
  <2> SUFFICES ASSUME NEW p \in ports, p < port
               PROVE  Checked(p)'
    BY <1>3 DEF Done, Untouched
  <2>1. Checked(p)
    BY DEF Done
  <2>2. p \in Port \ {port}
    <3>1. p \in {0, 1} /\ port \in {0, 1}
      BY DEF Types, Port
    <3> QED
      BY <3>1 DEF Port
  <2> QED
    BY <2>1, <2>2 DEF Checked, Untouched
<1>7. Requested'
  BY <1>3 DEF Requested, Untouched, Configuring, Ready, Checking
<1>8. Silence'
  BY <1>3 DEF Silence, Silent, Configuring, Ready, Checking
<1> QED
  BY <1>1, <1>4, <1>5, <1>6, <1>7, <1>8

(* check_port returns, and nothing of the device is on its way.            *)
LEMMA Leaves ==
  ASSUME Types, Configured, Usable, Done, Requested, Silence,
         pc \in Checking, Leave, obf' = << >>, out' = out, out[port] = << >>, Untouched,
         DOMAIN devs' = Port, \A p \in Port \ {port} : devs'[p] = devs[p],
         devs'[port] = DriverFor(Kind),
         port \in scanning <=> Kind \in {"keyboard", "mouse"},
         OffBit(port) \notin config
  PROVE  IInv'
<1>1. \/ pc' = "window" /\ port' = port /\ ~(port = 0 /\ 1 \in ports)
      \/ pc' = "send" /\ cmd' = "FF" /\ port' = 1 /\ port = 0 /\ 1 \in ports
  BY DEF Leave, StartCheck
<1>2. port \in {0, 1} /\ ports \subseteq {0, 1} /\ port \in ports
  BY DEF Types, Port, Usable
<1>3. pc' \in {"window", "send"} /\ pc \notin Configuring \cup Ready
  BY <1>1 DEF Checking, Configuring, Ready
<1>4. \A p \in Port : out'[p] = << >>
  <2>1. \A p \in Port \ {port} : out[p] = << >>
    BY DEF Silence, Silent
  <2> QED
    BY <2>1
<1>5. Types'
  BY <1>1, <1>2 DEF Types, Untouched, Checking, Ready, Port
<1>6. Channels' = Channels
  BY DEF Channels, Untouched
<1>7. Configured'
  BY <1>3, <1>6 DEF Configured, Untouched, Ready, Checking
<1>8. Usable'
  BY <1>1, <1>2, <1>6 DEF Usable, Untouched, Configuring, Ready, Checking
<1>9. Done'
  <2> SUFFICES ASSUME NEW p \in ports, pc' \in Ready \/ p < port'
               PROVE  Checked(p)'
    BY DEF Done, Untouched
  <2>1. CASE p = port
    BY <2>1 DEF Checked, Untouched, Kind
  <2>2. CASE p # port
    <3>1. p < port
      BY <1>1, <1>2, <2>2 DEF Ready
    <3>2. Checked(p)
      BY <3>1 DEF Done
    <3>3. p \in Port \ {port}
      BY <1>2, <2>2 DEF Port
    <3> QED
      BY <3>2, <3>3 DEF Checked, Untouched
  <2> QED
    BY <2>1, <2>2
<1>10. Requested'
  BY <1>3 DEF Requested, Untouched, Configuring, Ready, Checking
<1>11. Silence'
  BY <1>3, <1>4 DEF Silence, Silent, Configuring, Ready, Checking
<1>12. Conversation'
  <2>1. Stream' = << >> \o out'[port']
    BY DEF Stream
  <2>2. out'[port'] = << >>
    BY <1>4, <1>5 DEF Types
  <2>3. Stream' = << >>
    BY <2>1, <2>2
  <2> QED
    BY <1>1, <2>3 DEF Conversation
<1>13. Device'
  BY <1>1 DEF Device, Checking
<1> QED
  BY <1>5, <1>7, <1>8, <1>9, <1>10, <1>11, <1>12, <1>13 DEF IInv

-----------------------------------------------------------------------------
(* check_port. *)

(* The rest of the invariant for a step after which check_port goes on.    *)
LEMMA Goes ==
  ASSUME IInv, pc \in Checking, pc' \in Checking, port' = port,
         obf' \in {obf, << >>}, out' = out, Untouched,
         DOMAIN devs' = Port, \A p \in Port \ {port} : devs'[p] = devs[p],
         Conversation', Device'
  PROVE  IInv'
BY GoesOn DEF IInv

(* The answers to a command, as they come. *)
LEMMA AnswersBytes ==
  ASSUME Kind \in {"keyboard", "mouse", "ancient"}, Stream \in Answers(cmd),
         cmd \in {"FF", "F5", "F2", "EE", "F4"}, cmd = "EE" => Kind = "keyboard"
  PROVE  \/ Head(Stream) = "FE" /\ Tail(Stream) = << >> /\ cmd # "F5"
         \/ cmd = "FF" /\ Head(Stream) = "FA" /\ Tail(Stream) = Late
         \/ /\ cmd = "F5" /\ Head(Stream) = "AA"
            /\ Tail(Stream) \in {<<"00", "FA">>, <<"FA">>, <<"00", "FE">>, <<"FE">>}
            /\ Tail(Stream)[Len(Tail(Stream))] = "FA" => Stream[Len(Stream)] = "FA"
         \/ cmd = "F2" /\ Head(Stream) = "FA" /\ Tail(Stream) = Identification(Kind)
         \/ cmd = "EE" /\ Head(Stream) = "EE" /\ Tail(Stream) = << >>
         \/ cmd = "F4" /\ Head(Stream) = "FA" /\ Tail(Stream) = << >> /\ Stream = <<"FA">>
<1>1. CASE Stream = <<"FE">> /\ cmd # "F5"
  <2>1. Head(<<"FE">>) = "FE"
    OBVIOUS
  <2> QED
    BY <1>1, <2>1, Tails, Zenon
<1>2. CASE cmd = "FF" /\ Stream = Answer(Kind, cmd)
  <2>1. Head(<<"FA", "AA">>) = "FA" /\ Head(<<"FA", "AA", "00">>) = "FA"
    OBVIOUS
  <2>2. CASE Kind = "mouse"
    <3>1. Stream = <<"FA", "AA", "00">> /\ Late = <<"AA", "00">>
      BY <1>2, <2>2 DEF Answer, Late
    <3> QED
      BY <1>2, <2>1, <3>1, Tails, Zenon
  <2>3. CASE Kind # "mouse"
    <3>1. Stream = <<"FA", "AA">> /\ Late = <<"AA">>
      BY <1>2, <2>3 DEF Answer, Late
    <3> QED
      BY <1>2, <2>1, <3>1, Tails, Zenon
  <2> QED
    BY <2>2, <2>3
<1>3. CASE cmd = "F5"
  <2>1. Stream \in {<<"AA", "00", "FA">>, <<"AA", "00", "FE">>, <<"AA", "FA">>, <<"AA", "FE">>}
    BY <1>3 DEF Answers
  <2>2. /\ Head(<<"AA", "00", "FA">>) = "AA" /\ Head(<<"AA", "00", "FE">>) = "AA"
        /\ Head(<<"AA", "FA">>) = "AA" /\ Head(<<"AA", "FE">>) = "AA"
    OBVIOUS
  <2>3. /\ <<"AA", "00", "FA">>[Len(<<"AA", "00", "FA">>)] = "FA"
        /\ <<"AA", "FA">>[Len(<<"AA", "FA">>)] = "FA"
        /\ <<"00", "FE">>[Len(<<"00", "FE">>)] # "FA"
        /\ <<"FE">>[Len(<<"FE">>)] # "FA"
    OBVIOUS
  <2>4. CASE Stream = <<"AA", "00", "FA">>
    BY <1>3, <2>2, <2>3, <2>4, Tails, Zenon
  <2>5. CASE Stream = <<"AA", "00", "FE">>
    BY <1>3, <2>2, <2>3, <2>5, Tails, Zenon
  <2>6. CASE Stream = <<"AA", "FA">>
    BY <1>3, <2>2, <2>3, <2>6, Tails, Zenon
  <2>7. CASE Stream = <<"AA", "FE">>
    BY <1>3, <2>2, <2>3, <2>7, Tails, Zenon
  <2> QED
    BY <2>1, <2>4, <2>5, <2>6, <2>7
<1>4. CASE cmd = "F2" /\ Stream = Answer(Kind, cmd)
  <2>1. Stream = <<"FA">> \o Identification(Kind)
    BY <1>4 DEF Answer
  <2>2. Identification(Kind) \in Seq(Byte) /\ "FA" \in Byte
    <3>1. <<"AB", "83">> \in Seq(Byte) /\ <<"00">> \in Seq(Byte) /\ << >> \in Seq(Byte)
      BY DEF Byte
    <3>2. Identification(Kind) \in {<<"AB", "83">>, <<"00">>, << >>}
      BY DEF Identification
    <3> QED
      BY <3>1, <3>2 DEF Byte
  <2> QED
    BY <1>4, <2>1, <2>2, Head1
<1>5. CASE cmd = "EE" /\ Stream = Answer(Kind, cmd)
  <2>1. Stream = <<"EE">>
    BY <1>5 DEF Answer
  <2>2. Head(<<"EE">>) = "EE"
    OBVIOUS
  <2> QED
    BY <1>5, <2>1, <2>2, Tails, Zenon
<1>6. CASE cmd = "F4" /\ Stream = Answer(Kind, cmd)
  <2>1. Stream = <<"FA">>
    BY <1>6 DEF Answer
  <2>2. Head(<<"FA">>) = "FA"
    OBVIOUS
  <2> QED
    BY <1>6, <2>1, <2>2, Tails, Zenon
<1> QED
  BY <1>1, <1>2, <1>3, <1>4, <1>5, <1>6 DEF Answers

(* Reading an answer. *)
LEMMA Answering ==
  ASSUME Working, IInv, pc = "receive", Received, OnlyReads
  PROVE  /\ cmd \in {"FF", "F5", "F2", "EE", "F4"}
         /\ Kind \in {"keyboard", "mouse", "ancient"}
         /\ OffBit(port) \notin config
         /\ \/ resp = "FE" /\ cmd # "F5" /\ (port' = port => Stream' = << >>)
            \/ cmd = "FF" /\ resp = "FA" /\ (port' = port => Stream' = Late)
            \/ /\ cmd = "F5" /\ resp = "AA"
               /\ port' = port =>
                    /\ Stream' \in {<<"00", "FA">>, <<"FA">>, <<"00", "FE">>, <<"FE">>}
                    /\ Stream'[Len(Stream')] = "FA" => port \notin scanning
            \/ cmd = "F2" /\ resp = "FA" /\ (port' = port => Stream' = Identification(Kind))
            \/ cmd = "EE" /\ resp = "EE" /\ (port' = port => Stream' = << >>)
            \/ cmd = "F4" /\ resp = "FA" /\ out[port] = << >> /\ port \in scanning
<1>1. Types /\ Usable /\ Conversation /\ Device /\ pc \in Checking
  BY DEF IInv, Checking
<1>2. /\ cmd \in {"FF", "F5", "F2", "EE", "F4"}
      /\ OffBit(port) \notin config
      /\ cmd = "EE" => Kind = "keyboard"
      /\ cmd = "F5" /\ Stream # << >> => (Stream[Len(Stream)] = "FA" => port \notin scanning)
      /\ cmd = "F4" /\ Stream = <<"FA">> => port \in scanning
  BY <1>1 DEF Device
<1>3. Kind \in {"keyboard", "mouse", "ancient"} /\ Stream \in Answers(cmd)
  BY <1>1, DeviceWorks DEF Conversation
<1>4. obf # << >> /\ out[port] \in Seq(Byte) /\ resp \in Byte /\ Stream = <<resp>> \o out[port]
  BY <1>1, StreamType DEF Received, Stream
<1>5. Stream # << >> /\ resp = Head(Stream) /\ out[port] = Tail(Stream)
  <2> HIDE DEF resp
  <2> QED
    BY <1>4, Head1
<1>6. port' = port => Stream' = Tail(Stream)
  <2>1. out' = out
    BY DEF OnlyReads
  <2> QED
    BY <1>1, <2>1, Reads
<1>7. Stream[Len(Stream)] = "FA" /\ cmd = "F5" => port \notin scanning
  BY <1>2, <1>5
<1> HIDE DEF resp
<1>8. CASE Head(Stream) = "FE" /\ Tail(Stream) = << >> /\ cmd # "F5"
  BY <1>2, <1>3, <1>5, <1>6, <1>8, Zenon
<1>9. CASE cmd = "FF" /\ Head(Stream) = "FA" /\ Tail(Stream) = Late
  BY <1>2, <1>3, <1>5, <1>6, <1>9, Zenon
<1>10. CASE /\ cmd = "F5" /\ Head(Stream) = "AA"
            /\ Tail(Stream) \in {<<"00", "FA">>, <<"FA">>, <<"00", "FE">>, <<"FE">>}
            /\ Tail(Stream)[Len(Tail(Stream))] = "FA" => Stream[Len(Stream)] = "FA"
  BY <1>2, <1>3, <1>5, <1>6, <1>7, <1>10, Zenon
<1>11. CASE cmd = "F2" /\ Head(Stream) = "FA" /\ Tail(Stream) = Identification(Kind)
  BY <1>2, <1>3, <1>5, <1>6, <1>11, Zenon
<1>12. CASE cmd = "EE" /\ Head(Stream) = "EE" /\ Tail(Stream) = << >>
  BY <1>2, <1>3, <1>5, <1>6, <1>12, Zenon
<1>13. CASE cmd = "F4" /\ Head(Stream) = "FA" /\ Tail(Stream) = << >> /\ Stream = <<"FA">>
  BY <1>2, <1>3, <1>5, <1>13, Zenon
<1> QED
  BY <1>2, <1>3, AnswersBytes, <1>8, <1>9, <1>10, <1>11, <1>12, <1>13, Zenon

(* Nothing but the byte read has changed. *)
LEMMA OnlyReadsLeaves ==
  ASSUME Types, Received, OnlyReads
  PROVE  /\ obf' = << >> /\ out' = out /\ Untouched
         /\ devs' = devs /\ DOMAIN devs' = Port
BY DEF Types, Received, OnlyReads, Untouched

LEMMA StepReceiveReset == Working /\ IInv /\ ReceiveReset => IInv'
<1> SUFFICES ASSUME Working, IInv, ReceiveReset
             PROVE  IInv'
  OBVIOUS
<1>1. pc = "receive" /\ cmd = "FF" /\ pc \in Checking /\ Received /\ OnlyReads /\ Types
  BY DEF ReceiveReset, Checking, IInv
<1>2. OffBit(port) \notin config
  BY <1>1, Answering
<1>3. obf' = << >> /\ out' = out /\ Untouched /\ devs' = devs /\ DOMAIN devs' = Port
  BY <1>1, OnlyReadsLeaves
<1>4. CASE resp = "FE"
  <2>1. cmd' = "FF" /\ pc' = "send" /\ port' = port
    BY <1>4 DEF ReceiveReset, Continue
  <2>2. Stream' = << >>
    BY <1>1, <1>4, <2>1, Answering
  <2>3. Conversation' /\ Device'
    BY <2>1, <2>2 DEF Conversation, Device, Checking
  <2> QED
    BY <1>1, <1>3, <2>1, <2>3, Goes DEF Checking
<1>5. CASE resp = "FA"
  <2>1. cmd' = "F5" /\ pc' = "send" /\ port' = port
    BY <1>5 DEF ReceiveReset, Continue
  <2>2. Stream' = Late
    BY <1>1, <1>5, <2>1, Answering
  <2>3. Conversation' /\ Device'
    BY <1>2, <1>3, <2>1, <2>2 DEF Conversation, Device, Checking, Late, Kind, Untouched
  <2> QED
    BY <1>1, <1>3, <2>1, <2>3, Goes DEF Checking
<1> QED
  BY <1>1, <1>4, <1>5, Answering

LEMMA StepReceive == Working /\ IInv /\ Receive => IInv'
<1> SUFFICES ASSUME Working, IInv, Receive
             PROVE  IInv'
  OBVIOUS
<1>1. /\ pc = "receive" /\ cmd # "FF" /\ pc \in Checking /\ Received /\ OnlyReads /\ Types
      /\ Configured /\ Usable /\ Done /\ Requested /\ Silence
      /\ cmd \in {"EE", "F4"} => devs[port] = DriverFor(Kind)
      /\ cmd = "EE" => Kind = "keyboard"
      /\ cmd = "F4" => Kind \in {"keyboard", "mouse"}
      /\ cmd \in {"F2", "EE"} => port \notin scanning
      /\ ident = << >> /\ ident' = ident
  BY DEF Receive, Checking, IInv, Device, Conversation, OnlyReads
<1>2. /\ OffBit(port) \notin config
      /\ Kind \in {"keyboard", "mouse", "ancient"}
      /\ cmd \in {"F5", "F2", "EE", "F4"}
  BY <1>1, Answering
<1>3. obf' = << >> /\ out' = out /\ Untouched /\ devs' = devs /\ DOMAIN devs' = Port
  BY <1>1, OnlyReadsLeaves
<1>4. port' = port => Kind' = Kind
  BY <1>3 DEF Kind, Untouched
<1>5. CASE resp = "FE"
  <2>1. cmd' = cmd /\ pc' = "send" /\ port' = port
    BY <1>5 DEF Receive, Continue
  <2>2. Stream' = << >> /\ cmd # "F5"
    BY <1>1, <1>5, <2>1, Answering
  <2>3. Conversation'
    BY <2>1, <2>2 DEF Conversation
  <2>4. Device'
    BY <1>1, <1>2, <1>3, <1>4, <2>1, <2>2 DEF Device, Checking, Untouched
  <2> QED
    BY <1>1, <1>3, <2>1, <2>3, <2>4, Goes DEF Checking
<1>6. CASE cmd = "F5" /\ resp = "AA"
  <2>1. cmd' = cmd /\ pc' = "acknowledge" /\ port' = port
    BY <1>6 DEF Receive
  <2>2. /\ Stream' \in {<<"00", "FA">>, <<"FA">>, <<"00", "FE">>, <<"FE">>}
        /\ Stream'[Len(Stream')] = "FA" => port \notin scanning
    BY <1>1, <1>6, <2>1, Answering
  <2>3. Conversation'
    BY <1>6, <2>1, <2>2 DEF Conversation
  <2>4. Device'
    BY <1>1, <1>2, <1>3, <1>4, <1>6, <2>1, <2>2 DEF Device, Checking, Untouched
  <2> QED
    BY <1>1, <1>3, <2>1, <2>3, <2>4, Goes DEF Checking
<1>7. CASE cmd = "F2" /\ resp = "FA"
  <2>1. cmd' = cmd /\ pc' = "ident" /\ port' = port
    BY <1>7 DEF Receive, Answered
  <2>2. Stream' = Identification(Kind)
    BY <1>1, <1>7, <2>1, Answering
  <2>3. Conversation'
    BY <1>1, <1>4, <1>7, <2>1, <2>2 DEF Conversation
  <2>4. Device'
    BY <1>1, <1>2, <1>3, <1>7, <2>1 DEF Device, Checking, Untouched
  <2> QED
    BY <1>1, <1>3, <2>1, <2>3, <2>4, Goes DEF Checking
<1>8. CASE cmd = "EE" /\ resp = "EE"
  <2>1. cmd' = "F4" /\ pc' = "send" /\ port' = port
    BY <1>8 DEF Receive, Answered, Continue
  <2>2. Stream' = << >> /\ Kind = "keyboard"
    BY <1>1, <1>8, <2>1, Answering
  <2>3. Conversation'
    BY <2>1, <2>2 DEF Conversation
  <2>4. Device'
    BY <1>1, <1>2, <1>3, <1>4, <1>8, <2>1, <2>2 DEF Device, Checking, Untouched
  <2> QED
    BY <1>1, <1>3, <2>1, <2>3, <2>4, Goes DEF Checking
<1>9. CASE cmd = "F4" /\ resp = "FA"
  <2>1. Leave
    BY <1>9 DEF Receive, Answered
  <2>2. out[port] = << >> /\ port \in scanning
    BY <1>1, <1>9, Answering
  <2> QED
    BY <1>1, <1>2, <1>3, <1>9, <2>1, <2>2, Leaves
<1> QED
  BY <1>1, <1>2, <1>5, <1>6, <1>7, <1>8, <1>9, Answering

LEMMA StepAcknowledge == Working /\ IInv /\ Acknowledge => IInv'
<1> SUFFICES ASSUME Working, IInv, Acknowledge
             PROVE  IInv'
  OBVIOUS
<1>1. /\ pc = "acknowledge" /\ pc \in Checking /\ Received /\ OnlyReads /\ Types /\ cmd = "F5"
      /\ Stream \in {<<"00", "FA">>, <<"FA">>, <<"00", "FE">>, <<"FE">>, << >>}
      /\ OffBit(port) \notin config
      /\ Stream # << >> => (Stream[Len(Stream)] = "FA" => port \notin scanning)
  BY DEF Acknowledge, Checking, IInv, Device, Conversation
<1>2. obf' = << >> /\ out' = out /\ Untouched /\ devs' = devs /\ DOMAIN devs' = Port
  BY <1>1, OnlyReadsLeaves
<1>3. port' = port
  BY <1>1 DEF Acknowledge, Answered, Continue
<1>4. Stream # << >> /\ resp = Head(Stream) /\ Stream' = Tail(Stream)
  BY <1>1, <1>2, <1>3, Reads
<1>5. CASE Stream \in {<<"00", "FA">>, <<"00", "FE">>, <<"FE">>}
  <2>1. /\ Head(Stream) # "FA"
        /\ Stream' \in {<<"FA">>, <<"FE">>, << >>}
        /\ Stream' = <<"FA">> => Stream = <<"00", "FA">>
    <3>1. /\ Head(<<"00", "FA">>) = "00" /\ Head(<<"00", "FE">>) = "00" /\ Head(<<"FE">>) = "FE"
          /\ <<"FE">> # <<"FA">> /\ << >> # <<"FA">>
      OBVIOUS
    <3> QED
      BY <1>4, <1>5, <3>1, Tails, Zenon
  <2>2. pc' = pc /\ cmd' = cmd
    BY <1>4, <2>1 DEF Acknowledge
  <2>3. Conversation'
    BY <1>1, <2>1, <2>2 DEF Conversation
  <2>4. Stream' # << >> /\ Stream'[Len(Stream')] = "FA" => port \notin scanning
    <3>1. <<"FE">>[Len(<<"FE">>)] # "FA" /\ <<"00", "FA">>[Len(<<"00", "FA">>)] = "FA"
      OBVIOUS
    <3> QED
      BY <1>1, <1>4, <2>1, <3>1, Zenon
  <2>5. Device'
    BY <1>1, <1>2, <1>3, <2>2, <2>4 DEF Device, Checking, Untouched
  <2> QED
    BY <1>1, <1>2, <1>3, <2>2, <2>3, <2>5, Goes DEF Checking
<1>6. CASE Stream = <<"FA">>
  <2>1. Head(<<"FA">>) = "FA" /\ <<"FA">>[Len(<<"FA">>)] = "FA" /\ <<"FA">> # << >>
    OBVIOUS
  <2>2. resp = "FA" /\ port \notin scanning /\ Stream' = << >>
    BY <1>1, <1>4, <1>6, <2>1, Tails, Zenon
  <2>3. pc' = "send" /\ cmd' = "F2"
    BY <1>1, <2>2 DEF Acknowledge, Answered, Continue
  <2>4. Conversation'
    BY <2>2, <2>3 DEF Conversation
  <2>5. Device'
    BY <1>1, <1>2, <1>3, <2>2, <2>3 DEF Device, Checking, Untouched
  <2> QED
    BY <1>1, <1>2, <1>3, <2>3, <2>4, <2>5, Goes DEF Checking
<1> QED
  BY <1>1, <1>4, <1>5, <1>6

(* The identification of the device. *)
LEMMA StepReceiveIdent == Working /\ IInv /\ ReceiveIdent => IInv'
<1> SUFFICES ASSUME Working, IInv, ReceiveIdent
             PROVE  IInv'
  OBVIOUS
<1>1. /\ pc = "ident" /\ pc \in Checking /\ Received /\ Types /\ Usable /\ cmd = "F2"
      /\ \/ ident = << >> /\ Stream = Identification(Kind)
         \/ ident = <<"AB">> /\ Stream = <<"83">> /\ Kind = "keyboard"
         \/ ident = <<"00">> /\ Stream = << >> /\ Kind = "mouse"
      /\ OffBit(port) \notin config
      /\ port \notin scanning
  BY DEF ReceiveIdent, Checking, IInv, Device, Conversation
<1>2. obf' = << >> /\ out' = out /\ Untouched /\ devs' = devs /\ DOMAIN devs' = Port
  BY <1>1 DEF ReceiveIdent, Received, Untouched, Types
<1>3. port' = port /\ cmd' = cmd /\ Kind' = Kind
  BY DEF ReceiveIdent, Kind
<1>4. Stream # << >> /\ resp = Head(Stream) /\ Stream' = Tail(Stream)
  BY <1>1, <1>2, <1>3, Reads
<1>5. pc' \in {"ident", "identified"}
  BY DEF ReceiveIdent
<1>6. Device'
  BY <1>1, <1>2, <1>3, <1>5 DEF Device, Checking, Untouched
<1>7. ident' = Append(ident, resp) /\ pc' = IF Len(ident') = 2 THEN "identified" ELSE "ident"
  BY DEF ReceiveIdent
<1>8. /\ Head(<<"AB", "83">>) = "AB" /\ Head(<<"00">>) = "00" /\ Head(<<"83">>) = "83"
      /\ Len(<<"AB">>) = 1 /\ Len(<<"00">>) = 1 /\ Len(<<"AB", "83">>) = 2 /\ 1 # 2
  OBVIOUS
<1>9. Conversation'
  <2>1. Kind \in {"keyboard", "mouse", "ancient"}
    BY <1>1, DeviceWorks
  <2>2. CASE ident = << >> /\ Kind = "keyboard"
    <3>1. Stream = <<"AB", "83">>
      BY <1>1, <2>2 DEF Identification
    <3>2. ident' = <<"AB">> /\ Stream' = <<"83">>
      BY <1>4, <1>7, <1>8, <2>2, <3>1, Pairs, Tails, Zenon
    <3>3. pc' = "ident"
      BY <1>7, <1>8, <3>2, Zenon
    <3> QED
      BY <1>1, <1>3, <2>2, <3>2, <3>3 DEF Conversation
  <2>3. CASE ident = << >> /\ Kind = "mouse"
    <3>1. Stream = <<"00">>
      BY <1>1, <2>3 DEF Identification
    <3>2. ident' = <<"00">> /\ Stream' = << >>
      BY <1>4, <1>7, <1>8, <2>3, <3>1, Pairs, Tails, Zenon
    <3>3. pc' = "ident"
      BY <1>7, <1>8, <3>2, Zenon
    <3> QED
      BY <1>1, <1>3, <2>3, <3>2, <3>3 DEF Conversation
  <2>4. CASE ident = << >> /\ Kind = "ancient"
    BY <1>1, <1>4, <2>4 DEF Identification
  <2>5. CASE ident = <<"AB">> /\ Stream = <<"83">> /\ Kind = "keyboard"
    <3>1. ident' = <<"AB", "83">> /\ Stream' = << >>
      <4>1. Append(<<"AB">>, "83") = <<"AB", "83">>
        BY Pairs, Zenon
      <4>2. Tail(<<"83">>) = << >>
        BY Tails, Zenon
      <4> QED
        BY <1>4, <1>7, <1>8, <2>5, <4>1, <4>2
    <3>2. pc' = "identified"
      BY <1>7, <1>8, <3>1, Zenon
    <3> QED
      BY <1>1, <1>3, <2>5, <3>1, <3>2 DEF Conversation
  <2> QED
    BY <1>1, <1>4, <2>1, <2>2, <2>3, <2>4, <2>5
<1> QED
  BY <1>1, <1>2, <1>3, <1>5, <1>6, <1>9, Goes DEF Checking

LEMMA StepTimeOut == Working /\ IInv /\ TimeOut => IInv'
<1> SUFFICES ASSUME Working, IInv, TimeOut
             PROVE  IInv'
  OBVIOUS
<1>1. /\ pc = "ident" /\ pc \in Checking /\ Types /\ Usable /\ cmd = "F2"
      /\ \/ ident = << >> /\ Stream = Identification(Kind)
         \/ ident = <<"AB">> /\ Stream = <<"83">> /\ Kind = "keyboard"
         \/ ident = <<"00">> /\ Stream = << >> /\ Kind = "mouse"
      /\ OffBit(port) \notin config
      /\ port \notin scanning
  BY DEF TimeOut, Checking, IInv, Device, Conversation
<1>2. /\ obf' = obf /\ out' = out /\ Untouched /\ devs' = devs /\ DOMAIN devs' = Port
      /\ port' = port /\ cmd' = cmd /\ Kind' = Kind /\ pc' = "identified"
      /\ obf = << >> /\ out[port] = << >>
      /\ ident' = ident \o [i \in 1 .. 2 - Len(ident) |-> "FF"]
  BY <1>1 DEF TimeOut, hardware, Untouched, Types, Kind
<1>3. Stream = << >> /\ Stream' = << >>
  BY <1>2 DEF Stream
<1>4. Device'
  BY <1>1, <1>2 DEF Device, Checking, Untouched
<1>5. Conversation'
  <2>1. Kind \in {"keyboard", "mouse", "ancient"}
    BY <1>1, DeviceWorks
  <2>2. CASE ident = << >>
    <3>1. Kind = "ancient"
      BY <1>1, <1>3, <2>1, <2>2 DEF Identification
    <3>2. ident' = <<"FF", "FF">>
      BY <1>2, <2>2, Padded
    <3> QED
      BY <1>1, <1>2, <1>3, <3>1, <3>2 DEF Conversation
  <2>3. CASE ident = <<"00">> /\ Kind = "mouse"
    <3>1. ident' = <<"00", "FF">>
      BY <1>2, <2>3, Padded
    <3> QED
      BY <1>1, <1>2, <1>3, <2>3, <3>1 DEF Conversation
  <2> QED
    BY <1>1, <1>3, <2>2, <2>3
<1> QED
  BY <1>1, <1>2, <1>4, <1>5, Goes DEF Checking

LEMMA StepIdentify == Working /\ IInv /\ Identify => IInv'
<1> SUFFICES ASSUME Working, IInv, Identify
             PROVE  IInv'
  OBVIOUS
<1>1. /\ pc = "identified" /\ pc \in Checking /\ Types /\ Usable /\ cmd = "F2"
      /\ Stream = << >>
      /\ ident = CASE Kind = "keyboard" -> <<"AB", "83">>
                   [] Kind = "mouse"    -> <<"00", "FF">>
                   [] Kind = "ancient"  -> <<"FF", "FF">>
      /\ OffBit(port) \notin config
      /\ port \notin scanning
      /\ Configured /\ Done /\ Requested /\ Silence
  BY DEF Identify, Checking, IInv, Device, Conversation
<1>2. Kind \in {"keyboard", "mouse", "ancient"} /\ port \in Port
  BY <1>1, DeviceWorks DEF Types
<1>3. Driver(ident) = DriverFor(Kind)
  BY <1>1, <1>2, Drivers DEF DriverFor
<1>4. /\ obf = << >> /\ out[port] = << >> /\ obf' = << >> /\ out' = out /\ Untouched
      /\ DOMAIN devs' = Port /\ devs'[port] = DriverFor(Kind)
      /\ \A p \in Port \ {port} : devs'[p] = devs[p]
  BY <1>1, <1>2, <1>3, NothingComes DEF Identify, hardware, Untouched, Types
<1>5. CASE Kind = "keyboard"
  <2>1. cmd' = "EE" /\ pc' = "send" /\ port' = port
    BY <1>3, <1>5 DEF Identify, Continue, DriverFor
  <2>2. Stream' = << >> /\ Kind' = Kind
    BY <1>4, <2>1 DEF Stream, Kind, Untouched
  <2>3. Conversation'
    BY <2>1, <2>2 DEF Conversation
  <2>4. Device'
    BY <1>1, <1>4, <1>5, <2>1, <2>2 DEF Device, Checking, Untouched
  <2> QED
    BY <1>1, <1>4, <2>1, <2>3, <2>4, Goes DEF Checking
<1>6. CASE Kind = "mouse"
  <2>1. cmd' = "F4" /\ pc' = "send" /\ port' = port
    BY <1>3, <1>6 DEF Identify, Continue, DriverFor
  <2>2. Stream' = << >> /\ Kind' = Kind
    BY <1>4, <2>1 DEF Stream, Kind, Untouched
  <2>3. Conversation'
    BY <2>1, <2>2 DEF Conversation
  <2>4. Device'
    BY <1>1, <1>4, <1>6, <2>1, <2>2 DEF Device, Checking, Untouched
  <2> QED
    BY <1>1, <1>4, <2>1, <2>3, <2>4, Goes DEF Checking
<1>7. CASE Kind = "ancient"
  <2>1. Leave
    BY <1>3, <1>7 DEF Identify, DriverFor
  <2> QED
    BY <1>1, <1>4, <1>7, <2>1, Leaves
<1> QED
  BY <1>2, <1>5, <1>6, <1>7

(* A command is sent. *)
LEMMA AnswerType ==
  ASSUME NEW kind \in {"keyboard", "mouse", "ancient"}, NEW c \in {"FF", "F5", "F2", "EE", "F4"}
  PROVE  Answer(kind, c) \in Seq(Byte)
<1>1. /\ <<"FA", "AA", "00">> \in Seq(Byte) /\ <<"FA", "AA">> \in Seq(Byte)
      /\ <<"FA">> \in Seq(Byte) /\ <<"EE">> \in Seq(Byte)
      /\ <<"AB", "83">> \in Seq(Byte) /\ <<"00">> \in Seq(Byte) /\ << >> \in Seq(Byte)
  BY DEF Byte
<1>2. Identification(kind) \in Seq(Byte)
  BY <1>1 DEF Identification
<1>3. <<"FA">> \o Identification(kind) \in Seq(Byte)
  BY <1>1, <1>2
<1> QED
  BY <1>1, <1>3 DEF Answer

(* What it does to the device, but for its answer. *)
LEMMA Sends ==
  ASSUME Working, IInv, Send
  PROVE  /\ cmd \in {"FF", "F5", "F2", "EE", "F4"} /\ Kind \in {"keyboard", "mouse", "ancient"}
         /\ pc' = "receive" /\ ident' = << >>
         /\ UNCHANGED <<machine, obf, irr, typed, port, cmd, cfg, ports, devs>>
         /\ config' = config \ {OffBit(port)}
         /\ \/ /\ out' = [out EXCEPT ![port] =
                            (IF cmd = "FF" THEN << >> ELSE @) \o Answer(Kind, cmd)]
               /\ scanning' = ScansAfter(cmd, port)
            \/ out' = [out EXCEPT ![port] = Append(@, "FE")] /\ scanning' = scanning
BY DeviceWorks DEF Send, Deliver, IInv, Device, Checking, Kind

LEMMA SendTypes ==
  ASSUME Working, IInv, Send
  PROVE  /\ Types'
         /\ \A p \in Port \ {port} : out'[p] = out[p] /\ (p \in scanning' <=> p \in scanning)
<1>1. Types /\ port \in Port /\ out \in [Port -> Seq(Byte)] /\ scanning \subseteq Port /\ pc = "send"
  BY DEF IInv, Types, Send
<1>2. Answer(Kind, cmd) \in Seq(Byte) /\ "FE" \in Byte
  <2>1. Kind \in {"keyboard", "mouse", "ancient"} /\ cmd \in {"FF", "F5", "F2", "EE", "F4"}
    BY Sends
  <2> QED
    BY <2>1, AnswerType DEF Byte
<1>3. << >> \o Answer(Kind, cmd) \in Seq(Byte) /\ out[port] \o Answer(Kind, cmd) \in Seq(Byte)
  BY <1>1, <1>2
<1>4. out' \in [Port -> Seq(Byte)] /\ \A p \in Port \ {port} : out'[p] = out[p]
  <2>1. Append(out[port], "FE") \in Seq(Byte)
    BY <1>1, <1>2
  <2>2. PICK t \in Seq(Byte) : out' = [out EXCEPT ![port] = t]
    <3>1. CASE out' = [out EXCEPT ![port] =
                         (IF cmd = "FF" THEN << >> ELSE @) \o Answer(Kind, cmd)]
      BY <1>3, <3>1
    <3>2. CASE out' = [out EXCEPT ![port] = Append(@, "FE")]
      BY <2>1, <3>2
    <3> QED
      BY <3>1, <3>2, Sends
  <2> QED
    BY <1>1, <2>2
<1>5. scanning' \in {scanning, scanning \cup {port}, scanning \ {port}}
  BY Sends DEF ScansAfter
<1>6. scanning' \subseteq Port /\ \A p \in Port \ {port} : p \in scanning' <=> p \in scanning
  BY <1>1, <1>5
<1>7. config' \subseteq {0, 1, 4, 5, 6}
  BY <1>1, Sends DEF Types
<1>8. typed' = typed /\ typed = 0
  BY <1>1, Sends DEF Types
<1> QED
  BY <1>1, <1>4, <1>6, <1>7, <1>8, Sends DEF Types, Checking

LEMMA SendStream ==
  ASSUME Working, IInv, Send
  PROVE  \/ Stream' \in Answers(cmd) /\ scanning' = ScansAfter(cmd, port)
         \/ /\ Stream' \in Answers(cmd) /\ scanning' = scanning
            /\ Stream' # << >> /\ Stream'[Len(Stream')] = "FE"
<1>1. Types /\ port \in Port /\ out \in [Port -> Seq(Byte)] /\ Conversation /\ pc = "send"
  BY DEF IInv, Types, Send
<1>2. Answer(Kind, cmd) \in Seq(Byte) /\ <<"FE">> \in Seq(Byte) /\ "FE" \in Byte
  <2>1. Kind \in {"keyboard", "mouse", "ancient"} /\ cmd \in {"FF", "F5", "F2", "EE", "F4"}
    BY Sends
  <2>2. Answer(Kind, cmd) \in Seq(Byte)
    BY <2>1, AnswerType, Zenon
  <2>3. "FE" \in Byte
    BY DEF Byte
  <2> QED
    BY <2>2, <2>3
<1>3. Stream' = (IF obf = << >> THEN << >> ELSE <<resp>>) \o out'[port]
  BY Sends DEF Stream, resp
<1>4. <<"FE">>[Len(<<"FE">>)] = "FE" /\ <<"FE">> # << >>
  OBVIOUS
<1>5. CASE cmd # "F5"
  <2>1. Stream = << >>
    BY <1>1, <1>5 DEF Conversation
  <2>2. obf = << >> /\ out[port] = << >>
    BY <1>1, <2>1, NothingComes
  <2>3. Stream' = << >> \o out'[port]
    BY <1>3, <2>2
  <2>4. CASE /\ out' = [out EXCEPT ![port] =
                           (IF cmd = "FF" THEN << >> ELSE @) \o Answer(Kind, cmd)]
              /\ scanning' = ScansAfter(cmd, port)
    <3>1. out'[port] = << >> \o Answer(Kind, cmd)
      BY <1>1, <2>2, <2>4
    <3>2. Stream' = Answer(Kind, cmd)
      BY <1>2, <2>3, <3>1
    <3> QED
      BY <1>5, <2>4, <3>2 DEF Answers
  <2>5. CASE out' = [out EXCEPT ![port] = Append(@, "FE")] /\ scanning' = scanning
    <3>1. out'[port] = <<"FE">>
      BY <1>1, <2>2, <2>5, Pairs
    <3>2. Stream' = <<"FE">>
      BY <1>2, <2>3, <3>1
    <3> QED
      BY <1>4, <1>5, <2>5, <3>2 DEF Answers
  <2> QED
    BY <2>4, <2>5, Sends
<1>6. CASE cmd = "F5"
  <2>1. Stream = Late
    BY <1>1, <1>6 DEF Conversation
  <2>2. ASSUME NEW t \in Seq(Byte), out'[port] = out[port] \o t
        PROVE  Stream' = Late \o t
    <3> DEFINE front == IF obf = << >> THEN << >> ELSE <<resp>>
    <3>1. front \in Seq(Byte) /\ out[port] \in Seq(Byte)
      BY <1>1, StreamType
    <3>2. Stream = front \o out[port]
      BY DEF Stream
    <3>3. Stream' = front \o (out[port] \o t)
      BY <1>3, <2>2
    <3> HIDE DEF front
    <3>4. \A x, y, z \in Seq(Byte) : (x \o y) \o z = x \o (y \o z)
      BY ConcatAssociative
    <3>5. (front \o out[port]) \o t = front \o (out[port] \o t)
      BY <3>1, <3>4
    <3> QED
      BY <2>1, <3>2, <3>3, <3>5, Zenon
  <2>4. CASE /\ out' = [out EXCEPT ![port] =
                           (IF cmd = "FF" THEN << >> ELSE @) \o Answer(Kind, cmd)]
              /\ scanning' = ScansAfter(cmd, port)
    <3>1. Answer(Kind, cmd) = <<"FA">>
      BY <1>6, Sends DEF Answer
    <3>2. out'[port] = out[port] \o <<"FA">>
      BY <1>1, <1>6, <2>4, <3>1
    <3>3. Stream' = Late \o <<"FA">>
      BY <1>2, <2>2, <3>1, <3>2
    <3>4. Stream' = IF Kind = "mouse" THEN <<"AA", "00", "FA">> ELSE <<"AA", "FA">>
      BY <3>3, Pairs, Triples DEF Late
    <3> QED
      BY <1>6, <2>4, <3>4 DEF Answers
  <2>5. CASE out' = [out EXCEPT ![port] = Append(@, "FE")] /\ scanning' = scanning
    <3>1. out'[port] = out[port] \o <<"FE">>
      BY <1>1, <1>2, <2>5, AppendIsConcat
    <3>2. Stream' = Late \o <<"FE">>
      BY <1>2, <2>2, <3>1
    <3>3. Stream' = IF Kind = "mouse" THEN <<"AA", "00", "FE">> ELSE <<"AA", "FE">>
      BY <3>2, Pairs, Triples DEF Late
    <3>4. /\ <<"AA", "00", "FE">>[Len(<<"AA", "00", "FE">>)] = "FE" /\ <<"AA", "00", "FE">> # << >>
          /\ <<"AA", "FE">>[Len(<<"AA", "FE">>)] = "FE" /\ <<"AA", "FE">> # << >>
      OBVIOUS
    <3>5. Stream' # << >> /\ Stream'[Len(Stream')] = "FE"
      BY <3>3, <3>4, Zenon
    <3> QED
      BY <1>6, <2>5, <3>3, <3>5 DEF Answers
  <2> QED
    BY <2>4, <2>5, Sends
<1> QED
  BY <1>5, <1>6

LEMMA StepSend == Working /\ IInv /\ Send => IInv'
<1> SUFFICES ASSUME Working, IInv, Send
             PROVE  IInv'
  OBVIOUS
<1>1. /\ Types /\ Configured /\ Usable /\ Done /\ Requested /\ Silence /\ Conversation /\ Device
      /\ pc = "send" /\ pc' = "receive" /\ port \in Port /\ port \in ports /\ ports \subseteq Port
  BY Sends DEF IInv, Types, Send, Usable, Checking
<1>2. /\ UNCHANGED <<machine, obf, irr, typed, port, cmd, cfg, ports, devs>>
      /\ config' = config \ {OffBit(port)}
      /\ ident' = << >>
      /\ cmd \in {"FF", "F5", "F2", "EE", "F4"} /\ Kind \in {"keyboard", "mouse", "ancient"}
  BY Sends
<1>3. Types' /\ \A p \in Port \ {port} : out'[p] = out[p] /\ (p \in scanning' <=> p \in scanning)
  BY SendTypes
<1>4. Channels' = Channels /\ Kind' = Kind /\ Answers(cmd)' = Answers(cmd)
  BY <1>2 DEF Channels, Kind, Answers
<1>5. \A p \in Port : OffBit(p) \notin {0, 1, 6} /\ (p # port => OffBit(p) # OffBit(port))
  BY <1>1 DEF OffBit, Port
<1>6. Configured'
  <2>1. Irqs(config') = Irqs(config)
    BY <1>1, <1>2, <1>5 DEF Irqs, IrqBit, TranslationBit
  <2>2. ASSUME NEW p \in Channels \ ports
        PROVE  OffBit(p) \in config'
    <3>1. p \in Port /\ p # port
      BY <1>1, Hardware
    <3>2. OffBit(p) \in config
      BY <1>1 DEF Configured, Checking
    <3> QED
      BY <1>2, <1>5, <3>1, <3>2
  <2>3. Irqs(config) = ports
    BY <1>1 DEF Configured, Checking
  <2> QED
    BY <1>1, <1>2, <1>4, <2>1, <2>2, <2>3 DEF Configured, Checking
<1>7. Usable'
  <2>1. scanning' \subseteq scanning \cup {port}
    BY <1>1, <1>3 DEF Types
  <2> QED
    BY <1>1, <1>2, <1>4, <2>1 DEF Usable, Configuring, Checking, Ready
<1>8. Done'
  <2> SUFFICES ASSUME NEW p \in ports, p < port
               PROVE  Checked(p)'
    BY <1>1, <1>2 DEF Done, Ready
  <2>1. p \in Port \ {port}
    <3>1. p \in {0, 1} /\ port \in {0, 1}
      BY <1>1 DEF Port
    <3> QED
      BY <3>1 DEF Port
  <2>2. Checked(p)
    BY <1>1 DEF Done, Checking
  <2> QED
    BY <1>2, <1>3, <2>1, <2>2 DEF Checked
<1>9. Requested'
  BY <1>1, <1>2 DEF Requested, Checking, Configuring
<1>10. Silence'
  <2>1. \A p \in Port \ {port} : Silent(p)
    BY <1>1 DEF Silence, Checking
  <2>2. \A p \in Port \ {port} : Silent(p)'
    BY <1>2, <1>3, <2>1 DEF Silent
  <2> QED
    BY <1>1, <1>2, <2>2 DEF Silence, Checking, Configuring
<1>11. Conversation'
  <2>1. Stream' \in Answers(cmd)
    BY SendStream
  <2> QED
    BY <1>1, <1>2, <1>4, <2>1 DEF Conversation
<1>12. Device'
  <2>1. OffBit(port) \notin config'
    BY <1>2
  <2>2. /\ cmd = "EE" => Kind = "keyboard"
        /\ cmd = "F4" => Kind \in {"keyboard", "mouse"}
        /\ cmd \in {"EE", "F4"} => devs[port] = DriverFor(Kind)
        /\ cmd \in {"F2", "EE"} => port \notin scanning
    BY <1>1 DEF Device, Checking
  <2>3. /\ cmd = "F5" /\ Stream' # << >> => (Stream'[Len(Stream')] = "FA" => port \notin scanning')
        /\ cmd \in {"F2", "EE"} => port \notin scanning'
        /\ cmd = "F4" /\ Stream' = <<"FA">> => port \in scanning'
    <3>1. CASE scanning' = ScansAfter(cmd, port)
      BY <2>2, <3>1 DEF ScansAfter
    <3>2. CASE /\ scanning' = scanning
               /\ Stream' # << >> /\ Stream'[Len(Stream')] = "FE"
      <4>1. <<"FA">>[Len(<<"FA">>)] = "FA"
        OBVIOUS
      <4>2. Stream'[Len(Stream')] # "FA" /\ Stream' # <<"FA">>
        BY <3>2, <4>1, Zenon
      <4> QED
        BY <2>2, <3>2, <4>2
    <3> QED
      BY <3>1, <3>2, SendStream
  <2> QED
    BY <1>1, <1>2, <1>4, <2>1, <2>2, <2>3 DEF Device, Checking
<1> QED
  BY <1>3, <1>6, <1>7, <1>8, <1>9, <1>10, <1>11, <1>12 DEF IInv

-----------------------------------------------------------------------------
(* The 8042. *)

(* Before the ports are enabled, no byte is on its way. *)
LEMMA Configures ==
  ASSUME IInv, pc \in Configuring \ {"disable"}, pc' \in (Configuring \ {"disable"}) \cup {"failed"},
         config' \subseteq {0, 1, 4, 5, 6}, cfg' \subseteq {0, 1, 4, 5, 6}, ports' \subseteq Port,
         irr' \subseteq {0} \cap machine.tests, irr' \subseteq Port,
         pc' \in {"enable", "writeback"} => irr' \subseteq ports',
         UNCHANGED <<machine, obf, out, scanning, typed, port, devs>>,
         Configured', Usable'
  PROVE  IInv'
<1>1. Types /\ pc \notin Checking \cup Ready /\ pc' \notin Checking \cup Ready /\ pc # "disable"
  BY DEF IInv, Configuring, Checking, Ready
<1>2. Types'
  BY <1>1 DEF Types, Configuring
<1>3. Done' /\ Requested'
  BY <1>1 DEF Done, Requested
<1>4. Silence'
  <2>1. \A p \in Port : Silent(p)
    BY DEF IInv, Silence
  <2>2. \A p \in Port : Silent(p)'
    BY <2>1 DEF Silent
  <2> QED
    BY <1>1, <2>2 DEF Silence, Configuring, Checking, Ready
<1>5. Conversation' /\ Device'
  BY <1>1 DEF Conversation, Device, Checking
<1> QED
  BY <1>2, <1>3, <1>4, <1>5 DEF IInv

LEMMA StepDisable == Working /\ IInv /\ Disable => IInv'
<1> SUFFICES ASSUME Working, IInv, Disable
             PROVE  IInv'
  OBVIOUS
<1>1. /\ pc = "disable" /\ pc' = "configure" /\ obf' = << >>
      /\ config' = config \cup {OffBit(p) : p \in Channels}
      /\ UNCHANGED <<machine, out, scanning, irr, resends, typed, locals, ports, devs, in_setup>>
  BY DEF Disable
<1>2. /\ Types /\ Configured /\ Usable /\ Requested /\ Silence
      /\ machine \in Machines /\ Channels \subseteq Port /\ Channels' = Channels
  BY <1>1, Hardware DEF IInv, Channels
<1>3. \A p \in Channels : OffBit(p) \in {4, 5}
  BY <1>2 DEF OffBit, Port
<1>4. config' \subseteq {0, 1, 4, 5, 6}
  BY <1>1, <1>2, <1>3 DEF Types
<1>5. Types'
  BY <1>1, <1>2, <1>4 DEF Types, locals, Configuring
<1>6. Configured'
  <2>1. IrqBit(0) \in config' => IrqBit(0) \in machine.bios
    BY <1>1, <1>2, <1>3 DEF Configured, IrqBit
  <2>2. AllOff(config)'
    BY <1>1, <1>2 DEF AllOff
  <2>3. IrqBit(0) \in config' => 0 \in machine.tests
    BY <1>2, <2>1 DEF Working
  <2> QED
    BY <1>1, <2>2, <2>3 DEF Configured, Checking, Ready, AllOff
<1>7. Usable'
  BY <1>1, <1>2 DEF Usable, Configuring, Checking, Ready
<1>8. Done' /\ Requested'
  BY <1>1, <1>2 DEF Done, Requested, Checking, Ready, Configuring
<1>9. Silence'
  BY <1>1, <1>2 DEF Silence, Silent, Checking, Ready, Configuring
<1>10. Conversation' /\ Device'
  BY <1>1 DEF Conversation, Device, Checking
<1> QED
  BY <1>5, <1>6, <1>7, <1>8, <1>9, <1>10 DEF IInv

LEMMA StepConfigure == Working /\ IInv /\ Configure => IInv'
<1> SUFFICES ASSUME Working, IInv, Configure
             PROVE  IInv'
  OBVIOUS
<1>1. /\ pc = "configure" /\ pc' = "selftest"
      /\ cfg' = config \ {IrqBit(0), IrqBit(1), TranslationBit} /\ config' = cfg'
      /\ irr' = IF IrqBit(0) \in config THEN irr \cup {0} ELSE irr
      /\ UNCHANGED <<machine, obf, out, scanning, typed, port, ports, devs>>
  BY DEF Configure
<1>2. /\ Types /\ Configured /\ Usable /\ Requested
      /\ Channels \subseteq Port /\ Channels' = Channels
  BY <1>1, Hardware DEF IInv, Channels
<1>3. Configured'
  <2>1. \A p \in Channels : OffBit(p) \in {4, 5}
    BY <1>2 DEF OffBit, Port
  <2>2. AllOff(config)
    BY <1>1, <1>2 DEF Configured
  <2>3. AllOff(config)'
    BY <1>1, <1>2, <2>1, <2>2 DEF AllOff, IrqBit, TranslationBit
  <2>4. Irqs(config') = {}
    BY <1>1 DEF Irqs
  <2> QED
    BY <1>1, <2>3, <2>4 DEF Configured, Checking, Ready, AllOff
<1>4. Usable'
  BY <1>1, <1>2 DEF Usable, Configuring, Checking, Ready
<1>5. irr' \subseteq {0} \cap machine.tests
  BY <1>1, <1>2 DEF Configured, Requested, Configuring
<1> QED
  BY <1>1, <1>2, <1>3, <1>4, <1>5, Configures DEF Types, Configuring, Port

LEMMA StepSelfTest == Working /\ IInv /\ SelfTest => IInv'
<1> SUFFICES ASSUME Working, IInv, SelfTest
             PROVE  IInv'
  OBVIOUS
<1>1. /\ pc = "selftest" /\ pc' \in {"checkdual", "failed"}
      /\ pc' = "checkdual" => config' = cfg
      /\ config' \in {cfg, config, machine.bios}
      /\ UNCHANGED <<machine, obf, out, scanning, irr, typed, port, cfg, ports, devs>>
  BY DEF SelfTest, locals
<1>2. /\ Types /\ Configured /\ Usable /\ Requested
      /\ Channels' = Channels /\ machine.bios \subseteq {0, 1, 4, 5, 6}
  BY <1>1, Hardware DEF IInv, Channels
<1>3. Configured'
  BY <1>1, <1>2 DEF Configured, Checking, Ready, AllOff
<1>4. Usable'
  BY <1>1, <1>2 DEF Usable, Configuring, Checking, Ready
<1>5. irr' \subseteq {0} \cap machine.tests
  BY <1>1, <1>2 DEF Requested, Configuring
<1> QED
  BY <1>1, <1>2, <1>3, <1>4, <1>5, Configures DEF Types, Configuring, Port

LEMMA StepCheckDual == Working /\ IInv /\ CheckDual => IInv'
<1> SUFFICES ASSUME Working, IInv, CheckDual
             PROVE  IInv'
  OBVIOUS
<1>1. /\ pc = "checkdual" /\ pc' = "testports"
      /\ cfg' \in {cfg, config, config \ {OffBit(1)}}
      /\ UNCHANGED <<machine, config, obf, out, scanning, irr, typed, port, ports, devs>>
  BY DEF CheckDual, hardware
<1>2. Types /\ Configured /\ Usable /\ Requested /\ Channels' = Channels
  BY <1>1 DEF IInv, Channels
<1>3. Configured'
  BY <1>1, <1>2 DEF Configured, Checking, Ready, AllOff
<1>4. Usable'
  BY <1>1, <1>2 DEF Usable, Configuring, Checking, Ready
<1>5. irr' \subseteq {0} \cap machine.tests
  BY <1>1, <1>2 DEF Requested, Configuring
<1> QED
  BY <1>1, <1>2, <1>3, <1>4, <1>5, Configures DEF Types, Configuring, Port

LEMMA StepTestPorts == Working /\ IInv /\ TestPorts => IInv'
<1> SUFFICES ASSUME Working, IInv, TestPorts
             PROVE  IInv'
  OBVIOUS
<1>1. /\ pc = "testports" /\ pc' = IF ports' = {} THEN "failed" ELSE "enable"
      /\ ports' = {p \in machine.tests : p = 1 => dualchan}
      /\ UNCHANGED <<machine, config, obf, out, scanning, irr, typed, port, cfg, devs>>
  BY DEF TestPorts, hardware, locals
<1>2. Types /\ Configured /\ Usable /\ Requested /\ Channels' = Channels
  BY <1>1 DEF IInv, Channels
<1>3. Configured'
  BY <1>1, <1>2 DEF Configured, Checking, Ready, AllOff
<1>4. ports' \subseteq machine.tests /\ machine.tests \subseteq Port
  BY <1>1, <1>2, Hardware
<1>5. Usable'
  BY <1>1, <1>2, <1>4 DEF Usable, Configuring, Checking, Ready
<1>6. irr' \subseteq {0} \cap machine.tests
  BY <1>1, <1>2 DEF Requested, Configuring
<1>7. /\ config' \subseteq {0, 1, 4, 5, 6} /\ cfg' \subseteq {0, 1, 4, 5, 6} /\ irr' \subseteq Port
      /\ ports' \subseteq Port
  BY <1>1, <1>2, <1>4 DEF Types
<1>8. irr' \subseteq ports'
  <2>1. irr' \subseteq {0} /\ irr' \subseteq machine.tests
    BY <1>6
  <2> QED
    BY <1>1, <2>1
<1>9. pc \in Configuring \ {"disable"} /\ pc' \in (Configuring \ {"disable"}) \cup {"failed"}
  BY <1>1 DEF Configuring
<1> QED
  BY <1>1, <1>3, <1>5, <1>6, <1>7, <1>8, <1>9, Configures

LEMMA StepEnable == Working /\ IInv /\ Enable => IInv'
<1> SUFFICES ASSUME Working, IInv, Enable
             PROVE  IInv'
  OBVIOUS
<1>1. /\ pc = "enable" /\ pc' = "writeback"
      /\ cfg' = config \cup {IrqBit(p) : p \in ports}
      /\ config' = config \ {OffBit(p) : p \in ports}
      /\ UNCHANGED <<machine, obf, out, scanning, irr, typed, port, ports, devs>>
  BY DEF Enable
<1>2. /\ Types /\ Configured /\ Usable /\ Requested
      /\ Channels \subseteq Port /\ Channels' = Channels /\ ports \subseteq {0, 1}
  BY <1>1, Hardware DEF IInv, Channels, Types, Port
<1>3. {IrqBit(p) : p \in ports} = ports
  BY DEF IrqBit
<1>4. Configured'
  <2>1. Irqs(config) = {} /\ AllOff(config)
    BY <1>1, <1>2 DEF Configured
  <2>2. Irqs(cfg') = ports
    BY <1>1, <1>2, <1>3, <2>1 DEF Irqs, IrqBit, TranslationBit
  <2>3. AllOff(cfg)'
    BY <1>1, <1>2, <2>1 DEF AllOff
  <2> QED
    BY <1>1, <2>2, <2>3 DEF Configured, Checking, Ready
<1>5. Usable'
  BY <1>1, <1>2 DEF Usable, Configuring, Checking, Ready
<1>6. irr' \subseteq {0} \cap machine.tests /\ irr' \subseteq ports'
  BY <1>1, <1>2 DEF Requested, Configuring
<1>7. /\ config' \subseteq {0, 1, 4, 5, 6} /\ cfg' \subseteq {0, 1, 4, 5, 6} /\ irr' \subseteq Port
      /\ ports' \subseteq Port
  BY <1>1, <1>2, <1>3 DEF Types, Port
<1>8. pc \in Configuring \ {"disable"} /\ pc' \in (Configuring \ {"disable"}) \cup {"failed"}
  BY <1>1 DEF Configuring
<1> QED
  BY <1>1, <1>4, <1>5, <1>6, <1>7, <1>8, Configures

LEMMA StepWriteBack == Working /\ IInv /\ WriteBack => IInv'
<1> SUFFICES ASSUME Working, IInv, WriteBack
             PROVE  IInv'
  OBVIOUS
<1>1. /\ pc = "writeback" /\ pc' = "send" /\ cmd' = "FF"
      /\ port' = IF 0 \in ports THEN 0 ELSE 1
      /\ config' = cfg
      /\ irr' = irr \cup {p \in Port : obf # << >> /\ obf[1][1] = p /\ IrqBit(p) \in cfg}
      /\ UNCHANGED <<machine, obf, out, scanning, typed, cfg, ports, devs>>
  BY DEF WriteBack, StartCheck
<1>2. /\ Types /\ Configured /\ Usable /\ Requested /\ Silence
      /\ Channels' = Channels /\ ports \subseteq {0, 1} /\ ports # {}
      /\ ports \subseteq machine.tests
  BY <1>1 DEF IInv, Channels, Types, Port, Usable
<1>3. port' \in ports /\ port' \in Port /\ \A p \in ports : ~(p < port')
  <2>1. CASE 0 \in ports
    <3>1. port' = 0 /\ \A p \in ports : p = 0 \/ p = 1
      BY <1>1, <1>2, <2>1
    <3> QED
      BY <2>1, <3>1 DEF Port
  <2>2. CASE 0 \notin ports
    <3>1. ports = {1} /\ port' = 1
      BY <1>1, <1>2, <2>2
    <3> QED
      BY <3>1 DEF Port
  <2> QED
    BY <2>1, <2>2
<1>4. obf = << >> /\ \A p \in Port : out[p] = << >>
  <2>1. \A p \in Port : Silent(p)
    BY <1>1, <1>2 DEF Silence, Configuring
  <2>2. obf # << >> => \E p \in Port, b \in Byte : obf = <<<<p, b>>>>
    BY <1>2 DEF Types
  <2>3. obf # << >> => obf[1][1] \in Port
    BY <2>2
  <2> QED
    BY <2>1, <2>3 DEF Silent
<1>5. irr' = irr /\ irr \subseteq ports
  <2>1. irr \subseteq ports
    BY <1>1, <1>2 DEF Requested
  <2> QED
    BY <1>1, <1>4, <2>1
<1>6. Types'
  BY <1>1, <1>2, <1>3, <1>5 DEF Types, Checking
<1>7. Configured'
  BY <1>1, <1>2 DEF Configured, Checking, AllOff
<1>8. Usable'
  BY <1>1, <1>2, <1>3 DEF Usable, Configuring, Checking
<1>9. Done' /\ Requested'
  BY <1>1, <1>3, <1>5 DEF Done, Requested, Configuring, Checking, Ready
<1>10. Silence'
  BY <1>1, <1>4 DEF Silence, Silent, Configuring, Checking, Ready
<1>11. Conversation'
  <2>1. Stream' = << >> \o << >>
    BY <1>1, <1>3, <1>4 DEF Stream
  <2>2. Stream' = << >>
    BY <2>1
  <2> QED
    BY <1>1, <2>2 DEF Conversation
<1>12. Device'
  BY <1>1 DEF Device, Checking
<1> QED
  BY <1>6, <1>7, <1>8, <1>9, <1>10, <1>11, <1>12 DEF IInv

-----------------------------------------------------------------------------
(* The interrupts that have been requested meanwhile, and the end. *)
LEMMA ReadyDrivers ==
  ASSUME Working, IInv, pc \in Ready, NEW p \in ports
  PROVE  /\ machine.dev[p] \in {"keyboard", "mouse", "ancient"}
         /\ devs[p] = DriverFor(machine.dev[p])
         /\ devs[p] # "NULL"
<1>1. Types /\ Usable /\ Done
  BY DEF IInv
<1>2. p \in machine.tests /\ machine.dev[p] \in Kinds
  BY <1>1, Hardware DEF Usable, Types
<1>3. machine.dev[p] \in {"keyboard", "mouse", "ancient"}
  BY <1>1, <1>2, Hardware DEF Working, Kinds
<1>4. devs[p] = DriverFor(machine.dev[p])
  BY <1>1 DEF Done, Checked
<1> QED
  BY <1>3, <1>4 DEF DriverFor

LEMMA StepInterrupt == Working /\ IInv /\ (\E p \in Port : Interrupt(p)) => IInv'
<1> SUFFICES ASSUME Working, IInv, NEW p \in Port, Interrupt(p)
             PROVE  IInv'
  OBVIOUS
<1>1. /\ pc = "window" /\ p \in irr /\ irr' = irr \ {p}
      /\ pc' = IF devs[p] = "NULL" THEN "wild" ELSE "window"
      /\ UNCHANGED <<machine, config, obf, out, scanning, typed, port, cfg, ports, devs>>
  BY DEF Interrupt, locals
<1>2. /\ Types /\ Configured /\ Usable /\ Done /\ Requested /\ Silence
      /\ Channels' = Channels
  BY <1>1 DEF IInv, Channels
<1>3. pc' = "window"
  BY <1>1, <1>2, ReadyDrivers DEF Requested, Ready
<1>4. Types'
  BY <1>1, <1>2, <1>3 DEF Types
<1>5. Configured' /\ Usable'
  BY <1>1, <1>2, <1>3 DEF Configured, Usable, AllOff
<1>6. Done' /\ Requested'
  BY <1>1, <1>2, <1>3 DEF Done, Checked, Requested, Configuring, Checking, Ready
<1>7. Silence'
  BY <1>1, <1>2, <1>3 DEF Silence, Silent
<1>8. Conversation' /\ Device'
  BY <1>3 DEF Conversation, Device, Checking
<1> QED
  BY <1>4, <1>5, <1>6, <1>7, <1>8 DEF IInv

LEMMA StepFinish == Working /\ IInv /\ Finish => IInv'
<1> SUFFICES ASSUME Working, IInv, Finish
             PROVE  IInv'
  OBVIOUS
<1>1. /\ pc = "window" /\ pc' = "done" /\ irr = {}
      /\ UNCHANGED <<machine, config, obf, out, scanning, irr, typed, port, cfg, ports, devs>>
  BY DEF Finish, hardware, locals
<1>2. /\ Types /\ Configured /\ Usable /\ Done /\ Requested /\ Silence
      /\ Channels' = Channels
  BY <1>1 DEF IInv, Channels
<1>3. Types'
  BY <1>1, <1>2 DEF Types, Ready
<1>4. Configured' /\ Usable'
  BY <1>1, <1>2 DEF Configured, Usable, AllOff, Configuring, Checking, Ready
<1>5. Done' /\ Requested'
  BY <1>1, <1>2 DEF Done, Checked, Requested, Configuring, Checking, Ready
<1>6. Silence'
  <2>1. \A q \in Port : Silent(q)
    BY <1>1, <1>2 DEF Silence
  <2>2. obf # << >> => \E q \in Port, b \in Byte : obf = <<<<q, b>>>>
    BY <1>2 DEF Types
  <2>3. obf # << >> => obf[1][1] \in Port
    BY <2>2
  <2>4. obf = << >>
    BY <2>1, <2>3 DEF Silent
  <2> QED
    BY <1>1, <2>1, <2>4 DEF Silence, Silent, Configuring, Checking
<1>7. Conversation' /\ Device'
  BY <1>1 DEF Conversation, Device, Checking
<1> QED
  BY <1>3, <1>4, <1>5, <1>6, <1>7 DEF IInv

-----------------------------------------------------------------------------
(* The devices. *)
LEMMA StepTransfer == Working /\ IInv /\ (\E p \in Port : Transfer(p)) => IInv'
<1> SUFFICES ASSUME Working, IInv, NEW p \in Port, Transfer(p)
             PROVE  IInv'
  OBVIOUS
<1>1. /\ out[p] # << >> /\ obf = << >> /\ OffBit(p) \notin config
      /\ obf' = <<<<p, Head(out[p])>>>>
      /\ out' = [out EXCEPT ![p] = Tail(@)]
      /\ irr' = IF IrqBit(p) \in config THEN irr \cup {p} ELSE irr
      /\ UNCHANGED <<machine, config, scanning, typed, pc, port, cmd, cfg, ident, ports, devs>>
  BY DEF Transfer, locals
<1>2. /\ Types /\ Configured /\ Usable /\ Done /\ Requested /\ Silence /\ Conversation /\ Device
      /\ Channels' = Channels /\ Kind' = Kind
  BY <1>1 DEF IInv, Channels, Kind
<1>3. out \in [Port -> Seq(Byte)] /\ out[p] \in Seq(Byte)
  BY <1>2 DEF Types
<1>4. Head(out[p]) \in Byte /\ Tail(out[p]) \in Seq(Byte)
  BY <1>1, <1>3, HeadAndTail, Zenon
<1>5. Types'
  <2>1. out' \in [Port -> Seq(Byte)]
    BY <1>1, <1>3, <1>4
  <2>2. \E q \in Port, b \in Byte : obf' = <<<<q, b>>>>
    BY <1>1, <1>4
  <2>3. irr' \subseteq Port
    BY <1>1, <1>2 DEF Types
  <2> QED
    BY <1>1, <1>2, <2>1, <2>2, <2>3 DEF Types
<1>6. pc \notin Configuring \cup {"window"}
  BY <1>1, <1>2 DEF Silence, Silent, Configuring
<1>7. Configured' /\ Usable' /\ Done'
  BY <1>1, <1>2 DEF Configured, Usable, Done, Checked, AllOff
<1>8. CASE pc \in Checking
  <2>1. p = port
    BY <1>1, <1>2, <1>8 DEF Silence, Silent
  <2>2. Requested'
    BY <1>1, <1>2, <1>6, <1>8, <2>1 DEF Requested, Usable, Configuring, Checking
  <2>3. Silence'
    <3>1. \A q \in Port \ {port} : out'[q] = << >> /\ obf'[1][1] # q
      BY <1>1, <1>2, <1>3, <1>8, <2>1 DEF Silence, Silent
    <3> QED
      BY <1>1, <1>6, <1>8, <3>1 DEF Silence, Silent, Checking, Configuring
  <2>4. Stream' = Stream
    BY <1>1, <1>2, <2>1, MovesOn
  <2>5. Conversation' /\ Device'
    BY <1>1, <1>2, <2>4 DEF Conversation, Device, Answers, Late
  <2> QED
    BY <1>5, <1>7, <2>2, <2>3, <2>5 DEF IInv
<1>9. CASE pc = "done"
  <2>1. p \in ports
    BY <1>1, <1>2, <1>9 DEF Silence, Configured, Ready
  <2>2. p \in irr' /\ irr' \subseteq ports
    BY <1>1, <1>2, <1>9, <2>1 DEF Requested, Configured, Irqs, IrqBit, Ready
  <2>3. typed # 0
    BY <1>1, <1>2, <1>9 DEF Silence, Silent
  <2>4. \A q \in Port : out'[q] # << >> => out[q] # << >>
    BY <1>1, <1>3
  <2>5. Silence'
    BY <1>1, <1>2, <1>9, <2>2, <2>3, <2>4 DEF Silence, Configuring, Checking
  <2>6. Requested'
    BY <1>1, <1>9, <2>2 DEF Requested, Configuring
  <2>7. Conversation' /\ Device'
    BY <1>1, <1>9 DEF Conversation, Device, Checking
  <2> QED
    BY <1>5, <1>7, <2>5, <2>6, <2>7 DEF IInv
<1>10. CASE pc = "failed"
  BY <1>1, <1>5, <1>7, <1>10
     DEF IInv, Requested, Silence, Conversation, Device, Configuring, Checking, Ready
<1> QED
  BY <1>2, <1>6, <1>8, <1>9, <1>10 DEF Types, Ready

LEMMA StepType == HandsOff /\ IInv /\ (\E p \in Port : Type(p)) => IInv'
<1> SUFFICES ASSUME HandsOff, IInv, NEW p \in Port, Type(p)
             PROVE  IInv'
  OBVIOUS
<1>1. /\ pc \in {"done", "failed"} /\ p \in scanning /\ typed' = typed + 1
      /\ out' = [out EXCEPT ![p] = Append(@, "key")]
      /\ UNCHANGED <<machine, config, obf, scanning, irr, pc, port, cmd, cfg, ident, ports, devs>>
  BY DEF Type, HandsOff, locals
<1>2. /\ Types /\ Configured /\ Usable /\ Done /\ Requested /\ Silence
      /\ Channels' = Channels
  BY <1>1 DEF IInv, Channels
<1>3. out \in [Port -> Seq(Byte)] /\ typed \in Nat /\ "key" \in Byte
  BY <1>2 DEF Types, Byte
<1>4. out' \in [Port -> Seq(Byte)] /\ typed' \in Nat /\ typed' # 0
  BY <1>1, <1>3
<1>5. Types'
  BY <1>1, <1>2, <1>4 DEF Types
<1>6. Configured' /\ Usable' /\ Done' /\ Requested'
  BY <1>1, <1>2 DEF Configured, Usable, Done, Checked, AllOff, Requested
<1>7. Silence'
  <2>1. p \in Channels \cup ports
    BY <1>1, <1>2 DEF Usable
  <2>2. \A q \in Port : out'[q] # << >> => out[q] # << >> \/ q = p
    BY <1>1, <1>3
  <2> QED
    BY <1>1, <1>2, <1>4, <2>1, <2>2 DEF Silence, Configuring, Checking
<1>8. Conversation' /\ Device'
  BY <1>1 DEF Conversation, Device, Checking
<1> QED
  BY <1>5, <1>6, <1>7, <1>8 DEF IInv

-----------------------------------------------------------------------------
LEMMA InitInv == Working /\ Init => IInv
<1> SUFFICES ASSUME Working, Init
             PROVE  IInv
  OBVIOUS
<1>1. /\ machine \in Machines /\ machine \in Machine /\ pc = "disable"
      /\ obf = << >> \/ obf = <<<<0, "key">>>>
      /\ out = [p \in Port |-> << >>]
      /\ devs = [p \in Port |-> "NULL"]
      /\ config = machine.bios /\ cfg = {} /\ typed = 0 /\ port = 0 /\ ports = {}
      /\ scanning \subseteq Channels
      /\ irr = {p \in Port : obf # << >> /\ p = 0 /\ IrqBit(p) \in config}
  BY InitAssumption DEF Init
<1>2. Channels \subseteq Port /\ machine.bios \subseteq {0, 1, 4, 5, 6}
  BY <1>1 DEF Channels, Port, Machine, Config
<1>3. obf = << >> \/ \E p \in Port, b \in Byte : obf = <<<<p, b>>>>
  BY <1>1 DEF Port, Byte
<1>4. \A p \in Port : out[p] = << >>
  BY <1>1
<1>5. irr \subseteq {0} \cap machine.tests /\ irr \subseteq Port
  BY <1>1 DEF Working
<1>6. Types
  <2>1. << >> \in Seq(Byte)
    OBVIOUS
  <2>2. out \in [Port -> Seq(Byte)]
    BY <1>1, <2>1
  <2> QED
    BY <1>1, <1>2, <1>3, <1>5, <2>2 DEF Types, Port, Configuring
<1>7. Configured
  BY <1>1 DEF Configured, Checking, Ready
<1>8. Usable /\ Done /\ Requested /\ Silence /\ Conversation /\ Device
  BY <1>1, <1>4, <1>5
     DEF Usable, Done, Requested, Silence, Conversation, Device, Configuring, Checking, Ready
<1> QED
  BY <1>6, <1>7, <1>8 DEF IInv

LEMMA Stutters == IInv /\ UNCHANGED vars => IInv'
<1> SUFFICES ASSUME IInv, UNCHANGED vars
             PROVE  IInv'
  OBVIOUS
<1>1. UNCHANGED <<machine, config, obf, out, scanning, irr, typed, pc, port, cmd, cfg, ident,
                  ports, devs>>
  BY DEF vars, hardware, locals
<1>2. /\ Types' /\ Configured' /\ Usable' /\ Requested'
  BY <1>1 DEF IInv, Types, Configured, Usable, Requested, AllOff, Channels
<1>3. Done' /\ Silence'
  BY <1>1 DEF IInv, Done, Checked, Silence, Silent, Channels
<1>4. Stream' = Stream /\ Kind' = Kind
  BY <1>1 DEF Stream, resp, Kind
<1>5. Conversation' /\ Device'
  BY <1>1, <1>4 DEF IInv, Conversation, Device, Answers, Late
<1> QED
  BY <1>2, <1>3, <1>5 DEF IInv

LEMMA NextInv == Working /\ HandsOff /\ IInv /\ [Next]_vars => IInv'
<1> SUFFICES ASSUME Working, HandsOff, IInv, [Next]_vars
             PROVE  IInv'
  OBVIOUS
<1>1. CASE \E p \in Port : Transfer(p) \/ Type(p)
  BY <1>1, StepTransfer, StepType
<1>2. CASE Kernel
  BY <1>2, StepDisable, StepConfigure, StepSelfTest, StepCheckDual, StepTestPorts, StepEnable,
     StepWriteBack, StepSend, StepReceiveReset, StepReceive, StepAcknowledge, StepReceiveIdent,
     StepTimeOut, StepIdentify, StepInterrupt, StepFinish
     DEF Kernel
<1>3. CASE UNCHANGED vars
  BY <1>3, Stutters
<1> QED
  BY <1>1, <1>2, <1>3 DEF Next

LEMMA Invariance == ASSUME Working, HandsOff PROVE Spec => []IInv
<1>1. Init => IInv
  BY InitInv
<1>2. IInv /\ [Next]_vars => IInv'
  BY NextInv
<1> QED
  BY <1>1, <1>2, PTL DEF Spec

(* init_atkbd gives every device of a usable port its driver and leaves    *)
(* those with an init scanning, whatever commands have to be repeated,     *)
(* although check_port asks a device to stop before the answer to the      *)
(* reset has come.                                                         *)
THEOREM DevicesIdentified == ASSUME Working, HandsOff PROVE Spec => []Identified
<1>1. IInv => Identified
  BY DEF IInv, Done, Checked, Identified, Ready
<1> QED
  BY <1>1, Invariance, PTL

(* It leaves nothing in the 8042, no byte on its way and no interrupt, and *)
(* of the ports just the usable ones on.                                   *)
THEOREM HardwareHandedOver == ASSUME Working, HandsOff PROVE Spec => []HandedOver
<1>1. ASSUME IInv, pc = "done", typed = 0
      PROVE  /\ obf = << >>
             /\ \A p \in Port : out[p] = << >>
             /\ irr = {}
             /\ config \cap {IrqBit(0), IrqBit(1), TranslationBit} = {IrqBit(p) : p \in ports}
             /\ \A p \in Channels : OffBit(p) \in config <=> p \notin ports
  <2>1. Types /\ Configured /\ Done /\ Silence
    BY <1>1 DEF IInv
  <2>2. irr = {} /\ \A p \in Port : Silent(p)
    BY <1>1, <2>1 DEF Silence
  <2>3. obf = << >>
    <3>1. obf # << >> => \E p \in Port, b \in Byte : obf = <<<<p, b>>>>
      BY <2>1 DEF Types
    <3>2. obf # << >> => obf[1][1] \in Port
      BY <3>1
    <3> QED
      BY <2>2, <3>2 DEF Silent
  <2>4. Irqs(config) = ports /\ \A p \in Channels \ ports : OffBit(p) \in config
    BY <1>1, <2>1 DEF Configured, Ready
  <2>5. {IrqBit(p) : p \in ports} = ports
    BY DEF IrqBit
  <2>6. \A p \in ports : OffBit(p) \notin config
    BY <1>1, <2>1 DEF Done, Checked, Ready
  <2> QED
    BY <2>2, <2>3, <2>4, <2>5, <2>6 DEF Silent, Irqs
<1>2. IInv => HandedOver
  BY <1>1 DEF HandedOver
<1> QED
  BY <1>2, Invariance, PTL

(* An interrupt that is taken after init_atkbd has enabled them finds the  *)
(* driver of its port.                                                     *)
THEOREM InterruptsFindDriver == ASSUME Working, HandsOff PROVE Spec => []DriverPresent
<1>1. ASSUME IInv, Working, pc \in Ready
      PROVE  \A p \in irr : devs[p] # "NULL"
  BY <1>1, ReadyDrivers DEF IInv, Requested
<1>2. IInv => DriverPresent
  BY <1>1 DEF DriverPresent, Ready
<1> QED
  BY <1>2, Invariance, PTL

(* Once the driver has been started, a byte in the buffer of the 8042 has  *)
(* its interrupt.                                                          *)
THEOREM BytesAreServed == ASSUME Working, HandsOff PROVE Spec => []BufferIsServed
<1>1. IInv => BufferIsServed
  BY DEF IInv, Silence, BufferIsServed
<1> QED
  BY <1>1, Invariance, PTL
=============================================================================
