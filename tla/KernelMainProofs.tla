-------------------------- MODULE KernelMainProofs --------------------------
(***************************************************************************)
(* Theorems about the main program, for every size of the screen and of    *)
(* the console's queue, all that is typed, and any number of movements of  *)
(* the mouse: the serial line gets the messages, the screen is clean       *)
(* behind the cursor, and it shows what is typed.                          *)
(***************************************************************************)
EXTENDS KernelMain, ConsoleProofs

-----------------------------------------------------------------------------
(* The invariant behind LineShowsMessages. *)

(* Where the kernel is, or returns to from vprintk. *)
Place == IF pc = "printk" THEN ret ELSE pc

(* The places once all is set up for printing. *)
Printing == {"init_atkbd", "8042", "window", "back", "sti", "read", "write"}

AllPlaces == {"int3", "null", "port", "vgatm", "hello"} \cup Printing

(* The terminals that have been registered. *)
Terminals ==
  /\ Place \in AllPlaces
  /\ pc = "printk" => ret \in Printing \cup {"null"}
  /\ Place \in {"int3", "null"} => tty_devices = << >>
  /\ Place = "port" => tty_devices = <<"null">>
  /\ Place = "vgatm" => tty_devices = <<"null", "serial">>
  /\ Place \in Printing \cup {"hello"} => tty_devices = <<"null", "serial", "vgatm">>
  /\ tty_printk = IF Place \in Printing THEN 1 ELSE 0

(* The UART after n writes of init_port, and after all of it. *)
After(n) ==
  [dlab |-> IF n \in 2 .. 4 THEN TRUE ELSE FALSE, dll |-> IF n < 3 THEN 1 ELSE 12, dlm |-> 0,
   loop |-> IF n \in 8 .. 9 THEN TRUE ELSE FALSE]

Configured ==
  [dlab |-> FALSE, dll |-> 12, dlm |-> 0, loop |-> IF chip = "good" THEN FALSE ELSE TRUE]

Port ==
  /\ chip \in {"good", "late"}
  /\ Place \in {"int3", "null"} => uart = Reset
  /\ Place = "port" => nw \in 0 .. 9 /\ uart = After(nw)
  /\ Place \in Printing \cup {"vgatm", "hello"} => uart = Configured

(* A message of the kernel is not interrupted. *)
Enabled == iflag => pc \in {"window", "read", "write"}

(* The pieces of the messages. *)
Pieces == {HelloWorld[1], HelloWorld[2], HelloBack[1], HelloBack[2], Initializing[1],
           NoUsablePorts[1], NoUsablePorts[2], Complete[1], Complete[2], Complete[3],
           Exception[1], Exception[2], Movement[1], Movement[2]}

(* What of the message in buf the line has not yet got. *)
Rest ==
  /\ Len(printed) = Len(line) + num - nw
  /\ \A k \in 1 .. Len(line) : printed[k] = line[k]
  /\ \A k \in 1 .. num - nw : printed[Len(line) + k] = buf[nw + k]

Messages ==
  /\ buf \in Seq(Pieces)
  /\ num \in Nat
  /\ nw \in Nat
  /\ line \in Seq(Pieces)
  /\ printed \in Seq(Pieces)
  /\ pc = "printk" => nw <= num /\ num <= Len(buf)
  /\ Place \notin Printing => line = << >> /\ printed = << >>
  /\ chip # "good" => line = << >>
  /\ chip = "good" /\ Place \in Printing =>
       IF pc = "printk" THEN Rest ELSE line = printed

IInv == Terminals /\ Port /\ Enabled /\ Messages

-----------------------------------------------------------------------------
(* Printing. *)

(* vsnprintf puts the text into the buffer of vprintk. *)
LEMMA FormattedText ==
  ASSUME NEW text \in Seq(Pieces), buf \in Seq(Pieces)
  PROVE  /\ Formatted(text) \in Seq(Pieces)
         /\ Len(text) <= Len(Formatted(text))
         /\ \A k \in 1 .. Len(text) : Formatted(text)[k] = text[k]
<1> DEFINE rest == SubSeq(buf, Len(text) + 1, Len(buf))
<1>1. /\ rest \in Seq(Pieces)
      /\ Len(rest) \in Nat
      /\ Len(text) \in Nat
  BY LenProperties, SubSeqProperties, ElementOfSeq
<1>2. /\ text \o rest \in Seq(Pieces)
      /\ Len(text \o rest) = Len(text) + Len(rest)
      /\ \A k \in 1 .. Len(text) + Len(rest) :
           (text \o rest)[k] = IF k <= Len(text) THEN text[k] ELSE rest[k - Len(text)]
  BY <1>1, ConcatProperties
<1> QED
  BY <1>1, <1>2 DEF Formatted

(* At the right baud rate and out of loopback mode, text arrives. *)
LEMMA TransmitText ==
  ASSUME NEW text \in Seq(Pieces), line \in Seq(Pieces),
         uart = Configured, chip \in {"good", "late"}, Transmit(text)
  PROVE  line' = IF chip = "good" THEN line \o text ELSE line
<1>1. uart.dll + 256 * uart.dlm = 115200 \div 9600
  BY DEF Configured
<1>2. DOMAIN text = 1 .. Len(text) /\ text = [k \in DOMAIN text |-> text[k]]
  BY LenProperties
<1> DEFINE sent == [k \in DOMAIN text |->
                     IF uart.dll + 256 * uart.dlm = 115200 \div 9600 THEN text[k] ELSE "garbage"]
<1>3. sent = [k \in DOMAIN text |-> text[k]]
  BY <1>1
<1>4. sent = text
  BY <1>2, <1>3
<1>5. line' = IF uart.loop THEN line ELSE line \o sent
  BY DEF Transmit
<1> HIDE DEF sent
<1>6. (IF uart.loop THEN line ELSE line \o sent) = (IF chip = "good" THEN line \o text ELSE line)
  <2>1. CASE chip = "good"
    <3>1. uart.loop = FALSE
      BY <2>1 DEF Configured
    <3> QED
      BY <1>4, <2>1, <3>1, Zenon
  <2>2. CASE chip # "good"
    <3>1. uart.loop = TRUE
      BY <2>2 DEF Configured
    <3> QED
      BY <2>2, <3>1, Zenon
  <2> QED
    BY <2>1, <2>2
<1> QED
  BY <1>5, <1>6, Zenon

(* The messages are texts. *)
LEMMA Texts ==
  /\ HelloWorld \in Seq(Pieces) /\ HelloBack \in Seq(Pieces)
  /\ Initializing \in Seq(Pieces) /\ NoUsablePorts \in Seq(Pieces)
  /\ Complete \in Seq(Pieces) /\ Exception \in Seq(Pieces) /\ Movement \in Seq(Pieces)
<1>1. ASSUME NEW a, NEW b, a \in Pieces, b \in Pieces PROVE <<a, b>> \in Seq(Pieces)
  BY <1>1
<1>2. ASSUME NEW a, NEW b, NEW c, a \in Pieces, b \in Pieces, c \in Pieces
      PROVE  <<a, b, c>> \in Seq(Pieces)
  BY <1>2
<1>3. ASSUME NEW a, a \in Pieces PROVE <<a>> \in Seq(Pieces)
  BY <1>3
<1>4. HelloWorld \in Seq(Pieces)
  <2>1. HelloWorld[1] \in Pieces /\ HelloWorld[2] \in Pieces
    BY DEF Pieces
  <2>2. HelloWorld = <<HelloWorld[1], HelloWorld[2]>>
    BY DEF HelloWorld
  <2> QED
    BY <1>1, <2>1, <2>2
<1>5. HelloBack \in Seq(Pieces)
  <2>1. HelloBack[1] \in Pieces /\ HelloBack[2] \in Pieces
    BY DEF Pieces
  <2>2. HelloBack = <<HelloBack[1], HelloBack[2]>>
    BY DEF HelloBack
  <2> QED
    BY <1>1, <2>1, <2>2
<1>6. Initializing \in Seq(Pieces)
  <2>1. Initializing[1] \in Pieces
    BY DEF Pieces
  <2>2. Initializing = <<Initializing[1]>>
    BY DEF Initializing
  <2> QED
    BY <1>3, <2>1, <2>2
<1>7. NoUsablePorts \in Seq(Pieces)
  <2>1. NoUsablePorts[1] \in Pieces /\ NoUsablePorts[2] \in Pieces
    BY DEF Pieces
  <2>2. NoUsablePorts = <<NoUsablePorts[1], NoUsablePorts[2]>>
    BY DEF NoUsablePorts
  <2> QED
    BY <1>1, <2>1, <2>2
<1>8. Complete \in Seq(Pieces)
  <2>1. Complete[1] \in Pieces /\ Complete[2] \in Pieces /\ Complete[3] \in Pieces
    BY DEF Pieces
  <2>2. Complete = <<Complete[1], Complete[2], Complete[3]>>
    BY DEF Complete
  <2> QED
    BY <1>2, <2>1, <2>2
<1>9. Exception \in Seq(Pieces)
  <2>1. Exception[1] \in Pieces /\ Exception[2] \in Pieces
    BY DEF Pieces
  <2>2. Exception = <<Exception[1], Exception[2]>>
    BY DEF Exception
  <2> QED
    BY <1>1, <2>1, <2>2
<1>10. Movement \in Seq(Pieces)
  <2>1. Movement[1] \in Pieces /\ Movement[2] \in Pieces
    BY DEF Pieces
  <2>2. Movement = <<Movement[1], Movement[2]>>
    BY DEF Movement
  <2> QED
    BY <1>1, <2>1, <2>2
<1> QED
  BY <1>4, <1>5, <1>6, <1>7, <1>8, <1>9, <1>10

-----------------------------------------------------------------------------
(* The setup of the port. *)

(* The registers for the format of the line and for the modem. *)
LEMMA Registers ==
  ASSUME NEW a, NEW b, NEW c, NEW d, NEW value \in Nat,
         uart = [dlab |-> a, dll |-> b, dlm |-> c, loop |-> d]
  PROVE  /\ Outb(3, value) =>
              /\ value >= 128 => uart' = [dlab |-> TRUE, dll |-> b, dlm |-> c, loop |-> d]
              /\ value < 128 => uart' = [dlab |-> FALSE, dll |-> b, dlm |-> c, loop |-> d]
              /\ line' = line
         /\ Outb(4, value) =>
              /\ (value \div 16) % 2 = 1 => uart' = [dlab |-> a, dll |-> b, dlm |-> c, loop |-> TRUE]
              /\ (value \div 16) % 2 # 1 => uart' = [dlab |-> a, dll |-> b, dlm |-> c, loop |-> FALSE]
              /\ line' = line
<1>1. ASSUME NEW x
      PROVE  /\ [uart EXCEPT !.dlab = x] = [dlab |-> x, dll |-> b, dlm |-> c, loop |-> d]
             /\ [uart EXCEPT !.loop = x] = [dlab |-> a, dll |-> b, dlm |-> c, loop |-> x]
  OBVIOUS
<1> DEFINE high == value >= 128
           looped == (value \div 16) % 2 = 1
<1>2. Outb(3, value) => uart' = [uart EXCEPT !.dlab = high] /\ line' = line
  BY DEF Outb
<1>3. Outb(4, value) => uart' = [uart EXCEPT !.loop = looped] /\ line' = line
  BY DEF Outb
<1>4. /\ value >= 128 => high = TRUE
      /\ value < 128 => high = FALSE
      /\ (value \div 16) % 2 = 1 => looped = TRUE
      /\ (value \div 16) % 2 # 1 => looped = FALSE
  OBVIOUS
<1> HIDE DEF high, looped
<1>5. Outb(3, value) /\ value >= 128 => uart' = [uart EXCEPT !.dlab = TRUE]
  BY <1>2, <1>4, Zenon
<1>6. Outb(3, value) /\ value < 128 => uart' = [uart EXCEPT !.dlab = FALSE]
  BY <1>2, <1>4, Zenon
<1>7. Outb(4, value) /\ (value \div 16) % 2 = 1 => uart' = [uart EXCEPT !.loop = TRUE]
  BY <1>3, <1>4, Zenon
<1>8. Outb(4, value) /\ (value \div 16) % 2 # 1 => uart' = [uart EXCEPT !.loop = FALSE]
  BY <1>3, <1>4, Zenon
<1> QED
  BY <1>1, <1>2, <1>3, <1>5, <1>6, <1>7, <1>8, Zenon

(* init_port's writes give the UART 9600 baud and take nothing to the line. *)
LEMMA SetUp ==
  ASSUME NEW n \in 0 .. 8, uart = After(n),
         Outb(PortSetup(9600)[n + 1][1], PortSetup(9600)[n + 1][2])
  PROVE  uart' = After(n + 1) /\ line' = line
<1>1. PortSetup(9600) =
        << <<1, 0>>, <<3, 128>>, <<0, 12>>, <<1, 0>>, <<3, 3>>, <<2, 199>>, <<4, 11>>, <<4, 30>>, <<0, 174>> >>
  <2>1. 115200 \div 9600 = 12 /\ 12 % 256 = 12 /\ 12 \div 65536 = 0
    OBVIOUS
  <2> QED
    BY <2>1 DEF PortSetup, divisor
<1>2. CASE n = 0
  <2>1. Outb(1, 0) /\ uart = [dlab |-> FALSE, dll |-> 1, dlm |-> 0, loop |-> FALSE]
    BY <1>1, <1>2 DEF After
  <2>2. uart' = [dlab |-> FALSE, dll |-> 1, dlm |-> 0, loop |-> FALSE] /\ line' = line
    BY <2>1 DEF Outb
  <2> QED
    BY <1>2, <2>2 DEF After
<1>3. CASE n = 1
  <2>1. Outb(3, 128) /\ uart = [dlab |-> FALSE, dll |-> 1, dlm |-> 0, loop |-> FALSE]
    BY <1>1, <1>3 DEF After
  <2>2. 128 \in Nat /\ 128 >= 128
    OBVIOUS
  <2>3. uart' = [dlab |-> TRUE, dll |-> 1, dlm |-> 0, loop |-> FALSE] /\ line' = line
    BY <2>1, <2>2, Registers
  <2> QED
    BY <1>3, <2>3 DEF After
<1>4. CASE n = 2
  <2>1. Outb(0, 12) /\ uart = [dlab |-> TRUE, dll |-> 1, dlm |-> 0, loop |-> FALSE]
    BY <1>1, <1>4 DEF After
  <2>2. uart' = [dlab |-> TRUE, dll |-> 12, dlm |-> 0, loop |-> FALSE] /\ line' = line
    BY <2>1 DEF Outb, Transmit
  <2> QED
    BY <1>4, <2>2 DEF After
<1>5. CASE n = 3
  <2>1. Outb(1, 0) /\ uart = [dlab |-> TRUE, dll |-> 12, dlm |-> 0, loop |-> FALSE]
    BY <1>1, <1>5 DEF After
  <2>2. uart' = [dlab |-> TRUE, dll |-> 12, dlm |-> 0, loop |-> FALSE] /\ line' = line
    BY <2>1 DEF Outb
  <2> QED
    BY <1>5, <2>2 DEF After
<1>6. CASE n = 4
  <2>1. Outb(3, 3) /\ uart = [dlab |-> TRUE, dll |-> 12, dlm |-> 0, loop |-> FALSE]
    BY <1>1, <1>6 DEF After
  <2>2. 3 \in Nat /\ 3 < 128
    OBVIOUS
  <2>3. uart' = [dlab |-> FALSE, dll |-> 12, dlm |-> 0, loop |-> FALSE] /\ line' = line
    BY <2>1, <2>2, Registers
  <2> QED
    BY <1>6, <2>3 DEF After
<1>7. CASE n = 5
  <2>1. Outb(2, 199) /\ uart = [dlab |-> FALSE, dll |-> 12, dlm |-> 0, loop |-> FALSE]
    BY <1>1, <1>7 DEF After
  <2>2. uart' = [dlab |-> FALSE, dll |-> 12, dlm |-> 0, loop |-> FALSE] /\ line' = line
    BY <2>1 DEF Outb
  <2> QED
    BY <1>7, <2>2 DEF After
<1>8. CASE n = 6
  <2>1. Outb(4, 11) /\ uart = [dlab |-> FALSE, dll |-> 12, dlm |-> 0, loop |-> FALSE]
    BY <1>1, <1>8 DEF After
  <2>2. 11 \in Nat /\ (11 \div 16) % 2 # 1
    OBVIOUS
  <2>3. uart' = [dlab |-> FALSE, dll |-> 12, dlm |-> 0, loop |-> FALSE] /\ line' = line
    BY <2>1, <2>2, Registers
  <2> QED
    BY <1>8, <2>3 DEF After
<1>9. CASE n = 7
  <2>1. Outb(4, 30) /\ uart = [dlab |-> FALSE, dll |-> 12, dlm |-> 0, loop |-> FALSE]
    BY <1>1, <1>9 DEF After
  <2>2. 30 \in Nat /\ (30 \div 16) % 2 = 1
    OBVIOUS
  <2>3. uart' = [dlab |-> FALSE, dll |-> 12, dlm |-> 0, loop |-> TRUE] /\ line' = line
    BY <2>1, <2>2, Registers
  <2> QED
    BY <1>9, <2>3 DEF After
<1>10. CASE n = 8
  <2>1. Outb(0, 174) /\ uart = [dlab |-> FALSE, dll |-> 12, dlm |-> 0, loop |-> TRUE]
    BY <1>1, <1>10 DEF After
  <2>2. uart' = [dlab |-> FALSE, dll |-> 12, dlm |-> 0, loop |-> TRUE] /\ line' = line
    BY <2>1 DEF Outb, Transmit
  <2> QED
    BY <1>10, <2>2 DEF After
<1> QED
  BY <1>2, <1>3, <1>4, <1>5, <1>6, <1>7, <1>8, <1>9, <1>10

-----------------------------------------------------------------------------
(* The steps of vprintk. *)

(* A call of printk once there are terminals: all of the text is to come. *)
LEMMA PrintkStep ==
  ASSUME NEW text \in Seq(Pieces), NEW place \in Printing, Messages, pc # "printk",
         tty_devices # << >>, printk(text, place), UNCHANGED <<line, chip>>
  PROVE  Messages'
<1>1. /\ buf \in Seq(Pieces) /\ line \in Seq(Pieces) /\ printed \in Seq(Pieces)
      /\ chip # "good" => line = << >>
      /\ chip = "good" => line = printed
  BY DEF Messages, Place
<1>2. /\ pc' = "printk" /\ Place' = place
      /\ buf' = Formatted(text) /\ num' = Len(text) /\ nw' = 0 /\ printed' = printed \o text
  BY DEF printk, Place
<1>3. /\ Formatted(text) \in Seq(Pieces)
      /\ Len(text) <= Len(Formatted(text))
      /\ \A k \in 1 .. Len(text) : Formatted(text)[k] = text[k]
  BY <1>1, FormattedText
<1>4. /\ printed \o text \in Seq(Pieces)
      /\ Len(printed \o text) = Len(printed) + Len(text)
      /\ \A k \in 1 .. Len(printed) + Len(text) :
           (printed \o text)[k] = IF k <= Len(printed) THEN printed[k] ELSE text[k - Len(printed)]
  BY <1>1, ConcatProperties
<1>5. Len(text) \in Nat /\ Len(printed) \in Nat
  BY <1>1, LenProperties
<1>6. ASSUME chip = "good" PROVE Rest'
  <2>1. line = printed
    BY <1>1, <1>6
  <2> DEFINE more == printed \o text
             new == Formatted(text)
  <2>2. /\ Len(more) = Len(printed) + Len(text) - 0
        /\ \A k \in 1 .. Len(printed) : more[k] = printed[k]
        /\ \A k \in 1 .. Len(text) - 0 : more[Len(printed) + k] = new[0 + k]
    <3> HIDE DEF more, new
    <3>1. /\ \A k \in 1 .. Len(printed) + Len(text) :
               more[k] = IF k <= Len(printed) THEN printed[k] ELSE text[k - Len(printed)]
          /\ Len(more) = Len(printed) + Len(text)
          /\ \A k \in 1 .. Len(text) : new[k] = text[k]
      BY <1>3, <1>4 DEF more, new
    <3>2. ASSUME NEW k \in 1 .. Len(printed) PROVE more[k] = printed[k]
      BY <1>5, <3>1
    <3>3. ASSUME NEW k \in 1 .. Len(text) PROVE more[Len(printed) + k] = new[k]
      <4>1. /\ Len(printed) + k \in 1 .. Len(printed) + Len(text)
            /\ ~(Len(printed) + k <= Len(printed))
            /\ (Len(printed) + k) - Len(printed) = k
        BY <1>5
      <4> QED
        BY <3>1, <4>1
    <3>4. /\ Len(printed) + Len(text) - 0 = Len(printed) + Len(text)
          /\ Len(text) - 0 = Len(text)
          /\ \A k \in 1 .. Len(text) : 0 + k = k
      BY <1>5
    <3> QED
      BY <3>1, <3>2, <3>3, <3>4
  <2> HIDE DEF more, new
  <2>3. /\ printed' = more /\ buf' = new /\ num' = Len(text) /\ nw' = 0 /\ line' = printed
    BY <1>2, <2>1 DEF more, new
  <2> QED
    BY <2>2, <2>3, Zenon DEF Rest
<1> QED
  BY <1>1, <1>2, <1>3, <1>4, <1>5, <1>6 DEF Messages

(* A piece of the message goes to the line. *)
LEMMA PieceStep ==
  ASSUME Terminals, Port, Messages, PrintPiece
  PROVE  Messages'
<1>1. ret \in Printing /\ Place = ret /\ Device = "serial" /\ Place' = Place
  <2>1. ret \in Printing \cup {"null"} /\ Place = ret /\ Place' = Place
    BY DEF PrintPiece, Terminals, Place
  <2>2. ret # "null"
    <3>1. SUFFICES ASSUME ret = "null" PROVE FALSE
      OBVIOUS
    <3>2. tty_devices = << >>
      BY <2>1, <3>1 DEF Terminals
    <3>3. tty_printk = 0
      BY <2>1, <3>1 DEF Terminals, Printing
    <3> QED
      BY <3>2, <3>3 DEF PrintPiece, Device
  <2>3. ret \in Printing /\ tty_devices = <<"null", "serial", "vgatm">> /\ tty_printk = 1
    BY <2>1, <2>2 DEF Terminals
  <2> QED
    BY <2>1, <2>3 DEF Device
<1> DEFINE b == buf[nw + 1]
<1>2. /\ nw \in Nat /\ num \in Nat /\ nw < num /\ num <= Len(buf)
      /\ buf \in Seq(Pieces) /\ line \in Seq(Pieces) /\ printed \in Seq(Pieces)
      /\ chip # "good" => line = << >>
      /\ chip = "good" => Rest
  BY <1>1 DEF Messages, PrintPiece
<1>3. Len(buf) \in Nat /\ Len(line) \in Nat /\ Len(printed) \in Nat
  BY <1>2, LenProperties
<1>4. b \in Pieces
  BY <1>2, <1>3, ElementOfSeq
<1> HIDE DEF b
<1>5. <<b>> \in Seq(Pieces) /\ Len(<<b>>) = 1 /\ <<b>>[1] = b
  BY <1>4
<1>6. line' = IF chip = "good" THEN line \o <<b>> ELSE line
  <2>1. Transmit(<<b>>)
    BY <1>1 DEF PrintPiece, b
  <2>2. uart = Configured /\ chip \in {"good", "late"}
    BY <1>1 DEF Port
  <2> QED
    BY <1>2, <1>5, <2>1, <2>2, TransmitText
<1>7. /\ line \o <<b>> \in Seq(Pieces)
      /\ Len(line \o <<b>>) = Len(line) + 1
      /\ \A k \in 1 .. Len(line) + 1 :
           (line \o <<b>>)[k] = IF k <= Len(line) THEN line[k] ELSE b
  <2>1. /\ line \o <<b>> \in Seq(Pieces)
        /\ Len(line \o <<b>>) = Len(line) + Len(<<b>>)
        /\ \A k \in 1 .. Len(line) + Len(<<b>>) :
             (line \o <<b>>)[k] = IF k <= Len(line) THEN line[k] ELSE <<b>>[k - Len(line)]
    BY <1>2, <1>5, ConcatProperties
  <2> DEFINE one == <<b>>
             more == line \o one
  <2> HIDE DEF one, more
  <2>2. /\ Len(one) = 1 /\ one[1] = b
        /\ Len(more) = Len(line) + Len(one)
        /\ \A k \in 1 .. Len(line) + Len(one) :
             more[k] = IF k <= Len(line) THEN line[k] ELSE one[k - Len(line)]
    BY <1>5, <2>1 DEF one, more
  <2>3. /\ Len(more) = Len(line) + 1
        /\ \A k \in 1 .. Len(line) + 1 : more[k] = IF k <= Len(line) THEN line[k] ELSE b
    BY <1>3, <2>2
  <2> QED
    BY <2>1, <2>3 DEF one, more
<1>8. ASSUME chip = "good" PROVE Rest'
  <2> DEFINE more == line \o <<b>>
  <2>1. /\ line' = more
        /\ Len(more) = Len(line) + 1
        /\ \A k \in 1 .. Len(line) + 1 : more[k] = IF k <= Len(line) THEN line[k] ELSE b
    BY <1>6, <1>7, <1>8
  <2> HIDE DEF more
  <2>2. /\ Len(printed) = Len(line) + num - nw
        /\ \A k \in 1 .. Len(line) : printed[k] = line[k]
        /\ \A k \in 1 .. num - nw : printed[Len(line) + k] = buf[nw + k]
    BY <1>2, <1>8 DEF Rest
  <2>3. /\ Len(printed) = Len(more) + num - (nw + 1)
        /\ \A k \in 1 .. Len(more) : printed[k] = more[k]
    <3>1. printed[Len(line) + 1] = b
      BY <1>2, <2>2 DEF b
    <3>2. Len(printed) = Len(more) + num - (nw + 1)
      BY <1>2, <1>3, <2>1, <2>2
    <3>3. ASSUME NEW k \in 1 .. Len(line) + 1
          PROVE  printed[k] = more[k]
      <4>1. k <= Len(line) => k \in 1 .. Len(line)
        BY <1>3
      <4>2. ~(k <= Len(line)) => k = Len(line) + 1
        BY <1>3
      <4> QED
        BY <2>1, <2>2, <3>1, <4>1, <4>2
    <3> QED
      BY <2>1, <3>2, <3>3
  <2>4. \A k \in 1 .. num - (nw + 1) : printed[Len(more) + k] = buf[(nw + 1) + k]
    <3> SUFFICES ASSUME NEW k \in 1 .. num - (nw + 1)
                 PROVE  printed[Len(more) + k] = buf[(nw + 1) + k]
      OBVIOUS
    <3>1. /\ k + 1 \in 1 .. num - nw
          /\ Len(more) + k = Len(line) + (k + 1)
          /\ (nw + 1) + k = nw + (k + 1)
      BY <1>2, <1>3, <2>1
    <3> QED
      BY <2>2, <3>1
  <2>5. /\ nw' = nw + 1 /\ num' = num /\ buf' = buf /\ printed' = printed
    BY DEF PrintPiece
  <2> QED
    BY <2>1, <2>3, <2>4, <2>5, Zenon DEF Rest
<1>9. /\ nw' = nw + 1 /\ num' = num /\ buf' = buf /\ printed' = printed /\ chip' = chip
      /\ pc' = "printk"
  BY DEF PrintPiece
<1> QED
  BY <1>1, <1>2, <1>3, <1>6, <1>7, <1>8, <1>9 DEF Messages

(* The line has got the whole message. *)
LEMMA EndStep ==
  ASSUME Terminals, Messages, PrintEnd
  PROVE  Messages'
<1>1. pc = "printk" /\ pc' = ret /\ ret # "printk" /\ Place = ret /\ Place' = ret
  BY DEF PrintEnd, Terminals, Place, Printing
<1>2. UNCHANGED <<buf, num, nw, ret, line, printed, chip, tty_devices, tty_printk>>
  BY DEF PrintEnd, bootVars, printVars
<1>3. ASSUME chip = "good", ret \in Printing PROVE line = printed
  <2>1. /\ nw \in Nat /\ num \in Nat /\ nw <= num /\ Rest
        /\ line \in Seq(Pieces) /\ printed \in Seq(Pieces)
    BY <1>1, <1>3 DEF Messages
  <2>2. Device = "serial"
    BY <1>1, <1>3 DEF Terminals, Device
  <2>3. nw = num
    BY <2>1, <2>2 DEF PrintEnd
  <2>4. Len(line) \in Nat /\ Len(printed) \in Nat
    BY <2>1, LenProperties
  <2>5. Len(printed) = Len(line) /\ \A k \in 1 .. Len(line) : printed[k] = line[k]
    BY <2>1, <2>3, <2>4 DEF Rest
  <2> QED
    BY <2>1, <2>5, SeqEqual
<1> QED
  BY <1>1, <1>2, <1>3 DEF Messages

-----------------------------------------------------------------------------
(* The other steps. *)

(* Once all is set up for printing, it stays set up. *)
LEMMA StaySetUp ==
  ASSUME Terminals, Port, Place \in Printing \cup {"hello"}, Place' \in Printing,
         UNCHANGED <<tty_devices, uart, chip>>, tty_printk' = 1
  PROVE  Terminals' /\ Port'
<1>1. tty_devices' = <<"null", "serial", "vgatm">>
  BY DEF Terminals
<1>2. Place' \in AllPlaces /\ (pc' = "printk" => ret' \in Printing)
  BY DEF AllPlaces, Place
<1>3. Place' \notin {"int3", "null", "port", "vgatm", "hello"}
  BY DEF Printing
<1>4. Terminals'
  BY <1>1, <1>2, <1>3 DEF Terminals
<1>5. chip' \in {"good", "late"} /\ uart' = Configured'
  <2>1. uart = Configured /\ chip \in {"good", "late"}
    BY DEF Port
  <2> QED
    BY <2>1, Zenon DEF Configured
<1>6. Port'
  BY <1>3, <1>5 DEF Port
<1> QED
  BY <1>4, <1>6

(* A step that prints nothing. *)
LEMMA Quiet ==
  ASSUME Messages, pc # "printk", pc' # "printk", pc \in Printing => pc' \in Printing,
         nw' \in Nat, UNCHANGED <<buf, num, line, printed, chip>>
  PROVE  Messages'
BY DEF Messages, Place

(* The mouse's handler prints a whole message. *)
LEMMA MouseStep ==
  ASSUME IInv, MouseMove
  PROVE  IInv'
<1>1. pc \in Printing /\ pc # "printk" /\ Place = pc /\ Place' = pc /\ pc' = pc
  BY DEF MouseMove, IInv, Enabled, Place, Printing
<1>2. UNCHANGED <<iflag, in_setup, tty_devices, tty_printk, num, nw, ret, chip, uart>>
  BY DEF MouseMove
<1>3. Terminals' /\ Port'
  <2>1. tty_printk = 1 /\ Terminals /\ Port
    BY <1>1 DEF IInv, Terminals
  <2> QED
    BY <1>1, <1>2, <2>1, StaySetUp
<1>4. Enabled'
  BY <1>1, <1>2 DEF IInv, Enabled
<1>5. Messages'
  <2>1. /\ buf \in Seq(Pieces) /\ num \in Nat /\ nw \in Nat
        /\ line \in Seq(Pieces) /\ printed \in Seq(Pieces)
        /\ chip # "good" => line = << >>
        /\ chip = "good" => line = printed
    BY <1>1 DEF IInv, Messages
  <2>2. CASE in_setup
    BY <1>1, <1>2, <2>2, Quiet DEF MouseMove, IInv, Messages
  <2>3. CASE ~in_setup
    <3>1. Device = "serial"
      <4>1. tty_devices = <<"null", "serial", "vgatm">> /\ tty_printk = 1
        BY <1>1 DEF IInv, Terminals
      <4> QED
        BY <4>1 DEF Device
    <3>2. Transmit(Movement) /\ buf' = Formatted(Movement) /\ printed' = printed \o Movement
      BY <2>3, <3>1 DEF MouseMove
    <3>3. Movement \in Seq(Pieces)
      BY Texts
    <3>4. line' = IF chip = "good" THEN line \o Movement ELSE line
      <4>1. uart = Configured /\ chip \in {"good", "late"}
        BY <1>1 DEF IInv, Port
      <4> QED
        BY <2>1, <3>2, <3>3, <4>1, TransmitText
    <3>5. buf' \in Seq(Pieces)
      BY <2>1, <3>2, <3>3, FormattedText
    <3>6. line \o Movement \in Seq(Pieces) /\ printed \o Movement \in Seq(Pieces)
      BY <2>1, <3>3, ConcatProperties
    <3>7. chip = "good" => line' = printed'
      BY <2>1, <3>2, <3>4
    <3>8. line' \in Seq(Pieces) /\ printed' \in Seq(Pieces) /\ (chip # "good" => line' = << >>)
      BY <2>1, <3>2, <3>4, <3>6
    <3> QED
      BY <1>1, <1>2, <2>1, <3>5, <3>7, <3>8 DEF Messages
  <2> QED
    BY <2>2, <2>3
<1> QED
  BY <1>3, <1>4, <1>5 DEF IInv

(* vprintk goes on, or returns. *)
LEMMA PrintingStep ==
  ASSUME IInv, PrintPiece \/ PrintEnd
  PROVE  IInv'
<1>1. /\ pc = "printk" /\ Place = ret /\ Place' = Place /\ ret' = ret
      /\ pc' \in {"printk", ret} /\ ret \in Printing \cup {"null"}
  BY DEF PrintPiece, PrintEnd, IInv, Terminals, bootVars, printVars, Place, Printing
<1>2. UNCHANGED <<iflag, in_setup, tty_devices, tty_printk, chip, uart>>
  BY DEF PrintPiece, PrintEnd, bootVars
<1>3. Messages'
  BY PieceStep, EndStep DEF IInv
<1>4. Enabled'
  BY <1>1, <1>2 DEF IInv, Enabled
<1>5. Terminals' /\ Port'
  <2>1. CASE ret \in Printing
    <3>1. tty_printk = 1 /\ Terminals /\ Port
      BY <1>1, <2>1 DEF IInv, Terminals
    <3> QED
      BY <1>1, <1>2, <2>1, <3>1, StaySetUp
  <2>2. CASE ret = "null"
    <3>1. /\ Place' = "null" /\ Place = "null" /\ "null" \notin Printing
          /\ (pc' = "printk" => ret' = "null")
      BY <1>1, <2>2 DEF Printing
    <3>2. Terminals'
      BY <1>2, <3>1 DEF IInv, Terminals
    <3>3. Port'
      BY <1>2, <3>1 DEF IInv, Port
    <3> QED
      BY <3>2, <3>3
  <2> QED
    BY <1>1, <2>1, <2>2
<1> QED
  BY <1>3, <1>4, <1>5 DEF IInv

(* The loop and the keyboard's handler print nothing. *)
LEMMA LoopStep ==
  ASSUME IInv, UNCHANGED bootVars, pc \in {"window", "read", "write"},
         pc' = pc \/ {pc, pc'} \subseteq {"read", "write"}
  PROVE  IInv'
<1>1. /\ pc \in Printing /\ pc' \in Printing /\ pc # "printk" /\ pc' # "printk"
      /\ Place = pc /\ Place' = pc' /\ pc' \in {"window", "read", "write"}
  BY DEF Place, Printing
<1>2. UNCHANGED <<iflag, in_setup, tty_devices, tty_printk, chip, uart, buf, num, nw, line, printed>>
  BY DEF bootVars, printVars
<1>3. Terminals' /\ Port'
  <2>1. tty_printk = 1 /\ Terminals /\ Port
    BY <1>1 DEF IInv, Terminals
  <2> QED
    BY <1>1, <1>2, <2>1, StaySetUp
<1>4. Enabled'
  BY <1>1 DEF Enabled
<1>5. Messages'
  BY <1>1, <1>2, Quiet DEF IInv, Messages
<1> QED
  BY <1>3, <1>4, <1>5 DEF IInv

(* One more terminal. *)
LEMMA AppendOne ==
  ASSUME NEW a, NEW b, NEW c
  PROVE  /\ Append(<<a>>, b) = <<a, b>>
         /\ Append(<<a, b>>, c) = <<a, b, c>>
         /\ Len(<<a>>) < 32
         /\ Len(<<a, b>>) < 32
<1> DEFINE S == {a, b, c}
<1>1. Append(<<a>>, b) = <<a, b>>
  <2> DEFINE t == Append(<<a>>, b)
  <2>1. <<a>> \in Seq(S) /\ b \in S /\ <<a, b>> \in Seq(S) /\ Len(<<a>>) = 1
    OBVIOUS
  <2>2. /\ t \in Seq(S) /\ Len(t) = Len(<<a>>) + 1
        /\ \A k \in 1 .. Len(<<a>>) : t[k] = <<a>>[k]
        /\ t[Len(<<a>>) + 1] = b
    BY <2>1, AppendProperties
  <2>3. Len(t) = 2 /\ t[1] = a /\ t[2] = b
    <3> HIDE DEF t
    <3> QED
      BY <2>1, <2>2
  <2> HIDE DEF t
  <2>4. t = <<a, b>>
    BY <2>1, <2>2, <2>3, SeqEqual
  <2> QED
    BY <2>4 DEF t
<1>2. Append(<<a, b>>, c) = <<a, b, c>>
  <2> DEFINE t == Append(<<a, b>>, c)
  <2>1. <<a, b>> \in Seq(S) /\ c \in S /\ <<a, b, c>> \in Seq(S) /\ Len(<<a, b>>) = 2
    OBVIOUS
  <2>2. /\ t \in Seq(S) /\ Len(t) = Len(<<a, b>>) + 1
        /\ \A k \in 1 .. Len(<<a, b>>) : t[k] = <<a, b>>[k]
        /\ t[Len(<<a, b>>) + 1] = c
    BY <2>1, AppendProperties
  <2>3. Len(t) = 3 /\ t[1] = a /\ t[2] = b /\ t[3] = c
    <3> HIDE DEF t
    <3> QED
      BY <2>1, <2>2
  <2> HIDE DEF t
  <2>4. t = <<a, b, c>>
    BY <2>1, <2>2, <2>3, SeqEqual
  <2> QED
    BY <2>4 DEF t
<1>3. Len(<<a>>) < 32 /\ Len(<<a, b>>) < 32
  OBVIOUS
<1> QED
  BY <1>1, <1>2, <1>3

(* The steps of the boot before there is a printk terminal. *)
LEMMA EarlyStep ==
  ASSUME IInv, Int3 \/ RegisterNull \/ SetUpPort \/ TestPort \/ vgatm_init
  PROVE  IInv'
<1>1. CASE Int3
  <2>1. /\ pc = "int3" /\ pc' = "printk" /\ ret' = "null" /\ Place = "int3" /\ Place' = "null"
        /\ UNCHANGED <<chip, iflag, in_setup, tty_devices, tty_printk, uart, line>>
    BY <1>1 DEF Int3, Boot, printk, Place
  <2>2. "null" \notin Printing /\ "int3" \notin Printing /\ "null" \in AllPlaces
    BY DEF Printing, AllPlaces
  <2>3. tty_devices = << >> /\ tty_printk = 0
    BY <2>1, <2>2 DEF IInv, Terminals
  <2>4. Terminals'
    BY <2>1, <2>2, <2>3 DEF Terminals
  <2>5. Port'
    BY <2>1, <2>2 DEF IInv, Port
  <2>6. Enabled'
    BY <2>1 DEF IInv, Enabled
  <2>7. Messages'
    <3>1. /\ buf' = Formatted(Exception) /\ num' = Len(Exception) /\ nw' = 0 /\ printed' = printed
      BY <1>1, <2>3 DEF Int3, printk
    <3>2. /\ Formatted(Exception) \in Seq(Pieces) /\ Len(Exception) <= Len(Formatted(Exception))
          /\ Len(Exception) \in Nat
      BY Texts, FormattedText, LenProperties DEF IInv, Messages
    <3>3. line = << >> /\ printed = << >> /\ line \in Seq(Pieces) /\ printed \in Seq(Pieces)
      BY <2>1, <2>2 DEF IInv, Messages
    <3> QED
      BY <2>1, <2>2, <3>1, <3>2, <3>3 DEF Messages
  <2> QED
    BY <2>4, <2>5, <2>6, <2>7 DEF IInv
<1>2. CASE RegisterNull
  <2>1. /\ pc = "null" /\ pc' = "port" /\ Place = "null" /\ Place' = "port" /\ nw' = 0
        /\ register_tty("null")
        /\ UNCHANGED <<chip, iflag, in_setup, tty_printk, uart, buf, num, line, printed>>
    BY <1>2 DEF RegisterNull, Boot, Place
  <2>2. "null" \notin Printing /\ "port" \notin Printing /\ "port" \in AllPlaces
    BY DEF Printing, AllPlaces
  <2>3. tty_devices' = <<"null">> /\ tty_printk = 0
    <3>1. tty_devices = << >> /\ tty_printk = 0
      BY <2>1, <2>2 DEF IInv, Terminals
    <3> QED
      BY <2>1, <3>1 DEF register_tty
  <2>4. Terminals'
    BY <2>1, <2>2, <2>3 DEF Terminals
  <2>5. Port'
    <3>1. uart = Reset /\ chip \in {"good", "late"}
      BY <2>1 DEF IInv, Port
    <3>2. Reset = After(0)
      BY DEF Reset, After
    <3>3. uart' = After(nw') /\ nw' \in 0 .. 9
      BY <2>1, <3>1, <3>2
    <3> QED
      BY <2>1, <2>2, <3>1, <3>3, Zenon DEF Port, After
  <2>6. Enabled'
    BY <2>1 DEF IInv, Enabled
  <2>7. Messages'
    BY <2>1, <2>2, Quiet DEF IInv
  <2> QED
    BY <2>4, <2>5, <2>6, <2>7 DEF IInv
<1>3. CASE SetUpPort
  <2>1. /\ pc = "port" /\ pc' = "port" /\ Place = "port" /\ Place' = "port" /\ nw' = nw + 1
        /\ nw < Len(PortSetup(9600))
        /\ Outb(PortSetup(9600)[nw + 1][1], PortSetup(9600)[nw + 1][2])
        /\ UNCHANGED <<chip, iflag, in_setup, tty_devices, tty_printk, buf, num, printed>>
    BY <1>3 DEF SetUpPort, Boot, Place
  <2>2. "port" \notin Printing
    BY DEF Printing
  <2>3. nw \in 0 .. 8 /\ uart = After(nw) /\ chip \in {"good", "late"}
    <3>1. Len(PortSetup(9600)) = 9
      BY DEF PortSetup
    <3> QED
      BY <2>1, <3>1 DEF IInv, Port
  <2>4. uart' = After(nw + 1) /\ line' = line
    <3>1. uart = After(nw) /\ nw \in 0 .. 8
          /\ Outb(PortSetup(9600)[nw + 1][1], PortSetup(9600)[nw + 1][2])
      BY <2>1, <2>3
    <3> QED
      BY <3>1, SetUp
  <2>5. Terminals'
    BY <2>1, <2>2 DEF IInv, Terminals
  <2>6. Port'
    <3>1. uart' = After(nw') /\ nw' \in 0 .. 9
      BY <2>1, <2>3, <2>4
    <3>2. Place' = "port" /\ chip' \in {"good", "late"}
      BY <2>1, <2>3
    <3> QED
      BY <2>2, <3>1, <3>2, Zenon DEF Port, After
  <2>7. Enabled'
    BY <2>1 DEF IInv, Enabled
  <2>8. Messages'
    BY <2>1, <2>2, <2>3, <2>4, Quiet DEF IInv
  <2> QED
    BY <2>5, <2>6, <2>7, <2>8 DEF IInv
<1>4. CASE TestPort
  <2>1. /\ pc = "port" /\ pc' = "vgatm" /\ Place = "port" /\ Place' = "vgatm"
        /\ IF uart.loop /\ chip = "good" THEN Outb(4, 15) ELSE UNCHANGED <<uart, line>>
        /\ UNCHANGED <<chip, iflag, in_setup, tty_printk, nw, buf, num, printed>>
    BY <1>4 DEF TestPort, Boot, Place, printVars
  <2>2. "port" \notin Printing /\ "vgatm" \notin Printing /\ "vgatm" \in AllPlaces
    BY DEF Printing, AllPlaces
  <2>3. tty_devices' = <<"null", "serial">> /\ tty_printk = 0
    <3>1. tty_devices = <<"null">> /\ tty_printk = 0
      BY <2>1, <2>2 DEF IInv, Terminals
    <3>2. Append(tty_devices, "serial") = <<"null", "serial">> /\ Len(tty_devices) < 32
      BY <3>1, AppendOne, Zenon
    <3>3. register_tty("serial")
      BY <1>4 DEF TestPort
    <3>4. tty_devices' = Append(tty_devices, "serial")
      BY <3>2, <3>3, Zenon DEF register_tty
    <3> QED
      BY <3>1, <3>2, <3>4, Zenon
  <2>4. uart = [dlab |-> FALSE, dll |-> 12, dlm |-> 0, loop |-> TRUE] /\ chip \in {"good", "late"}
    <3>1. nw = 9 /\ uart = After(nw) /\ chip \in {"good", "late"}
      <4> DEFINE writes == Len(PortSetup(9600))
      <4>1. writes = 9
        BY DEF PortSetup
      <4>2. nw \in 0 .. 9 /\ uart = After(nw) /\ chip \in {"good", "late"}
        BY <2>1 DEF IInv, Port
      <4>3. nw >= writes
        BY <1>4 DEF TestPort
      <4> HIDE DEF writes
      <4>4. nw >= 9
        BY <4>1, <4>3
      <4>5. nw = 9
        BY <4>2, <4>4
      <4> QED
        BY <4>2, <4>5, Zenon
    <3> QED
      BY <3>1 DEF After
  <2>5. uart' = Configured /\ line' = line
    <3>1. CASE chip = "good"
      <4>1. Outb(4, 15)
        BY <2>1, <2>4, <3>1
      <4>2. 15 \in Nat /\ (15 \div 16) % 2 # 1
        OBVIOUS
      <4>3. uart' = [dlab |-> FALSE, dll |-> 12, dlm |-> 0, loop |-> FALSE] /\ line' = line
        BY <2>4, <4>1, <4>2, Registers
      <4> QED
        BY <3>1, <4>3 DEF Configured
    <3>2. CASE chip # "good"
      BY <2>1, <2>4, <3>2 DEF Configured
    <3> QED
      BY <3>1, <3>2
  <2>6. Terminals'
    BY <2>1, <2>2, <2>3 DEF Terminals
  <2>7. Port'
    BY <2>1, <2>4, <2>5 DEF Port, Configured
  <2>8. Enabled'
    BY <2>1 DEF IInv, Enabled
  <2>9. Messages'
    BY <2>1, <2>2, <2>5, Quiet DEF IInv, Messages
  <2> QED
    BY <2>6, <2>7, <2>8, <2>9 DEF IInv
<1>5. CASE vgatm_init
  <2>1. /\ pc = "vgatm" /\ pc' = "hello" /\ Place = "vgatm" /\ Place' = "hello"
        /\ register_tty("vgatm")
        /\ UNCHANGED <<chip, iflag, in_setup, tty_printk, nw, buf, num, printed, line, uart>>
    BY <1>5 DEF vgatm_init, Boot, Place, printVars
  <2>2. "hello" \notin Printing /\ "vgatm" \notin Printing /\ "hello" \in AllPlaces
    BY DEF Printing, AllPlaces
  <2>3. tty_devices' = <<"null", "serial", "vgatm">> /\ tty_printk = 0
    <3>1. tty_devices = <<"null", "serial">> /\ tty_printk = 0
      BY <2>1, <2>2 DEF IInv, Terminals
    <3>2. Append(tty_devices, "vgatm") = <<"null", "serial", "vgatm">> /\ Len(tty_devices) < 32
      BY <3>1, AppendOne, Zenon
    <3>3. tty_devices' = Append(tty_devices, "vgatm")
      BY <2>1, <3>2, Zenon DEF register_tty
    <3> QED
      BY <3>1, <3>2, <3>3, Zenon
  <2>4. Terminals'
    BY <2>1, <2>2, <2>3 DEF Terminals
  <2>5. Port'
    <3>1. uart = Configured /\ chip \in {"good", "late"}
      BY <2>1 DEF IInv, Port
    <3>2. uart' = Configured' /\ chip' \in {"good", "late"}
      BY <2>1, <3>1, Zenon DEF Configured
    <3> QED
      BY <2>1, <2>2, <3>2 DEF Port
  <2>6. Enabled'
    BY <2>1 DEF IInv, Enabled
  <2>7. Messages'
    BY <2>1, <2>2, Quiet DEF IInv, Messages
  <2> QED
    BY <2>4, <2>5, <2>6, <2>7 DEF IInv
<1> QED
  BY <1>1, <1>2, <1>3, <1>4, <1>5

(* The steps of the boot from the first message on. *)
LEMMA LateStep ==
  ASSUME IInv,
         \/ Hello \/ init_atkbd \/ GiveUp \/ OpenWindow \/ CloseWindow \/ Back \/ Sti
  PROVE  IInv'
<1>1. /\ pc \in {"hello", "init_atkbd", "8042", "window", "back", "sti"}
      /\ pc # "printk" /\ Place = pc /\ Place \in Printing \cup {"hello"}
  BY DEF Hello, init_atkbd, GiveUp, OpenWindow, CloseWindow, Back, Sti, Boot, Place, Printing
<1>2. UNCHANGED <<chip, tty_devices, uart, line>>
  BY DEF Hello, init_atkbd, GiveUp, OpenWindow, CloseWindow, Back, Sti, Boot
<1>3. /\ HelloWorld \in Seq(Pieces) /\ Initializing \in Seq(Pieces)
      /\ NoUsablePorts \in Seq(Pieces) /\ Complete \in Seq(Pieces) /\ HelloBack \in Seq(Pieces)
  BY Texts
<1>4. \/ \E text \in Seq(Pieces), place \in Printing : printk(text, place)
      \/ /\ pc' \in {"window", "read"} /\ pc \in {"8042", "sti"}
         /\ UNCHANGED <<nw, buf, num, printed, tty_printk>>
  <2>1. /\ "init_atkbd" \in Printing /\ "8042" \in Printing /\ "back" \in Printing
        /\ "sti" \in Printing
    BY DEF Printing
  <2>2. CASE Hello
    BY <1>3, <2>1, <2>2, Zenon DEF Hello
  <2>3. CASE init_atkbd
    BY <1>3, <2>1, <2>3, Zenon DEF init_atkbd
  <2>4. CASE GiveUp
    BY <1>3, <2>1, <2>4, Zenon DEF GiveUp
  <2>5. CASE OpenWindow
    BY <2>5 DEF OpenWindow, Boot, printVars
  <2>6. CASE CloseWindow
    BY <1>3, <2>1, <2>6, Zenon DEF CloseWindow
  <2>7. CASE Back
    BY <1>3, <2>1, <2>7, Zenon DEF Back
  <2>8. CASE Sti
    BY <2>8 DEF Sti, Boot, printVars
  <2> QED
    BY <2>2, <2>3, <2>4, <2>5, <2>6, <2>7, <2>8
<1>5. /\ Place' \in Printing
      /\ pc' = "printk" \/ pc' \in {"window", "read"}
  BY <1>4 DEF printk, Place, Printing
<1>6. tty_printk' = 1
  <2>1. pc # "hello" => tty_printk = 1
    BY <1>1 DEF IInv, Terminals
  <2> QED
    BY <2>1 DEF Hello, init_atkbd, GiveUp, OpenWindow, CloseWindow, Back, Sti, Boot
<1>7. Terminals' /\ Port'
  BY <1>1, <1>2, <1>5, <1>6, StaySetUp DEF IInv
<1>8. Enabled'
  <2>1. iflag => pc = "window"
    BY <1>1 DEF IInv, Enabled
  <2> QED
    BY <2>1 DEF Hello, init_atkbd, GiveUp, OpenWindow, CloseWindow, Back, Sti, Boot, Enabled
<1>9. Messages'
  <2>1. Messages /\ tty_devices # << >>
    <3>1. tty_devices = <<"null", "serial", "vgatm">>
      BY <1>1 DEF IInv, Terminals
    <3> QED
      BY <3>1 DEF IInv
  <2>2. CASE \E text \in Seq(Pieces), place \in Printing : printk(text, place)
    <3>1. PICK text \in Seq(Pieces), place \in Printing : printk(text, place)
      BY <2>2
    <3> QED
      BY <1>1, <1>2, <2>1, <3>1, PrintkStep
  <2>3. CASE /\ pc' \in {"window", "read"} /\ pc \in {"8042", "sti"}
             /\ UNCHANGED <<nw, buf, num, printed, tty_printk>>
    <3>1. pc' \in Printing /\ pc' # "printk" /\ nw' \in Nat
      BY <2>1, <2>3 DEF Messages, Printing
    <3> QED
      BY <1>1, <1>2, <2>1, <2>3, <3>1, Quiet
  <2> QED
    BY <1>4, <2>2, <2>3
<1> QED
  BY <1>7, <1>8, <1>9 DEF IInv

-----------------------------------------------------------------------------
(* The theorem. *)

LEMMA IInvInit == Init => IInv
<1> SUFFICES ASSUME Init PROVE IInv
  OBVIOUS
<1>1. Place = "int3" /\ "int3" \notin Printing /\ Place \in AllPlaces
  BY DEF Init, Place, Printing, AllPlaces
<1>2. Terminals
  BY <1>1 DEF Init, Terminals
<1>3. Port
  BY <1>1 DEF Init, Port
<1>4. Enabled
  BY DEF Init, Enabled
<1>5. Messages
  BY <1>1 DEF Init, Messages
<1> QED
  BY <1>2, <1>3, <1>4, <1>5 DEF IInv

LEMMA IInvNext == IInv /\ [Next]_vars => IInv'
<1> SUFFICES ASSUME IInv, [Next]_vars PROVE IInv'
  OBVIOUS
<1>1. CASE \E c \in Char : KeyPress(c)
  <2>1. UNCHANGED bootVars /\ iflag /\ pc' = pc
    BY <1>1 DEF KeyPress
  <2>2. pc \in {"window", "read", "write"}
    BY <2>1 DEF IInv, Enabled
  <2> QED
    BY <2>1, <2>2, LoopStep
<1>2. CASE MouseMove
  BY <1>2, MouseStep
<1>3. CASE PrintPiece \/ PrintEnd
  BY <1>3, PrintingStep
<1>4. CASE Booting
  BY <1>4, EarlyStep, LateStep DEF Booting
<1>5. CASE Loop
  <2>1. UNCHANGED bootVars /\ {pc, pc'} \subseteq {"read", "write"}
    BY <1>5 DEF Loop, Wait, Read, ReadEnd, Write, WriteEnd, Looping
  <2> QED
    BY <2>1, LoopStep
<1>6. CASE UNCHANGED vars
  <2>1. /\ UNCHANGED <<pc, ret, iflag, tty_devices, tty_printk, buf, num, nw, printed>>
        /\ UNCHANGED <<chip, uart, line>>
    BY <1>6 DEF vars, bootVars, printVars
  <2>2. Terminals' /\ Port'
    BY <2>1, Zenon DEF IInv, Terminals, Port, Place, After, Configured
  <2>3. Enabled' /\ Messages'
    BY <2>1, Zenon DEF IInv, Enabled, Messages, Rest, Place
  <2> QED
    BY <2>2, <2>3 DEF IInv
<1> QED
  BY <1>1, <1>2, <1>3, <1>4, <1>5, <1>6 DEF Next, Kernel

(* The serial line has all that the kernel and its mouse handler have      *)
(* printed, in order and once each, whatever the mouse does in between; or *)
(* nothing, if the UART missed the test of init_port and stayed in         *)
(* loopback mode.                                                          *)
THEOREM LinePrints == Spec => []LineShowsMessages
<1>1. IInv => LineShowsMessages
  <2> SUFFICES ASSUME IInv, pc # "printk"
               PROVE  line = IF chip = "good" THEN printed ELSE << >>
    BY DEF LineShowsMessages
  <2>1. CASE Place \in Printing
    BY <2>1 DEF IInv, Messages
  <2>2. CASE Place \notin Printing
    BY <2>2 DEF IInv, Messages
  <2> QED
    BY <2>1, <2>2
<1> QED
  BY <1>1, IInvInit, IInvNext, PTL DEF Spec

-----------------------------------------------------------------------------
(* The invariant behind CleanAfterCursor. *)

(* The places where the screen is the console's. *)
Shown == Printing \cup {"hello"}

(* What is blank while the echo is on its way; "\b \b" takes a cell more   *)
(* and gives it back.                                                      *)
Echoing ==
  \/ /\ echo = << >> \/ echo = <<BS, Blank, BS>> \/ \E c \in Glyph \cup {NL} : echo = <<c>>
     /\ BlankFrom(screen, 0)
  \/ echo = <<Blank, BS>> /\ BlankFrom(screen, 1)
  \/ echo = <<BS>> /\ BlankFrom(screen, -1)

Console ==
  /\ screen \in Screen
  /\ fifo \in Seq(Char)
  /\ got \in Seq(Char)
  /\ pc = "printk" => ret # "write"
  /\ Place \in Shown /\ pc # "write" => BlankFrom(screen, 0) /\ cursor = Position(screen)
  /\ pc = "write" => Echoing

(* A step that leaves the screen and the echo alone. *)
LEMMA SameScreen ==
  ASSUME Console, UNCHANGED <<screen, cursor>>, fifo' \in Seq(Char), got' \in Seq(Char),
         \/ /\ pc # "write" /\ pc' # "write" /\ (Place' \in Shown => Place \in Shown)
            /\ pc' = "printk" => ret' # "write"
         \/ pc = "write" /\ pc' = "write" /\ echo' = echo
  PROVE  Console'
<1>1. BlankFrom(screen, 0)' <=> BlankFrom(screen, 0)
  BY Zenon DEF BlankFrom, Position, Index
<1>2. Position(screen)' = Position(screen)
  BY Zenon DEF Position, Index
<1>3. CASE pc # "write" /\ pc' # "write" /\ (Place' \in Shown => Place \in Shown)
           /\ (pc' = "printk" => ret' # "write")
  BY <1>1, <1>2, <1>3 DEF Console
<1>4. CASE pc = "write" /\ pc' = "write" /\ echo' = echo
  <2>1. Echoing'
    BY <1>4, Zenon DEF Console, Echoing, BlankFrom, Position, Index
  <2>2. pc' # "printk"
    BY <1>4
  <2> QED
    BY <1>4, <2>1, <2>2 DEF Console
<1> QED
  BY <1>3, <1>4

(* What the boot, vprintk and the mouse do to the console. *)
LEMMA BootConsole ==
  ASSUME Console, Booting \/ PrintPiece \/ PrintEnd \/ MouseMove
  PROVE  Console'
<1> USE DEF Place
<1>1. fifo' = fifo /\ got' = got /\ echo' = echo /\ fifo \in Seq(Char) /\ got \in Seq(Char)
  BY DEF Booting, Int3, RegisterNull, SetUpPort, TestPort, vgatm_init, Hello, init_atkbd, GiveUp,
         OpenWindow, CloseWindow, Back, Sti, Boot, PrintPiece, PrintEnd, MouseMove, echoVars, Console
<1>2. /\ "null" \notin Shown /\ "port" \notin Shown /\ "vgatm" \notin Shown
      /\ {"hello", "init_atkbd", "8042", "window", "back", "sti", "read"} \subseteq Shown
  BY DEF Shown, Printing
<1>3. CASE Int3 \/ RegisterNull \/ SetUpPort \/ TestPort
  <2>1. /\ UNCHANGED <<screen, cursor>>
        /\ pc \in {"int3", "null", "port"}
        /\ \/ pc' = "printk" /\ ret' = "null"
           \/ pc' \in {"port", "vgatm"}
    BY <1>3 DEF Int3, RegisterNull, SetUpPort, TestPort, Boot, printk
  <2>2. Place' \notin Shown
    BY <1>2, <2>1
  <2> QED
    BY <1>1, <2>1, <2>2, SameScreen
<1>4. CASE vgatm_init
  <2>1. screen' = ClearScreen /\ cursor' = 0 /\ pc' = "hello"
    BY <1>4 DEF vgatm_init
  <2>2. ClearScreen \in Screen /\ Position(ClearScreen) = 0 /\ BlankFrom(ClearScreen, 0)
    <3>1. width \in Nat \ {0} /\ height \in Nat \ {0} /\ Blank \in Glyph
      BY ScreenAssumption
    <3>2. ClearScreen \in Screen
      BY <3>1 DEF ClearScreen, Screen
    <3>3. Position(ClearScreen) = 0
      BY <3>1 DEF ClearScreen, Position, Index
    <3>4. BlankFrom(ClearScreen, 0)
      BY DEF ClearScreen, BlankFrom
    <3> QED
      BY <3>2, <3>3, <3>4
  <2>3. screen' \in Screen /\ Position(screen') = 0 /\ BlankFrom(screen', 0)
    BY <2>1, <2>2, Zenon
  <2> QED
    BY <1>1, <2>1, <2>3 DEF Console
<1>5. CASE Hello \/ init_atkbd \/ GiveUp \/ OpenWindow \/ CloseWindow \/ Back \/ Sti
  <2>1. /\ UNCHANGED <<screen, cursor>>
        /\ pc \in {"hello", "init_atkbd", "8042", "window", "back", "sti"}
        /\ \/ pc' = "printk" /\ ret' \in {"init_atkbd", "8042", "back", "sti"}
           \/ pc' \in {"window", "read"}
    BY <1>5 DEF Hello, init_atkbd, GiveUp, OpenWindow, CloseWindow, Back, Sti, Boot, printk
  <2>2. Place \in Shown
    BY <1>2, <2>1
  <2> QED
    BY <1>1, <2>1, <2>2, SameScreen
<1>6. CASE PrintPiece \/ PrintEnd
  <2>1. /\ UNCHANGED <<screen, cursor>>
        /\ pc = "printk" /\ ret' = ret /\ pc' \in {"printk", ret} /\ ret # "write"
    BY <1>6 DEF PrintPiece, PrintEnd, echoVars, bootVars, printVars, Console
  <2> QED
    BY <1>1, <2>1, SameScreen
<1>7. CASE MouseMove
  <2>1. UNCHANGED <<screen, cursor, pc, ret>>
    BY <1>7 DEF MouseMove, echoVars
  <2>2. pc = "printk" => ret # "write"
    BY DEF Console
  <2> QED
    BY <1>1, <2>1, <2>2, SameScreen
<1> QED
  BY <1>3, <1>4, <1>5, <1>6, <1>7 DEF Booting

(* An echo is one of the three texts of the loop. *)
LEMMA EchoTexts ==
  ASSUME NEW c \in Char
  PROVE  EchoOf(c) = <<BS, Blank, BS>> \/ \E d \in Glyph \cup {NL} : EchoOf(c) = <<d>>
<1>1. c \in Glyph \cup {BS, NL}
  BY KernelAssumption
<1> QED
  BY <1>1 DEF EchoOf

(* A character of the echo reaches the screen. *)
LEMMA WriteConsole ==
  ASSUME Console, Write
  PROVE  Console'
<1>1. /\ pc = "write" /\ pc' = "write" /\ echo # << >> /\ screen' = send(screen, Head(echo))
      /\ echo' = Tail(echo) /\ fifo' = fifo /\ got' = got /\ screen \in Screen
      /\ fifo \in Seq(Char) /\ got \in Seq(Char) /\ Echoing
  BY DEF Write, Looping, Console
<1>2. Blank \in Glyph /\ Glyph \cap Control = {} /\ BS \in Control /\ NL \in Control /\ TAB \in Control
  BY ScreenAssumption DEF Control
<1>3. BS # TAB /\ NL # TAB
  BY DEF BS, NL, TAB
<1>4. ASSUME NEW c \in Glyph \cup {BS, NL} PROVE send(screen, c) \in Screen
  <2>1. ~DividesByZero(c) /\ c \in Glyph \cup Control
    BY <1>2, <1>3 DEF DividesByZero
  <2> QED
    BY <1>1, <2>1, SendScreen
<1>5. ASSUME BlankFrom(screen, 0) PROVE BlankFrom(screen, 1)
  <2>1. \A i \in Cell : i >= Position(screen) + 1 => i >= Position(screen) + 0
    <3>1. Position(screen) \in Int /\ \A i \in Cell : i \in Int
      BY <1>1, ScreenAssumption, ScreenFields DEF Position, Index, Cell
    <3> QED
      BY <3>1
  <2> QED
    BY <1>5, <2>1 DEF BlankFrom
<1>6. CASE echo = <<BS, Blank, BS>> /\ BlankFrom(screen, 0)
  <2>1. Head(echo) = BS /\ Tail(echo) = <<Blank, BS>>
    BY <1>6
  <2>2. BlankFrom(send(screen, BS), 1)
    <3>1. BlankFrom(send(screen, BS), 0 + 1)
      BY <1>1, <1>6, BackBlank
    <3> QED
      BY <3>1
  <2>3. echo' = <<Blank, BS>> /\ BlankFrom(screen', 1) /\ screen' \in Screen
    BY <1>1, <1>4, <2>1, <2>2
  <2>4. Echoing'
    BY <2>3 DEF Echoing
  <2> QED
    BY <1>1, <2>3, <2>4 DEF Console
<1>7. CASE echo = <<Blank, BS>> /\ BlankFrom(screen, 1)
  <2>1. Head(echo) = Blank /\ Tail(echo) = <<BS>>
    BY <1>7
  <2>2. BlankFrom(send(screen, Blank), -1)
    BY <1>1, <1>2, <1>7, GlyphBlank
  <2>3. echo' = <<BS>> /\ BlankFrom(screen', -1) /\ screen' \in Screen
    BY <1>1, <1>2, <1>4, <2>1, <2>2
  <2>4. Echoing'
    BY <2>3 DEF Echoing
  <2> QED
    BY <1>1, <2>3, <2>4 DEF Console
<1>8. CASE echo = <<BS>> /\ BlankFrom(screen, -1)
  <2>1. Head(echo) = BS /\ Tail(echo) = << >>
    BY <1>8
  <2>2. BlankFrom(send(screen, BS), 0)
    <3>1. BlankFrom(send(screen, BS), (-1) + 1)
      BY <1>1, <1>8, BackBlank
    <3> QED
      BY <3>1
  <2>3. echo' = << >> /\ BlankFrom(screen', 0) /\ screen' \in Screen
    BY <1>1, <1>4, <2>1, <2>2
  <2>4. Echoing'
    BY <2>3 DEF Echoing
  <2> QED
    BY <1>1, <2>3, <2>4 DEF Console
<1>9. ASSUME NEW c \in Glyph \cup {NL}, echo = <<c>>, BlankFrom(screen, 0)
      PROVE  Console'
  <2>1. Head(echo) = c /\ Tail(echo) = << >>
    BY <1>9
  <2>2. BlankFrom(send(screen, c), 0)
    <3>1. CASE c \in Glyph
      BY <1>1, <1>5, <1>9, <3>1, GlyphBlank
    <3>2. CASE c = NL
      BY <1>1, <1>9, <3>2, NewLineBlank
    <3> QED
      BY <3>1, <3>2
  <2>3. echo' = << >> /\ BlankFrom(screen', 0) /\ screen' \in Screen
    BY <1>1, <1>4, <2>1, <2>2
  <2>4. Echoing'
    BY <2>3 DEF Echoing
  <2> QED
    BY <1>1, <2>3, <2>4 DEF Console
<1> QED
  BY <1>1, <1>6, <1>7, <1>8, <1>9 DEF Echoing

(* The register has room for the position. *)
LEMMA SmallRemainder ==
  ASSUME NEW n \in Nat, n < 65536
  PROVE  n % 65536 = n
OBVIOUS

(* The other steps of the loop, and the keyboard's handler. *)
LEMMA LoopConsole ==
  ASSUME width * height <= 65536, Console,
         Wait \/ Read \/ ReadEnd \/ WriteEnd \/ \E c \in Char : KeyPress(c)
  PROVE  Console'
<1>1. /\ screen \in Screen /\ fifo \in Seq(Char) /\ got \in Seq(Char)
      /\ pc = "printk" => ret # "write"
      /\ Place \in Shown /\ pc # "write" => BlankFrom(screen, 0) /\ cursor = Position(screen)
  BY DEF Console
<1>2. "read" \in Shown
  BY DEF Shown, Printing
<1>3. CASE Wait
  <2>1. UNCHANGED <<screen, cursor, fifo, got>> /\ pc = "read" /\ pc' = "read" /\ Place = "read"
    BY <1>3 DEF Wait, Looping, echoVars, Place
  <2> QED
    BY <1>1, <1>2, <2>1, SameScreen
<1>4. CASE Read
  <2>1. /\ pc = "read" /\ pc' = "read" /\ UNCHANGED <<screen, cursor>> /\ fifo # << >>
        /\ got' = Append(got, Head(fifo)) /\ fifo' = Tail(fifo) /\ Place = "read"
    BY <1>4 DEF Read, Looping, Place
  <2>2. Head(fifo) \in Char /\ Tail(fifo) \in Seq(Char)
    BY <1>1, <2>1, HeadTailProperties
  <2>3. got' \in Seq(Char) /\ fifo' \in Seq(Char)
    BY <1>1, <2>1, <2>2, AppendProperties
  <2> QED
    BY <1>2, <2>1, <2>3, SameScreen
<1>5. CASE ReadEnd
  <2>1. /\ pc = "read" /\ UNCHANGED <<screen, cursor, fifo>> /\ got # << >> /\ Place = "read"
        /\ IF ch = NUL THEN got' = << >> /\ UNCHANGED <<pc, echo>>
           ELSE pc' = "write" /\ echo' = EchoOf(ch) /\ UNCHANGED got
    BY <1>5 DEF ReadEnd, Looping, Place
  <2>2. CASE ch = NUL
    <3>1. got' \in Seq(Char) /\ fifo' \in Seq(Char) /\ pc' = "read"
      BY <1>1, <2>1, <2>2
    <3> QED
      BY <1>2, <2>1, <3>1, SameScreen
  <2>3. CASE ch # NUL
    <3>1. pc' = "write" /\ echo' = EchoOf(ch) /\ got' = got
      BY <2>1, <2>3
    <3>2. ch \in Char
      BY <1>1, <2>1, HeadTailProperties DEF ch
    <3>3. BlankFrom(screen, 0)
      BY <1>1, <1>2, <2>1
    <3>4. screen' = screen
      BY <2>1
    <3>5. BlankFrom(screen', 0)
      BY <3>3, <3>4
    <3>6. echo' = <<BS, Blank, BS>> \/ \E d \in Glyph \cup {NL} : echo' = <<d>>
      BY <3>1, <3>2, EchoTexts
    <3>7. Echoing'
      BY <3>5, <3>6 DEF Echoing
    <3> QED
      BY <1>1, <2>1, <3>1, <3>7 DEF Console
  <2> QED
    BY <2>2, <2>3
<1>6. CASE WriteEnd
  <2>1. /\ pc = "write" /\ pc' = "read" /\ echo = << >> /\ UNCHANGED <<screen, fifo>>
        /\ got' = << >> /\ cursor' = CursorRegister(screen) /\ Echoing
    BY <1>6 DEF WriteEnd, Looping, Console
  <2>2. BlankFrom(screen, 0)
    BY <2>1 DEF Echoing
  <2>3. CursorRegister(screen) = Position(screen)
    <3> DEFINE p == Position(screen)
               size == width * height
    <3>1. p \in Cell
      BY <1>1, ScreenFields, IndexInCell DEF Position
    <3>2. size \in Nat /\ p \in 0 .. size - 1 /\ size <= 65536
      BY <3>1, ScreenAssumption DEF Cell
    <3> HIDE DEF p, size
    <3>3. p \in Nat /\ p < 65536
      BY <3>2
    <3>4. p % 65536 = p
      BY <3>3, SmallRemainder
    <3> QED
      BY <3>4 DEF CursorRegister, p
  <2>4. screen' = screen
    BY <2>1
  <2>5. BlankFrom(screen', 0) /\ cursor' = Position(screen')
    BY <2>1, <2>2, <2>3, <2>4
  <2>6. screen' \in Screen /\ fifo' \in Seq(Char) /\ got' \in Seq(Char)
    BY <1>1, <2>1
  <2> QED
    BY <2>1, <2>5, <2>6 DEF Console
<1>7. CASE \E c \in Char : KeyPress(c)
  <2>1. PICK c \in Char : KeyPress(c)
    BY <1>7
  <2>2. /\ UNCHANGED <<pc, got, echo, screen, cursor, ret>>
        /\ fifo' = IF Len(fifo) < Capacity THEN Append(fifo, c) ELSE fifo
    BY <2>1 DEF KeyPress, bootVars, printVars
  <2>3. fifo' \in Seq(Char) /\ got' \in Seq(Char)
    BY <1>1, <2>2, AppendProperties
  <2>4. Place' = Place
    BY <2>2 DEF Place
  <2> QED
    BY <1>1, <2>2, <2>3, <2>4, SameScreen
<1> QED
  BY <1>3, <1>4, <1>5, <1>6, <1>7

LEMMA ConsoleInit == Init => Console
<1> SUFFICES ASSUME Init PROVE Console
  OBVIOUS
<1>1. Place \notin Shown /\ pc = "int3"
  BY DEF Init, Place, Shown, Printing
<1>2. screen \in Screen
  BY ScreenAssumption, KernelAssumption DEF Init, Screen
<1> QED
  BY <1>1, <1>2 DEF Init, Console

LEMMA ConsoleNext ==
  ASSUME width * height <= 65536
  PROVE  Console /\ [Next]_vars => Console'
<1> SUFFICES ASSUME Console, [Next]_vars PROVE Console'
  OBVIOUS
<1>1. CASE UNCHANGED vars
  <2>1. UNCHANGED <<pc, ret, fifo, got, echo, screen, cursor>>
    BY <1>1 DEF vars, echoVars, bootVars, printVars
  <2>2. /\ pc = "printk" => ret # "write"
        /\ fifo \in Seq(Char) /\ got \in Seq(Char)
    BY DEF Console
  <2>3. Place' = Place
    BY <2>1 DEF Place
  <2> QED
    BY <2>1, <2>2, <2>3, SameScreen
<1>2. CASE Booting \/ PrintPiece \/ PrintEnd \/ MouseMove
  BY <1>2, BootConsole
<1>3. CASE Write
  BY <1>3, WriteConsole
<1>4. CASE Wait \/ Read \/ ReadEnd \/ WriteEnd \/ \E c \in Char : KeyPress(c)
  BY <1>4, LoopConsole
<1> QED
  BY <1>1, <1>2, <1>3, <1>4 DEF Next, Kernel, Loop

(* Between two echoes the cursor is where the next character goes, and     *)
(* nothing is left behind it, on every screen whose cells the cursor       *)
(* register can count.                                                     *)
THEOREM NothingBehindCursor ==
  ASSUME width * height <= 65536
  PROVE  Spec => []CleanAfterCursor
<1>1. Console => CleanAfterCursor
  <2> SUFFICES ASSUME Console, pc = "read"
               PROVE  /\ cursor = Position(screen)
                      /\ \A i \in Cell : i >= cursor => screen.vidmem[i] = Blank
    BY DEF CleanAfterCursor
  <2>1. Place \in Shown /\ pc # "write"
    BY DEF Place, Shown, Printing
  <2>2. BlankFrom(screen, 0) /\ cursor = Position(screen)
    BY <2>1 DEF Console
  <2>3. Position(screen) \in Int
    BY ScreenAssumption, ScreenFields DEF Console, Position, Index
  <2> QED
    BY <2>2, <2>3 DEF BlankFrom
<1> QED
  BY <1>1, ConsoleInit, ConsoleNext, PTL DEF Spec

-----------------------------------------------------------------------------
(* The text on the screen.  A text that the video memory m begins with: *)
Begins(t, m) == t \in Seq(Glyph) /\ \A i \in 1 .. Len(t) : t[i] = m[i - 1]

LEMMA TextFacts ==
  ASSUME NEW m \in [Cell -> Glyph], NEW x \in 0 .. width - 1, NEW y \in 0 .. height - 1
  PROVE  /\ Begins(TextOn(At(m, x, y)), m)
         /\ Len(TextOn(At(m, x, y))) = Index(x, y)
         /\ At(m, x, y) \in Screen
<1> DEFINE n == Index(x, y)
           size == width * height
           t == TextOn(At(m, x, y))
<1>1. Position(At(m, x, y)) = n /\ At(m, x, y).vidmem = m
  BY DEF Position, At
<1>2. t = [i \in 1 .. n |-> m[i - 1]]
  BY <1>1 DEF TextOn
<1>3. n \in Cell /\ size \in Int /\ Cell = 0 .. size - 1
  BY IndexInCell, ScreenAssumption DEF Cell
<1>4. At(m, x, y) \in Screen
  BY DEF At, Screen
<1> HIDE DEF n, size, t
<1>5. n \in Nat /\ \A i \in 1 .. n : i - 1 \in Cell
  BY <1>3
<1>6. \A i \in 1 .. n : m[i - 1] \in Glyph
  BY <1>5
<1>7. t \in Seq(Glyph) /\ Len(t) = n /\ \A i \in 1 .. n : t[i] = m[i - 1]
  BY <1>2, <1>5, <1>6
<1> QED
  BY <1>4, <1>7 DEF Begins, n, t

LEMMA BeginsEqual ==
  ASSUME NEW m, NEW t, NEW u, Begins(t, m), Begins(u, m), Len(t) = Len(u)
  PROVE  t = u
BY SeqEqual DEF Begins

(* A text that ends on the screen stays as it is. *)
LEMMA TextFits ==
  ASSUME NEW m \in [Cell -> Glyph], NEW x \in 0 .. width - 1, NEW y \in 0 .. height - 1,
         NEW t, Begins(t, m), Len(t) = Index(x, y)
  PROVE  TextOn(At(m, x, y)) = t /\ Editor!Fit(t) = t
<1>1. TextOn(At(m, x, y)) = t
  BY TextFacts, BeginsEqual
<1>2. Index(x, y) \in Cell /\ width * height \in Int
  BY IndexInCell, ScreenAssumption
<1>3. ~(Len(t) >= width * height)
  BY <1>2 DEF Cell
<1> QED
  BY <1>1, <1>3 DEF Editor!Fit

(* One that fills the screen moves up by a row. *)
LEMMA TextScrolls ==
  ASSUME NEW m \in [Cell -> Glyph], NEW t, Begins(t, m), Len(t) = width * height
  PROVE  TextOn(At(ScrollUp(m), 0, height - 1)) = Editor!Fit(t)
<1> DEFINE size == width * height
           n == Index(0, height - 1)
           u == SubSeq(t, width + 1, size)
           up == ScrollUp(m)
<1>1. width \in Nat \ {0} /\ height \in Nat \ {0} /\ 0 \in 0 .. width - 1 /\ height - 1 \in 0 .. height - 1
  BY ScreenAssumption
<1>2. size \in Nat /\ Cell = 0 .. size - 1
  BY <1>1 DEF Cell
<1>3. n \in Nat /\ n + width = size
  <2>1. n = (height - 1) * width
    BY <1>1 DEF Index
  <2>2. (height - 1) * width = size - width /\ (height - 1) * width \in Nat
    BY <1>1
  <2> QED
    BY <1>1, <1>2, <2>1, <2>2
<1>4. Editor!Fit(t) = u
  <2>1. Len(t) >= size
    BY <1>2
  <2> QED
    BY <2>1 DEF Editor!Fit
<1>5. up \in [Cell -> Glyph] /\ \A i \in Cell : up[i] = IF i + width \in Cell THEN m[i + width] ELSE Blank
  BY ScrollUpType DEF ScrollUp
<1>6. Begins(TextOn(At(up, 0, height - 1)), up) /\ Len(TextOn(At(up, 0, height - 1))) = n
  BY <1>1, <1>5, TextFacts
<1> HIDE DEF size, n, u, up
<1>7. Len(t) = size /\ t \in Seq(Glyph) /\ \A i \in 1 .. size : t[i] = m[i - 1] /\ t[i] \in Glyph
  BY DEF Begins, size
<1>8. width + 1 \in Int /\ size \in Int /\ \A i \in width + 1 .. size : t[i] \in Glyph
  BY <1>1, <1>2, <1>7
<1>9. /\ u \in Seq(Glyph)
      /\ Len(u) = IF width + 1 <= size THEN size - (width + 1) + 1 ELSE 0
      /\ \A i \in 1 .. size - (width + 1) + 1 : u[i] = t[width + 1 + i - 1]
  <2> DEFINE k == width + 1
  <2>1. k \in Int /\ size \in Int /\ \A i \in k .. size : t[i] \in Glyph
    BY <1>8
  <2> HIDE DEF k
  <2>2. /\ SubSeq(t, k, size) \in Seq(Glyph)
        /\ Len(SubSeq(t, k, size)) = IF k <= size THEN size - k + 1 ELSE 0
        /\ \A i \in 1 .. size - k + 1 : SubSeq(t, k, size)[i] = t[k + i - 1]
    BY <2>1, SubSeqProperties
  <2> QED
    BY <2>2 DEF u, k
<1>10. Len(u) = n
  BY <1>1, <1>2, <1>3, <1>9
<1>11. ASSUME NEW i \in 1 .. n
       PROVE  u[i] = up[i - 1]
  <2>1. u[i] = t[i + width] /\ i + width \in 1 .. size
    <3>1. i \in 1 .. size - (width + 1) + 1 /\ width + 1 + i - 1 = i + width
      BY <1>1, <1>2, <1>3
    <3> QED
      BY <1>1, <1>3, <1>9, <3>1
  <2>2. t[i + width] = m[(i + width) - 1]
    BY <1>7, <2>1
  <2>3. i - 1 \in Cell /\ (i - 1) + width \in Cell /\ (i - 1) + width = (i + width) - 1
    BY <1>1, <1>2, <1>3
  <2> QED
    BY <1>5, <2>1, <2>2, <2>3
<1>12. Begins(u, up)
  BY <1>9, <1>10, <1>11 DEF Begins
<1> QED
  BY <1>4, <1>6, <1>10, <1>12, BeginsEqual DEF up

(* A glyph is appended. *)
LEMMA GlyphText ==
  ASSUME NEW s \in Screen, NEW c \in Glyph
  PROVE  TextOn(send(s, c)) = Editor!Fit(Append(TextOn(s), c))
<1>1. width \in Nat \ {0} /\ height \in Nat \ {0}
  BY ScreenAssumption
<1>2. PICK m \in [Cell -> Glyph], x \in 0 .. width - 1, y \in 0 .. height - 1 : s = At(m, x, y)
  BY ScreenFields DEF At
<1> DEFINE t == TextOn(s)
           u == Append(t, c)
           w == Written(m, x, y, c)
           I == Index(x, y)
           size == width * height
<1>3. Begins(t, m) /\ Len(t) = I
  BY <1>2, TextFacts
<1>4. I \in Cell /\ (I = size - 1 <=> x = width - 1 /\ y = height - 1)
  BY IndexInCell
<1>5. size \in Nat /\ Cell = 0 .. size - 1
  BY <1>1 DEF Cell
<1>6. w \in [Cell -> Glyph] /\ \A i \in Cell : w[i] = IF i = I THEN c ELSE m[i]
  BY <1>4 DEF Written
<1>7. /\ x < width - 1 => Index(x + 1, y) = I + 1 /\ x + 1 \in 0 .. width - 1
      /\ x = width - 1 /\ y < height - 1 =>
           Index(0, y + 1) = I + 1 /\ y + 1 \in 0 .. height - 1 /\ 0 \in 0 .. width - 1
  <2>1. (y + 1) * width = y * width + width
    BY <1>1
  <2>2. y * width \in Int
    BY <1>1
  <2> QED
    BY <1>1, <2>1, <2>2 DEF Index
<1>8. /\ x < width - 1 => send(s, c) = At(w, x + 1, y)
      /\ x = width - 1 /\ y < height - 1 => send(s, c) = At(w, 0, y + 1)
      /\ x = width - 1 /\ y = height - 1 => send(s, c) = At(ScrollUp(w), 0, height - 1)
  BY <1>2, SendGlyph
<1>9. Begins(u, w) /\ Len(u) = I + 1
  <2> HIDE DEF t, w, I, size
  <2>1. t \in Seq(Glyph) /\ Len(t) = I /\ \A i \in 1 .. I : t[i] = m[i - 1]
    BY <1>3 DEF Begins
  <2>2. /\ u \in Seq(Glyph) /\ Len(u) = I + 1 /\ u[I + 1] = c
        /\ \A i \in 1 .. I : u[i] = t[i]
    BY <2>1, AppendProperties
  <2>3. I \in Nat /\ \A i \in 1 .. I : i - 1 \in Cell /\ i - 1 # I
    BY <1>4, <1>5
  <2>4. \A i \in 1 .. I + 1 : u[i] = w[i - 1]
    <3> HIDE DEF u
    <3>1. \A i \in 1 .. I : u[i] = w[i - 1]
      BY <1>6, <2>1, <2>2, <2>3
    <3>2. u[I + 1] = w[(I + 1) - 1]
      BY <1>4, <1>6, <2>2, <2>3
    <3>3. \A i \in 1 .. I + 1 : i \in 1 .. I \/ i = I + 1
      BY <2>3
    <3> QED
      BY <3>1, <3>2, <3>3
  <2> QED
    BY <2>2, <2>4 DEF Begins
<1> HIDE DEF w, u
<1>10. CASE x < width - 1
  BY <1>6, <1>7, <1>8, <1>9, <1>10, TextFits DEF u, t
<1>11. CASE x = width - 1 /\ y < height - 1
  BY <1>6, <1>7, <1>8, <1>9, <1>11, TextFits DEF u, t
<1>12. CASE x = width - 1 /\ y = height - 1
  <2>1. Len(u) = size
    BY <1>4, <1>5, <1>9, <1>12
  <2> QED
    BY <1>6, <1>8, <1>9, <1>12, <2>1, TextScrolls DEF u, t
<1> QED
  BY <1>1, <1>10, <1>11, <1>12

(* A backspace takes the last one away. *)
LEMMA BackText ==
  ASSUME NEW s \in Screen
  PROVE  /\ TextOn(StepBack(s)) = IF TextOn(s) = << >> THEN TextOn(s) ELSE Editor!Front(TextOn(s))
         /\ Len(TextOn(StepBack(s))) < width * height - 1 \/ width * height = 1
         /\ StepBack(s) \in Screen
         /\ send(s, BS) = StepBack(s)
<1>1. width \in Nat \ {0} /\ height \in Nat \ {0}
  BY ScreenAssumption
<1>2. PICK m \in [Cell -> Glyph], x \in 0 .. width - 1, y \in 0 .. height - 1 : s = At(m, x, y)
  BY ScreenFields DEF At
<1> DEFINE t == TextOn(s)
           u == SubSeq(t, 1, Len(t) - 1)
           I == Index(x, y)
           size == width * height
<1>3. Begins(t, m) /\ Len(t) = I /\ s \in Screen
  BY <1>2, TextFacts
<1>4. I \in Nat /\ I <= size - 1 /\ size \in Nat
  <2>1. I \in 0 .. size - 1
    BY IndexInCell DEF Cell
  <2>2. size \in Nat
    BY <1>1
  <2> HIDE DEF I, size
  <2> QED
    BY <2>1, <2>2
<1>5. /\ x > 0 => Index(x - 1, y) = I - 1 /\ x - 1 \in 0 .. width - 1
      /\ x = 0 /\ y > 0 =>
           Index(width - 1, y - 1) = I - 1 /\ y - 1 \in 0 .. height - 1 /\ width - 1 \in 0 .. width - 1
      /\ x = 0 /\ y = 0 => I = 0
  <2>1. (y - 1) * width = y * width - width /\ 0 * width = 0
    BY <1>1
  <2>2. y * width \in Int
    BY <1>1
  <2> QED
    BY <1>1, <2>1, <2>2 DEF Index
<1>6. /\ x > 0 => StepBack(s) = At(m, x - 1, y)
      /\ x = 0 /\ y > 0 => StepBack(s) = At(m, width - 1, y - 1)
      /\ x = 0 /\ y = 0 => StepBack(s) = s
  <2>1. x > 0 => StepBack(s) = At(m, x - 1, y)
    BY <1>2 DEF StepBack, At
  <2>2. x = 0 /\ y > 0 => StepBack(s) = At(m, width - 1, y - 1)
    BY <1>2, StepUp DEF At
  <2>3. x = 0 /\ y = 0 => StepBack(s) = s
    BY <1>2 DEF StepBack, At
  <2> QED
    BY <2>1, <2>2, <2>3
<1> HIDE DEF t, I, size
<1>7. CASE x = 0 /\ y = 0
  <2>1. t = << >> /\ StepBack(s) = s
    BY <1>3, <1>5, <1>6, <1>7 DEF Begins
  <2>2. Len(t) < size - 1 \/ size = 1
    <3>1. size # 0
      BY <1>4
    <3> QED
      BY <1>3, <1>4, <1>5, <1>7, <3>1
  <2>3. send(s, BS) = s
    <3>1. Draw(s, BS) = s /\ s.posx = 0 /\ s.posy = 0
      BY <1>2, <1>7, <2>1, DrawCases DEF At
    <3> QED
      BY <1>1, <3>1 DEF send, Wrap, Scroll
  <2> QED
    BY <1>3, <2>1, <2>2, <2>3 DEF t, size
<1>8. CASE x > 0 \/ y > 0
  <2>1. I > 0
    BY <1>1, <1>4, <1>5, <1>8, IndexInCell DEF Cell
  <2>2. t # << >> /\ t \in Seq(Glyph) /\ \A i \in 1 .. I - 1 : t[i] \in Glyph /\ t[i] = m[i - 1]
    BY <1>3, <1>4, <2>1 DEF Begins
  <2>3. Begins(u, m) /\ Len(u) = I - 1
    <3> DEFINE k == I - 1
    <3>1. k \in Nat /\ k = Len(t) - 1 /\ \A i \in 1 .. k : t[i] \in Glyph /\ t[i] = m[i - 1]
      BY <1>3, <1>4, <2>1, <2>2
    <3> HIDE DEF k
    <3>2. /\ SubSeq(t, 1, k) \in Seq(Glyph) /\ Len(SubSeq(t, 1, k)) = k
          /\ \A i \in 1 .. k : SubSeq(t, 1, k)[i] = t[i]
      BY <3>1
    <3> QED
      BY <3>1, <3>2 DEF Begins, k
  <2>4. PICK v \in 0 .. width - 1, z \in 0 .. height - 1 :
          StepBack(s) = At(m, v, z) /\ Index(v, z) = I - 1
    BY <1>5, <1>6, <1>8
  <2> HIDE DEF u
  <2>5. TextOn(StepBack(s)) = u
    BY <2>3, <2>4, TextFits
  <2>6. Len(u) < size - 1
    BY <1>4, <2>1, <2>3
  <2>7. StepBack(s) \in Screen
    BY <2>4, TextFacts
  <2>8. send(s, BS) = StepBack(s)
    <3>1. Draw(s, BS) = StepBack(s) /\ StepBack(s).posx = v /\ StepBack(s).posy = z
      BY <2>4, DrawCases DEF At
    <3> QED
      BY <1>1, <3>1 DEF send, Wrap, Scroll
  <2> QED
    BY <2>2, <2>5, <2>6, <2>7, <2>8 DEF Editor!Front, t, u, size
<1> QED
  BY <1>1, <1>7, <1>8

(* A blank and a step back leave the text as it was. *)
LEMMA ErasedText ==
  ASSUME NEW s \in Screen, Len(TextOn(s)) < width * height - 1 \/ width * height = 1
  PROVE  TextOn(StepBack(send(s, Blank))) = TextOn(s)
<1> DEFINE t == TextOn(s)
           u == Append(t, Blank)
           size == width * height
<1>1. Blank \in Glyph /\ Blank \in Glyph \cup Control /\ Blank \notin Control
  BY ScreenAssumption
<1>2. send(s, Blank) \in Screen
  <2>1. ~DividesByZero(Blank)
    BY <1>1 DEF DividesByZero, Control
  <2> QED
    BY <1>1, <2>1, SendScreen
<1>3. PICK m \in [Cell -> Glyph], x \in 0 .. width - 1, y \in 0 .. height - 1 : s = At(m, x, y)
  BY ScreenFields DEF At
<1>4. t \in Seq(Glyph) /\ Len(t) \in Nat /\ size \in Nat
  <2>1. Begins(t, m)
    BY <1>3, TextFacts
  <2>2. size \in Nat
    BY ScreenAssumption
  <2> QED
    BY <2>1, <2>2 DEF Begins
<1>5. CASE Len(t) < size - 1
  <2>1. u \in Seq(Glyph) /\ Len(u) = Len(t) + 1 /\ u # << >>
    BY <1>1, <1>4
  <2>2. Editor!Fit(u) = u
    <3>1. ~(Len(u) >= size)
      <4> HIDE DEF t, u, size
      <4> QED
        BY <1>4, <1>5, <2>1
    <3> QED
      BY <3>1 DEF Editor!Fit
  <2>3. TextOn(send(s, Blank)) = u
    BY <1>1, <2>2, GlyphText
  <2>4. TextOn(StepBack(send(s, Blank))) = Editor!Front(u)
    BY <1>2, <2>1, <2>3, BackText
  <2>5. Editor!Front(u) = t
    <3>1. Len(u) - 1 = Len(t)
      BY <1>4, <2>1
    <3>2. SubSeq(Append(t, Blank), 1, Len(t)) = t
      <4> HIDE DEF t
      <4>1. SubSeq(Append(t, Blank), 1, Len(t)) \in Seq(Glyph)
        BY <1>1, <1>4
      <4>2. Len(SubSeq(Append(t, Blank), 1, Len(t))) = Len(t)
        BY <1>1, <1>4
      <4>3. \A i \in 1 .. Len(t) : SubSeq(Append(t, Blank), 1, Len(t))[i] = t[i]
        BY <1>1, <1>4
      <4> QED
        BY <1>4, <4>1, <4>2, <4>3, SeqEqual
    <3> QED
      BY <3>1, <3>2 DEF Editor!Front
  <2> QED
    BY <2>4, <2>5
<1>6. CASE size = 1
  <2>1. \A r \in Screen : TextOn(r) = << >>
    <3> SUFFICES ASSUME NEW r \in Screen
                 PROVE  TextOn(r) = << >>
      OBVIOUS
    <3>1. PICK n \in [Cell -> Glyph], v \in 0 .. width - 1, z \in 0 .. height - 1 : r = At(n, v, z)
      BY ScreenFields DEF At
    <3>2. Begins(TextOn(r), n) /\ Len(TextOn(r)) = Index(v, z) /\ Index(v, z) \in Cell
      BY <3>1, TextFacts, IndexInCell
    <3>3. Len(TextOn(r)) = 0
      BY <1>6, <3>2 DEF Cell
    <3> QED
      BY <3>2, <3>3 DEF Begins
  <2> QED
    BY <1>2, <2>1, BackText
<1> QED
  BY <1>5, <1>6

(* A new line fills the row with blanks. *)
LEMMA NewLineText ==
  ASSUME NEW s \in Screen
  PROVE  TextOn(send(s, NL))
           = Editor!Fit(TextOn(s) \o Editor!Blanks(width - (Len(TextOn(s)) % width)))
<1>1. width \in Nat \ {0} /\ height \in Nat \ {0} /\ Blank \in Glyph
  BY ScreenAssumption
<1>2. PICK m \in [Cell -> Glyph], x \in 0 .. width - 1, y \in 0 .. height - 1 : s = At(m, x, y)
  BY ScreenFields DEF At
<1> DEFINE t == TextOn(s)
           n == width - x
           u == t \o Editor!Blanks(n)
           b == RowBlanked(m, x, y)
           I == Index(x, y)
           size == width * height
<1>3. Begins(t, m) /\ Len(t) = I
  BY <1>2, TextFacts
<1>4. I % width = x
  <2>1. x \in Int /\ y \in Int /\ 0 <= x /\ x < width
    BY <1>1
  <2> QED
    BY <1>1, <2>1 DEF Index
<1>5. size \in Nat /\ I \in 0 .. size - 1 /\ Cell = 0 .. size - 1 /\ n \in 1 .. width
  <2>1. size \in Nat
    BY <1>1
  <2> QED
    BY <1>1, <2>1, IndexInCell DEF Cell
<1>6. /\ Index(width - 1, y) = I + n - 1
      /\ y < height - 1 => Index(0, y + 1) = I + n /\ y + 1 \in 0 .. height - 1 /\ 0 \in 0 .. width - 1
      /\ y = height - 1 => I + n = size
      /\ I + n <= size
  <2>1. (y + 1) * width = y * width + width /\ y * width \in Int
    BY <1>1
  <2>2. y = height - 1 => (y + 1) * width = size
    BY <1>1
  <2>3. Index(width - 1, y) \in 0 .. size - 1 /\ size \in Int
    <3>1. width - 1 \in 0 .. width - 1
      BY <1>1
    <3> QED
      BY <1>5, <3>1, IndexInCell
  <2>4. I = y * width + x /\ Index(width - 1, y) = y * width + (width - 1)
        /\ Index(0, y + 1) = (y + 1) * width
    BY <1>1, <2>1 DEF Index
  <2> DEFINE f == y * width
             g == (y + 1) * width
             J == Index(width - 1, y)
  <2> HIDE DEF f, g, J, I, size
  <2>5. J = I + n - 1 /\ g = I + n
    BY <1>1, <2>1, <2>4 DEF f, g, J
  <2> QED
    BY <1>1, <1>5, <2>2, <2>3, <2>4, <2>5 DEF g, J
<1>7. b \in [Cell -> Glyph] /\ \A i \in Cell : b[i] = IF i \in I .. I + n - 1 THEN Blank ELSE m[i]
  BY <1>1, <1>6 DEF RowBlanked
<1>8. Begins(u, b) /\ Len(u) = I + n
  <2> DEFINE k == Editor!Blanks(n)
  <2> HIDE DEF b, I, size, t
  <2>1. n \in Nat
    BY <1>1
  <2> HIDE DEF n
  <2>2. k \in Seq(Glyph) /\ Len(k) = n /\ \A i \in 1 .. n : k[i] = Blank
    BY <1>1, <2>1 DEF Editor!Blanks
  <2> HIDE DEF k
  <2>3. t \in Seq(Glyph) /\ Len(t) = I /\ \A i \in 1 .. I : t[i] = m[i - 1]
    BY <1>3 DEF Begins
  <2>4. /\ t \o k \in Seq(Glyph) /\ Len(t \o k) = I + n
        /\ \A i \in 1 .. I + n : (t \o k)[i] = IF i <= I THEN t[i] ELSE k[i - I]
    <3>1. /\ t \o k \in Seq(Glyph)
          /\ Len(t \o k) = Len(t) + Len(k)
          /\ \A i \in 1 .. Len(t) + Len(k) :
               (t \o k)[i] = IF i <= Len(t) THEN t[i] ELSE k[i - Len(t)]
      <4>1. \A f, g \in Seq(Glyph) :
              /\ f \o g \in Seq(Glyph)
              /\ Len(f \o g) = Len(f) + Len(g)
              /\ \A i \in 1 .. Len(f) + Len(g) :
                   (f \o g)[i] = IF i <= Len(f) THEN f[i] ELSE g[i - Len(f)]
        BY ConcatProperties
      <4> QED
        BY <2>2, <2>3, <4>1, Zenon
    <3> QED
      BY <2>2, <2>3, <3>1, Zenon
  <2>5. ASSUME NEW i \in 1 .. I + n
        PROVE  (t \o k)[i] = b[i - 1]
    <3>1. i - 1 \in Cell /\ I \in Nat
      BY <1>5, <1>6, <2>1
    <3>2. CASE i <= I
      <4>1. (t \o k)[i] = t[i] /\ t[i] = m[i - 1]
        BY <2>1, <2>3, <2>4, <3>1, <3>2
      <4>2. i - 1 \notin I .. I + n - 1
        BY <2>1, <3>1, <3>2
      <4> QED
        BY <1>7, <3>1, <4>1, <4>2
    <3>3. CASE ~(i <= I)
      <4>1. i - I \in 1 .. n /\ i - 1 \in I .. I + n - 1
        BY <2>1, <3>1, <3>3
      <4> QED
        BY <1>7, <2>2, <2>4, <3>1, <3>3, <4>1
    <3> QED
      BY <3>2, <3>3
  <2> QED
    BY <2>4, <2>5 DEF Begins, k
<1>9. u = t \o Editor!Blanks(width - (Len(t) % width))
  BY <1>3, <1>4
<1> HIDE DEF u
<1>10. CASE y < height - 1
  <2>1. send(s, NL) = At(b, 0, y + 1)
    BY <1>2, <1>10, SendNewLine
  <2> HIDE DEF b
  <2>2. TextOn(At(b, 0, y + 1)) = u /\ Editor!Fit(u) = u
    BY <1>6, <1>7, <1>8, <1>10, TextFits
  <2> QED
    BY <1>9, <2>1, <2>2
<1>11. CASE y = height - 1
  <2>1. send(s, NL) = At(ScrollUp(b), 0, height - 1)
    BY <1>2, <1>11, SendNewLine
  <2> HIDE DEF b
  <2>2. TextOn(At(ScrollUp(b), 0, height - 1)) = Editor!Fit(u)
    BY <1>6, <1>7, <1>8, <1>11, TextScrolls
  <2> QED
    BY <1>9, <2>1, <2>2
<1> QED
  BY <1>1, <1>10, <1>11

LEMMA EditText ==
  ASSUME NEW s \in Screen, NEW c \in Char
  PROVE  Editor!Edit(TextOn(s), c) = IF c = NUL THEN TextOn(s) ELSE TextOn(send(s, c))
<1>1. NUL \in Glyph /\ Glyph \cap Control = {} /\ c \in Glyph \cup {BS, NL}
  BY ScreenAssumption, KernelAssumption
<1>2. BS \notin Glyph /\ NL \notin Glyph
  BY <1>1 DEF Control
<1>3. CASE c = NUL
  BY <1>1, <1>2, <1>3 DEF Editor!Edit, BS, NL
<1>4. CASE c = BS
  <2>1. Editor!Edit(TextOn(s), c) = IF TextOn(s) = << >> THEN TextOn(s) ELSE Editor!Front(TextOn(s))
    BY <1>1, <1>2, <1>4 DEF Editor!Edit, BS
  <2>2. c # NUL
    BY <1>1, <1>2, <1>4
  <2> QED
    BY <1>4, <2>1, <2>2, BackText
<1>5. CASE c = NL
  <2>1. Editor!Edit(TextOn(s), c)
          = Editor!Fit(TextOn(s) \o Editor!Blanks(width - (Len(TextOn(s)) % width)))
    BY <1>1, <1>2, <1>5 DEF Editor!Edit, NL
  <2>2. c # NUL
    BY <1>1, <1>2, <1>5
  <2> QED
    BY <1>5, <2>1, <2>2, NewLineText
<1>6. CASE c \notin {NUL, BS, NL}
  <2>1. Editor!Edit(TextOn(s), c) = Editor!Fit(Append(TextOn(s), c))
    BY <1>6 DEF Editor!Edit, BS, NL
  <2> QED
    BY <1>1, <1>6, <2>1, GlyphText
<1> QED
  BY <1>3, <1>4, <1>5, <1>6

-----------------------------------------------------------------------------
(* The loop edits the text.  What of the echo is still to be written: *)
Writing ==
  \/ echo = EchoOf(ch)
  \/ ch = BS /\ echo = <<Blank, BS>>
       /\ (Len(TextOn(screen)) < width * height - 1 \/ width * height = 1)
  \/ ch = BS /\ echo = <<BS>>
  \/ echo = << >>

Typing ==
  /\ screen \in Screen
  /\ fifo \in Seq(Char)
  /\ got \in Seq(Char)
  /\ pc = "printk" => ret # "write"
  /\ Place \notin Shown => TextOn(screen) = << >>
  /\ pc # "write" => echo = << >>
  /\ pc = "write" => got # << >> /\ ch # NUL /\ Writing

(* The variables of EchoedText. *)
Waiting == (IF got # << >> /\ ~Appeared THEN <<ch>> ELSE << >>) \o fifo

OnScreen == TextOn(IF echo = <<BS>> THEN StepBack(screen) ELSE screen)

LEMMA EchoesDiffer ==
  ASSUME NEW c \in Char
  PROVE  /\ EchoOf(c) # << >> /\ EchoOf(c) # <<BS>>
         /\ <<Blank, BS>> # EchoOf(c) /\ <<Blank, BS>> # <<BS>> /\ << >> # <<BS>>
<1>1. Len(<<BS, Blank, BS>>) = 3 /\ Len(<<Blank, BS>>) = 2 /\ Len(<<BS>>) = 1
      /\ Len(<<c>>) = 1 /\ <<c>>[1] = c /\ <<BS>>[1] = BS /\ Len(<< >>) = 0
  OBVIOUS
<1>2. EchoOf(c) = <<BS, Blank, BS>> \/ (EchoOf(c) = <<c>> /\ c # BS)
  BY DEF EchoOf
<1> QED
  BY <1>1, <1>2

LEMMA WaitingKeys ==
  ASSUME Typing
  PROVE  /\ got = << >> => Waiting = fifo
         /\ got # << >> => ch \in Char
         /\ got # << >> /\ pc # "write" => Waiting = <<ch>> \o fifo
         /\ pc = "write" /\ echo = EchoOf(ch) => Waiting = <<ch>> \o fifo
         /\ pc = "write" /\ echo # EchoOf(ch) => Waiting = fifo
<1>1. fifo \in Seq(Char) /\ << >> \o fifo = fifo
  BY ConcatEmptySeq DEF Typing
<1>2. got # << >> => ch \in Char
  BY HeadTailProperties DEF Typing, ch
<1> QED
  BY <1>1, <1>2 DEF Waiting, Appeared, Typing

LEMMA FirstWaits ==
  ASSUME NEW c \in Char, NEW f \in Seq(Char)
  PROVE  /\ <<c>> \o f # << >> /\ Head(<<c>> \o f) = c /\ Tail(<<c>> \o f) = f
         /\ <<c>> \o f \in Seq(Char) /\ Len(<<c>> \o f) = 1 + Len(f)
<1>1. <<c>> \in Seq(Char) /\ Len(<<c>>) = 1 /\ <<c>>[1] = c
  OBVIOUS
<1>2. /\ <<c>> \o f \in Seq(Char) /\ Len(<<c>> \o f) = 1 + Len(f)
      /\ \A i \in 1 .. 1 + Len(f) : (<<c>> \o f)[i] = IF i <= 1 THEN <<c>>[i] ELSE f[i - 1]
  BY <1>1, ConcatProperties
<1> DEFINE g == <<c>> \o f
<1>3. Len(f) \in Nat
  OBVIOUS
<1> HIDE DEF g
<1>4. g \in Seq(Char) /\ Len(g) = 1 + Len(f) /\ g[1] = c /\ \A i \in 1 .. Len(f) : g[i + 1] = f[i]
  BY <1>1, <1>2, <1>3 DEF g
<1>5. g # << >> /\ Head(g) = c
  BY <1>3, <1>4
<1>6. /\ Tail(g) \in Seq(Char) /\ Len(Tail(g)) = Len(f)
      /\ \A i \in 1 .. Len(Tail(g)) : Tail(g)[i] = g[i + 1]
  BY <1>3, <1>4, <1>5, HeadTailProperties
<1>7. Tail(g) = f
  BY <1>4, <1>6, SeqEqual
<1> QED
  BY <1>4, <1>5, <1>7 DEF g

LEMMA TypingInit == Init => Typing /\ Editor!Init
<1> SUFFICES ASSUME Init PROVE Typing /\ Editor!Init
  OBVIOUS
<1>1. /\ Place = "int3" /\ Place \notin Shown /\ pc = "int3" /\ fifo = << >> /\ got = << >> /\ echo = << >>
      /\ screen = [vidmem |-> [i \in Cell |-> Noise], posx |-> 0, posy |-> 0]
  BY DEF Init, Place, Shown, Printing
<1>2. width \in Nat \ {0} /\ height \in Nat \ {0} /\ Noise \in Glyph
  BY ScreenAssumption, KernelAssumption
<1>3. screen \in Screen
  BY <1>1, <1>2 DEF Screen
<1>4. TextOn(screen) = << >>
  <2>1. Position(screen) = 0
    BY <1>1, <1>2 DEF Position, Index
  <2> QED
    BY <2>1 DEF TextOn
<1>5. Typing
  BY <1>1, <1>3, <1>4 DEF Typing
<1>6. Waiting = << >>
  BY <1>1, <1>5, WaitingKeys
<1>7. OnScreen = << >>
  BY <1>1, <1>4 DEF OnScreen
<1> QED
  BY <1>5, <1>6, <1>7 DEF Editor!Init, Waiting, OnScreen

(* A step that leaves keys, echo and screen alone. *)
LEMMA Rests ==
  ASSUME Typing, UNCHANGED <<fifo, got, echo>>, screen' \in Screen,
         TextOn(screen)' = TextOn(screen),
         \/ /\ pc # "write" /\ pc' # "write" /\ (Place \in Shown => Place' \in Shown)
            /\ pc' = "printk" => ret' # "write"
         \/ pc' = pc /\ ret' = ret /\ screen' = screen
  PROVE  Typing' /\ Waiting' = Waiting /\ OnScreen' = OnScreen
<1>1. ch' = ch
  BY DEF ch
<1>2. CASE pc # "write" /\ pc' # "write" /\ (Place \in Shown => Place' \in Shown)
           /\ (pc' = "printk" => ret' # "write")
  <2>1. Typing'
    BY <1>2 DEF Typing
  <2>2. Waiting' = Waiting
    BY <1>1, <1>2 DEF Waiting, Appeared
  <2>3. OnScreen' = OnScreen
    <3>1. echo = << >> /\ << >> # <<BS>>
      BY <1>2 DEF Typing
    <3> QED
      BY <3>1 DEF OnScreen
  <2> QED
    BY <2>1, <2>2, <2>3
<1>3. CASE pc' = pc /\ ret' = ret /\ screen' = screen
  <2>1. Place' = Place
    BY <1>3 DEF Place
  <2>2. EchoOf(ch)' = EchoOf(ch)
    BY <1>1 DEF EchoOf
  <2>3. Writing' <=> Writing
    BY <1>1, <1>3, <2>2 DEF Writing
  <2>4. Typing'
    BY <1>1, <1>3, <2>1, <2>3 DEF Typing
  <2>5. Waiting' = Waiting
    BY <1>1, <1>3, <2>2 DEF Waiting, Appeared
  <2>6. OnScreen' = OnScreen
    <3>1. echo' = echo /\ screen' = screen
      BY <1>3
    <3> QED
      BY <3>1 DEF OnScreen, TextOn, Position, Index, StepBack
  <2> QED
    BY <2>4, <2>5, <2>6
<1> QED
  BY <1>2, <1>3

(* What the boot, vprintk and the mouse leave of it. *)
LEMMA BootTyping ==
  ASSUME Typing, Booting \/ PrintPiece \/ PrintEnd \/ MouseMove
  PROVE  Typing' /\ Waiting' = Waiting /\ OnScreen' = OnScreen
<1> USE DEF Place
<1>1. UNCHANGED <<fifo, got, echo>> /\ screen \in Screen
  BY DEF Booting, Int3, RegisterNull, SetUpPort, TestPort, vgatm_init, Hello, init_atkbd, GiveUp,
         OpenWindow, CloseWindow, Back, Sti, Boot, PrintPiece, PrintEnd, MouseMove, echoVars, Typing
<1>2. "hello" \in Shown /\ \A p \in Printing : p \in Shown
  BY DEF Shown
<1>3. {"init_atkbd", "8042", "window", "back", "sti", "read"} \subseteq Printing
  BY DEF Printing
<1>4. ASSUME screen' = screen
      PROVE  screen' \in Screen /\ TextOn(screen)' = TextOn(screen)
  BY <1>1, <1>4, Zenon DEF TextOn, Position, Index
<1>5. CASE Int3 \/ RegisterNull \/ SetUpPort \/ TestPort
  <2>1. /\ screen' = screen /\ pc # "write" /\ pc' # "write" /\ Place \notin Shown
        /\ pc' = "printk" => ret' # "write"
    BY <1>5 DEF Int3, RegisterNull, SetUpPort, TestPort, Boot, printk, Shown, Printing
  <2> QED
    BY <1>1, <1>4, <2>1, Rests
<1>6. CASE vgatm_init
  <2>1. /\ pc = "vgatm" /\ pc' = "hello" /\ screen' = ClearScreen /\ Place \notin Shown
    BY <1>6 DEF vgatm_init, Boot, Shown, Printing
  <2>2. TextOn(screen) = << >>
    BY <2>1 DEF Typing
  <2>3. width \in Nat \ {0} /\ height \in Nat \ {0} /\ Blank \in Glyph
    BY ScreenAssumption
  <2>4. ClearScreen \in Screen /\ TextOn(ClearScreen) = << >>
    <3>1. Position(ClearScreen) = 0
      BY <2>3 DEF ClearScreen, Position, Index
    <3> QED
      BY <2>3, <3>1 DEF ClearScreen, Screen, TextOn
  <2>5. TextOn(screen)' = << >>
    <3>1. TextOn(screen)' = TextOn(screen')
      BY Zenon DEF TextOn, Position, Index
    <3> QED
      BY <2>1, <2>4, <3>1
  <2> QED
    BY <1>1, <1>2, <2>1, <2>2, <2>4, <2>5, Rests
<1>7. CASE Hello \/ init_atkbd \/ GiveUp \/ OpenWindow \/ CloseWindow \/ Back \/ Sti
  <2>1. /\ screen' = screen /\ pc # "write" /\ pc' # "write" /\ Place' \in Shown
        /\ pc' = "printk" => ret' # "write"
    BY <1>2, <1>3, <1>7 DEF Hello, init_atkbd, GiveUp, OpenWindow, CloseWindow, Back, Sti, Boot, printk
  <2> QED
    BY <1>1, <1>4, <2>1, Rests
<1>8. CASE PrintPiece \/ MouseMove
  <2>1. screen' = screen /\ pc' = pc /\ ret' = ret
    BY <1>8 DEF PrintPiece, MouseMove, echoVars
  <2> QED
    BY <1>1, <1>4, <2>1, Rests
<1>9. CASE PrintEnd
  <2>1. /\ screen' = screen /\ pc = "printk" /\ pc' = ret /\ ret' = ret /\ Place' = Place
        /\ ret # "write"
    BY <1>9 DEF PrintEnd, echoVars, bootVars, printVars, Typing
  <2> QED
    BY <1>1, <1>4, <2>1, Rests
<1> QED
  BY <1>5, <1>6, <1>7, <1>8, <1>9 DEF Booting

(* A key that the queue has room for is typed; another one is discarded.   *)
LEMMA KeyTyping ==
  ASSUME Typing, NEW c \in Char, KeyPress(c)
  PROVE  Typing' /\ OnScreen' = OnScreen
         /\ (Waiting' = Waiting \/ (Len(Waiting) <= Capacity /\ Waiting' = Append(Waiting, c)))
<1>1. /\ UNCHANGED <<pc, ret, got, echo, screen>>
      /\ fifo' = IF Len(fifo) < Capacity THEN Append(fifo, c) ELSE fifo
  BY DEF KeyPress, bootVars, printVars
<1>2. fifo \in Seq(Char) /\ screen \in Screen /\ Capacity \in Nat
  BY QueueAssumption DEF Typing, Capacity
<1>3. ch' = ch /\ Place' = Place /\ Appeared' = Appeared /\ EchoOf(ch)' = EchoOf(ch)
  BY <1>1 DEF ch, Place, Appeared, EchoOf
<1>4. TextOn(screen)' = TextOn(screen) /\ OnScreen' = OnScreen
  <2>1. echo' = echo /\ screen' = screen
    BY <1>1
  <2> QED
    BY <2>1 DEF OnScreen, TextOn, Position, Index, StepBack
<1>5. Typing'
  <2>1. fifo' \in Seq(Char)
    BY <1>1, <1>2, AppendProperties
  <2>2. Writing' <=> Writing
    BY <1>1, <1>3, <1>4 DEF Writing
  <2> QED
    BY <1>1, <1>3, <1>4, <2>1, <2>2 DEF Typing
<1>6. CASE ~(Len(fifo) < Capacity)
  BY <1>1, <1>3, <1>4, <1>5, <1>6 DEF Waiting
<1>7. CASE Len(fifo) < Capacity
  <2> DEFINE k == IF got # << >> /\ ~Appeared THEN <<ch>> ELSE << >>
  <2>1. k \in Seq(Char) /\ Len(k) <= 1 /\ Len(k) \in Nat
    BY WaitingKeys
  <2>2. Waiting = k \o fifo /\ Waiting' = k \o Append(fifo, c)
    <3>1. fifo' = Append(fifo, c) /\ got' = got
      BY <1>1, <1>7
    <3> QED
      BY <1>3, <3>1 DEF Waiting
  <2> HIDE DEF k
  <2>3. Len(k \o fifo) <= Capacity
    <3>1. Len(k \o fifo) = Len(k) + Len(fifo) /\ Len(fifo) \in Nat
      BY <1>2, <2>1, ConcatProperties
    <3> QED
      BY <1>2, <1>7, <2>1, <3>1
  <2>4. k \o Append(fifo, c) = Append(k \o fifo, c)
    <3>1. /\ k \o Append(fifo, c) \in Seq(Char) /\ Append(k \o fifo, c) \in Seq(Char)
          /\ Len(k \o Append(fifo, c)) = Len(k) + Len(fifo) + 1
          /\ Len(Append(k \o fifo, c)) = Len(k) + Len(fifo) + 1
          /\ \A i \in 1 .. Len(k) + Len(fifo) + 1 :
               (k \o Append(fifo, c))[i] = Append(k \o fifo, c)[i]
      BY <1>2, <2>1
    <3> QED
      BY <3>1, SeqEqual
  <2> QED
    BY <1>4, <1>5, <2>2, <2>3, <2>4
<1> QED
  BY <1>6, <1>7

(* The steps of EchoedText on these variables. *)
Echoes ==
  /\ Waiting # << >>
  /\ OnScreen' = Editor!Edit(OnScreen, Head(Waiting))
  /\ Waiting' = Tail(Waiting)

Loses ==
  /\ Len(Waiting) >= 2
  /\ Waiting' = <<Head(Waiting)>> \o Tail(Tail(Waiting))
  /\ OnScreen' = OnScreen

Stays == Waiting' = Waiting /\ OnScreen' = OnScreen

(* tty_read fetches the next key.  Those after the first one get lost. *)
LEMMA ReadTyping ==
  ASSUME Typing, Read
  PROVE  Typing' /\ (Stays \/ Loses)
<1>1. /\ pc = "read" /\ pc' = "read" /\ fifo # << >> /\ got' = Append(got, Head(fifo))
      /\ fifo' = Tail(fifo) /\ echo' = echo /\ screen' = screen
      /\ screen \in Screen /\ fifo \in Seq(Char) /\ got \in Seq(Char) /\ echo = << >>
  BY DEF Read, Looping, Typing
<1>2. Head(fifo) \in Char /\ Tail(fifo) \in Seq(Char) /\ <<Head(fifo)>> \o Tail(fifo) = fifo
  <2>1. Head(fifo) \in Char /\ Tail(fifo) \in Seq(Char) /\ Len(Tail(fifo)) = Len(fifo) - 1
        /\ \A i \in 1 .. Len(Tail(fifo)) : Tail(fifo)[i] = fifo[i + 1]
    BY <1>1, HeadTailProperties
  <2>2. /\ <<Head(fifo)>> \o Tail(fifo) \in Seq(Char)
        /\ Len(<<Head(fifo)>> \o Tail(fifo)) = Len(fifo)
        /\ \A i \in 1 .. Len(fifo) : (<<Head(fifo)>> \o Tail(fifo))[i] = fifo[i]
    BY <1>1, <2>1
  <2> QED
    BY <1>1, <2>1, <2>2, SeqEqual
<1>3. got' \in Seq(Char) /\ got' # << >> /\ (got = << >> => Head(got') = Head(fifo))
      /\ (got # << >> => Head(got') = Head(got))
  BY <1>1, <1>2
<1>4. OnScreen' = OnScreen /\ TextOn(screen)' = TextOn(screen)
  BY <1>1 DEF OnScreen, TextOn, Position, Index, StepBack
<1>5. Typing'
  <2>1. Place = "read" /\ Place' = "read" /\ "read" \in Shown
    BY <1>1 DEF Place, Shown, Printing
  <2> QED
    BY <1>1, <1>2, <1>3, <2>1 DEF Typing
<1>6. Waiting' = <<Head(got')>> \o Tail(fifo)
  BY <1>1, <1>3 DEF Waiting, Appeared, ch
<1>7. CASE got = << >>
  BY <1>1, <1>2, <1>3, <1>4, <1>5, <1>6, <1>7, WaitingKeys DEF Stays
<1>8. CASE got # << >>
  <2>1. Waiting = <<ch>> \o fifo /\ ch \in Char /\ ch = Head(got')
    BY <1>1, <1>3, <1>8, WaitingKeys DEF ch
  <2>2. Head(Waiting) = ch /\ Tail(Waiting) = fifo /\ Len(Waiting) = 1 + Len(fifo)
    <3> HIDE DEF ch
    <3> QED
      BY <1>1, <2>1, FirstWaits
  <2>3. Len(fifo) \in Nat /\ Len(fifo) > 0
    BY <1>1
  <2>4. Len(Waiting) >= 2
    BY <2>2, <2>3
  <2>5. Waiting' = <<Head(Waiting)>> \o Tail(Tail(Waiting))
    BY <1>6, <2>1, <2>2
  <2> QED
    BY <1>4, <1>5, <2>4, <2>5 DEF Loses
<1> QED
  BY <1>7, <1>8

(* It returns; a key without a character has no echo. *)
LEMMA ReadEndTyping ==
  ASSUME Typing, ReadEnd
  PROVE  Typing' /\ (Stays \/ Echoes)
<1>1. /\ pc = "read" /\ fifo = << >> /\ fifo' = fifo /\ got # << >> /\ screen' = screen
      /\ IF ch = NUL THEN got' = << >> /\ UNCHANGED <<pc, echo>>
         ELSE pc' = "write" /\ echo' = EchoOf(ch) /\ got' = got
      /\ screen \in Screen /\ fifo \in Seq(Char) /\ got \in Seq(Char) /\ echo = << >>
  BY DEF ReadEnd, Looping, Typing
<1>2. /\ ch \in Char /\ Waiting = <<ch>> \o fifo /\ Waiting # << >>
      /\ Head(Waiting) = ch /\ Tail(Waiting) = fifo
  <2>1. ch \in Char /\ Waiting = <<ch>> \o fifo
    BY <1>1, WaitingKeys
  <2> HIDE DEF ch
  <2> QED
    BY <1>1, <2>1, FirstWaits
<1>3. TextOn(screen)' = TextOn(screen) /\ OnScreen = TextOn(screen)
  <2>1. << >> # <<BS>>
    OBVIOUS
  <2>2. TextOn(screen)' = TextOn(screen)
    BY <1>1 DEF TextOn, Position, Index
  <2> QED
    BY <1>1, <2>1, <2>2 DEF OnScreen
<1>4. "read" \in Shown /\ "write" \in Shown
  BY DEF Shown, Printing
<1>5. CASE ch = NUL
  <2>1. got' = << >> /\ pc' = "read" /\ echo' = echo
    BY <1>1, <1>5
  <2>2. Typing'
    BY <1>1, <1>4, <2>1 DEF Typing, Place
  <2>3. Waiting' = fifo
    <3>1. << >> \o fifo = fifo
      BY <1>1, ConcatEmptySeq
    <3> QED
      BY <1>1, <2>1, <3>1 DEF Waiting
  <2>4. OnScreen' = OnScreen
    BY <1>1, <2>1 DEF OnScreen, TextOn, Position, Index, StepBack
  <2>5. Editor!Edit(OnScreen, ch) = OnScreen
    BY <1>1, <1>2, <1>3, <1>5, EditText
  <2> QED
    BY <1>2, <2>2, <2>3, <2>4, <2>5 DEF Echoes
<1>6. CASE ch # NUL
  <2>1. got' = got /\ pc' = "write" /\ echo' = EchoOf(ch)
    BY <1>1, <1>6
  <2>2. ch' = ch
    BY <2>1 DEF ch
  <2>3. EchoOf(ch)' = EchoOf(ch)
    BY <2>2 DEF EchoOf
  <2>4. Typing'
    <3>1. Writing'
      BY <2>1, <2>3 DEF Writing
    <3> QED
      BY <1>1, <1>4, <1>6, <2>1, <2>2, <3>1 DEF Typing, Place
  <2>5. Waiting' = Waiting
    BY <1>1, <1>2, <2>1, <2>2, <2>3 DEF Waiting, Appeared
  <2>6. OnScreen' = TextOn(screen)'
    BY <1>2, <2>1, EchoesDiffer DEF OnScreen
  <2> QED
    BY <1>3, <2>4, <2>5, <2>6 DEF Stays
<1> QED
  BY <1>5, <1>6

(* The first character of the echo edits the text; the others of "\b \b"   *)
(* leave it as it is.                                                      *)
LEMMA WriteTyping ==
  ASSUME Typing, Write
  PROVE  Typing' /\ (Stays \/ Echoes)
<1>1. /\ pc = "write" /\ pc' = "write" /\ echo # << >> /\ screen' = send(screen, Head(echo))
      /\ echo' = Tail(echo) /\ fifo' = fifo /\ got' = got /\ screen \in Screen
      /\ fifo \in Seq(Char) /\ got \in Seq(Char) /\ got # << >> /\ ch # NUL /\ Writing
  BY DEF Write, Looping, Typing
<1>2. ch \in Char /\ ch' = ch /\ EchoOf(ch)' = EchoOf(ch)
  BY <1>1, WaitingKeys DEF ch, EchoOf
<1>3. Place' \in Shown
  BY <1>1 DEF Place, Shown, Printing
<1>4. Blank \in Glyph /\ Glyph \cap Control = {} /\ ch \in Glyph \cup {BS, NL}
  BY <1>2, ScreenAssumption, KernelAssumption
<1>5. TextOn(screen)' = TextOn(screen')
  BY DEF TextOn, Position, Index
<1>6. \A c \in Glyph \cup {BS, NL} : send(screen, c) \in Screen
  <2>1. \A c \in Glyph \cup {BS, NL} : c \in Glyph \cup Control /\ ~DividesByZero(c)
    BY <1>4 DEF Control, DividesByZero, BS, NL, TAB
  <2> QED
    BY <1>1, <2>1, SendScreen
<1>7. ASSUME screen' \in Screen, Writing'
      PROVE  Typing'
  BY <1>1, <1>2, <1>3, <1>7 DEF Typing
<1> HIDE DEF ch
<1>8. CASE echo = EchoOf(ch)
  <2>1. Waiting = <<ch>> \o fifo
    BY <1>1, <1>8, WaitingKeys
  <2>2. Waiting # << >> /\ Head(Waiting) = ch /\ Tail(Waiting) = fifo
    BY <1>1, <1>2, <2>1, FirstWaits
  <2>3. Head(echo) = ch /\ (echo' = << >> \/ (ch = BS /\ echo' = <<Blank, BS>>))
    BY <1>1, <1>8 DEF EchoOf
  <2>4. screen' = send(screen, ch) /\ screen' \in Screen
    BY <1>1, <1>4, <1>6, <2>3
  <2>5. OnScreen = TextOn(screen)
    BY <1>2, <1>8, EchoesDiffer DEF OnScreen
  <2>6. echo' # <<BS>> /\ echo' # EchoOf(ch)
    BY <1>2, <2>3, EchoesDiffer
  <2>7. OnScreen' = TextOn(screen')
    BY <1>5, <2>6 DEF OnScreen
  <2>8. Editor!Edit(TextOn(screen), ch) = TextOn(send(screen, ch))
    BY <1>1, <1>2, EditText
  <2>9. Waiting' = fifo
    <3>1. << >> \o fifo = fifo
      BY <1>1, ConcatEmptySeq
    <3> QED
      BY <1>1, <1>2, <2>6, <3>1 DEF Waiting, Appeared
  <2>10. Writing'
    <3>1. CASE echo' = << >>
      BY <3>1 DEF Writing
    <3>2. CASE ch = BS /\ echo' = <<Blank, BS>>
      <4>1. Len(TextOn(screen')) < width * height - 1 \/ width * height = 1
        BY <1>1, <2>4, <3>2, BackText
      <4> QED
        BY <1>2, <1>5, <3>2, <4>1 DEF Writing
    <3> QED
      BY <2>3, <3>1, <3>2
  <2> QED
    BY <1>7, <2>2, <2>4, <2>5, <2>7, <2>8, <2>9, <2>10 DEF Echoes
<1>9. ASSUME echo \in {<<Blank, BS>>, <<BS>>}, ch = BS, echo' \in {<<BS>>, << >>}
      PROVE  Waiting' = Waiting
  <2>1. echo # EchoOf(ch) /\ echo' # EchoOf(ch)
    BY <1>2, <1>9, EchoesDiffer DEF EchoOf
  <2> QED
    BY <1>1, <1>2, <2>1 DEF Waiting, Appeared
<1>10. CASE ch = BS /\ echo = <<Blank, BS>>
            /\ (Len(TextOn(screen)) < width * height - 1 \/ width * height = 1)
  <2>1. Head(echo) = Blank /\ echo' = <<BS>> /\ <<Blank, BS>> # <<BS>>
    BY <1>1, <1>10
  <2>2. screen' = send(screen, Blank) /\ screen' \in Screen
    BY <1>1, <1>4, <1>6, <2>1
  <2>3. OnScreen = TextOn(screen)
    BY <1>10, <2>1 DEF OnScreen
  <2>4. OnScreen' = TextOn(StepBack(screen'))
    BY <2>1 DEF OnScreen, TextOn, Position, Index, StepBack
  <2>5. TextOn(StepBack(send(screen, Blank))) = TextOn(screen)
    BY <1>1, <1>10, ErasedText
  <2>6. Writing'
    BY <1>2, <1>10, <2>1 DEF Writing
  <2>7. Waiting' = Waiting
    BY <1>9, <1>10, <2>1
  <2> QED
    BY <1>7, <2>2, <2>3, <2>4, <2>5, <2>6, <2>7 DEF Stays
<1>11. CASE ch = BS /\ echo = <<BS>>
  <2>1. Head(echo) = BS /\ echo' = << >> /\ << >> # <<BS>>
    BY <1>1, <1>11
  <2>2. screen' = StepBack(screen) /\ screen' \in Screen
    BY <1>1, <2>1, BackText
  <2>3. OnScreen = TextOn(StepBack(screen)) /\ OnScreen' = TextOn(screen')
    BY <1>5, <1>11, <2>1 DEF OnScreen
  <2>4. Writing'
    BY <2>1 DEF Writing
  <2>5. Waiting' = Waiting
    BY <1>9, <1>11, <2>1
  <2> QED
    BY <1>7, <2>2, <2>3, <2>4, <2>5 DEF Stays
<1> QED
  BY <1>1, <1>8, <1>10, <1>11 DEF Writing

(* tty_write returns, and the keys that were read with this one are lost. *)
LEMMA WriteEndTyping ==
  ASSUME Typing, WriteEnd
  PROVE  Typing' /\ Stays
<1>1. /\ pc = "write" /\ pc' = "read" /\ echo = << >> /\ echo' = echo /\ got' = << >> /\ fifo' = fifo
      /\ screen' = screen /\ screen \in Screen /\ fifo \in Seq(Char) /\ got # << >>
  BY DEF WriteEnd, Looping, Typing
<1>2. echo # EchoOf(ch)
  <2>1. ch \in Char
    BY <1>1, WaitingKeys
  <2> QED
    BY <1>1, <2>1, EchoesDiffer
<1>3. Waiting = fifo
  BY <1>1, <1>2, WaitingKeys
<1>4. Waiting' = fifo
  <2>1. << >> \o fifo = fifo
    BY <1>1, ConcatEmptySeq
  <2> QED
    BY <1>1, <2>1 DEF Waiting
<1>5. OnScreen' = OnScreen
  BY <1>1 DEF OnScreen, TextOn, Position, Index, StepBack
<1>6. Typing'
  <2>1. "read" \in Shown /\ got' \in Seq(Char)
    BY <1>1 DEF Shown, Printing
  <2> QED
    BY <1>1, <2>1 DEF Typing, Place
<1> QED
  BY <1>3, <1>4, <1>5, <1>6 DEF Stays

LEMMA NextTyping ==
  ASSUME Typing, [Next]_vars
  PROVE  Typing' /\ [Editor!Next]_(Editor!vars)
<1>1. CASE Booting \/ PrintPiece \/ PrintEnd \/ MouseMove
  BY <1>1, BootTyping DEF Editor!vars, Waiting, OnScreen
<1>2. CASE \E c \in Char : KeyPress(c)
  <2>1. PICK c \in Char : KeyPress(c)
    BY <1>2
  <2>2. Typing' /\ OnScreen' = OnScreen
        /\ (Waiting' = Waiting \/ (Len(Waiting) <= Capacity /\ Waiting' = Append(Waiting, c)))
    BY <2>1, KeyTyping
  <2> QED
    BY <2>2 DEF Editor!vars, Editor!Next, Editor!Type, Waiting, OnScreen
<1>3. CASE Wait \/ UNCHANGED vars
  <2>1. UNCHANGED <<pc, ret, fifo, got, echo, screen>>
    BY <1>3 DEF Wait, Looping, echoVars, bootVars, printVars, vars
  <2>2. screen' \in Screen /\ TextOn(screen)' = TextOn(screen)
    BY <2>1 DEF Typing, TextOn, Position, Index
  <2>3. Typing' /\ Waiting' = Waiting /\ OnScreen' = OnScreen
    BY <2>1, <2>2, Rests
  <2> QED
    BY <2>3 DEF Editor!vars, Waiting, OnScreen
<1>4. CASE Read \/ ReadEnd \/ Write \/ WriteEnd
  <2>1. Typing' /\ (Stays \/ Echoes \/ Loses)
    BY <1>4, ReadTyping, ReadEndTyping, WriteTyping, WriteEndTyping
  <2>2. Stays => UNCHANGED Editor!vars
    BY DEF Stays, Editor!vars, Waiting, OnScreen
  <2>3. Echoes => Editor!Echo
    BY DEF Echoes, Editor!Echo, Waiting, OnScreen
  <2>4. Loses => Editor!Lose
    BY DEF Loses, Editor!Lose, Waiting, OnScreen
  <2> QED
    BY <2>1, <2>2, <2>3, <2>4 DEF Editor!Next
<1> QED
  BY <1>1, <1>2, <1>3, <1>4 DEF Next, Kernel, Loop

(* The screen shows what the keys have typed, edited by the backspace key  *)
(* across lines and scrolls, in order, and a key is lost only when it was  *)
(* pressed before the previous one was echoed: the safety of EchoedText,   *)
(* for every size of the screen and of the queue, and all that is typed.   *)
THEOREM TypingIsShown == Spec => Editor!Init /\ [][Editor!Next]_(Editor!vars)
BY TypingInit, NextTyping, PTL DEF Spec
=============================================================================
