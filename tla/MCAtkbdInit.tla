---------------------------- MODULE MCAtkbdInit ----------------------------
(* Instances of AtkbdInit for TLC. *)
EXTENDS AtkbdInit

(* Every controller, with working devices in either port.  The interrupts  *)
(* of a port that turns out to be unusable have not been on at boot, or    *)
(* the one of the 8042's first answer would be left without a driver.      *)
AllMachines ==
  {m \in [chan   : {"single", "dual", "stuck"},
          good   : BOOLEAN,
          resets : BOOLEAN,
          tests  : SUBSET Port,
          dev    : [Port -> {"keyboard", "mouse", "ancient"}],
          bios   : {{1, 6}, {0, 1, 6}}] : 0 \in m.bios => 0 \in m.tests}

(* The machine of the Makefile's run target.                               *)
Qemu ==
  {[chan |-> "dual", good |-> TRUE, resets |-> FALSE, tests |-> Port,
    dev |-> [p \in Port |-> IF p = 0 THEN "keyboard" ELSE "mouse"], bios |-> {0, 1, 6}]}
=============================================================================
