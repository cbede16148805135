SPECIFICATION Spec
CONSTANTS
  Machines <- Qemu
  Flaky = {}
  MaxResends = 0
  TypeAt = {"send", "receive", "acknowledge", "ident", "identified", "window"}
  MaxTyped = 1
INVARIANT BufferIsServed
CHECK_DEADLOCK FALSE
