SPECIFICATION FairSpec
CONSTANTS
  Machines <- AllMachines
  Flaky = {"FF", "F2", "EE", "F4"}
  MaxResends = 2
  TypeAt = {"done"}
  MaxTyped = 1
INVARIANTS Identified HandedOver DriverPresent BufferIsServed
PROPERTY InitReturns
CHECK_DEADLOCK FALSE
