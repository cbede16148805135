SPECIFICATION Spec
CONSTANTS
  Irqs = {}
  Faults = {13}
  MaxDepth = 1
INVARIANT HandlerArguments
CHECK_DEADLOCK FALSE
