SPECIFICATION Spec
CONSTANTS
  Irqs = {0, 1, 6, 12}
  Faults = {0}
  MaxDepth = 3
INVARIANT TypeOK
INVARIANT HandlerArguments
INVARIANT RunToCompletion
INVARIANT NoneInService
PROPERTY Transparent
PROPERTY HaltIsFinal
\* An interrupt without a handler stops the machine.
CHECK_DEADLOCK FALSE
