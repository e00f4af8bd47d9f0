SPECIFICATION Spec
CONSTANTS
  c1 = c1
  c2 = c2
  Consumers <- TwoConsumers
  Capacity = 4
  Wrap = 8
  Start = 6
  MaxPush = 7
\* A ring that was dropped does nothing any more.
CHECK_DEADLOCK FALSE
SYMMETRY Symmetry
INVARIANTS
  TypeOK
  NoOverwrite
  ClaimsHoldValues
PROPERTY ImplementsFifo
