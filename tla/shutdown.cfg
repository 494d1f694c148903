SPECIFICATION Spec
CONSTANTS
  c1 = c1  c2 = c2
  Clients = {c1, c2}
  Unset = Unset
  Empty = Empty
  Given = Given
  Faults = FALSE
INVARIANT ShutdownGraceful
CHECK_DEADLOCK FALSE
