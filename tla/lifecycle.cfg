SPECIFICATION FairSpec
CONSTANTS
  c1 = c1  c2 = c2
  Clients = {c1, c2}
  Unset = Unset
  Empty = Empty
  Given = Given
  Faults = TRUE
INVARIANTS TypeOK CleanExitDrained EndsForAReason
PROPERTIES UpOrOut SignalEndsProcess
CHECK_DEADLOCK FALSE
