SPECIFICATION Spec
CONSTANTS
  c1 = c1
  c2 = c2
  n1 = n1
  e1 = e1
  e2 = e2
  Editor = {c1, c2}
  Banner = {}
  Net = {}
  Engine = {e1, e2}
  None = None
  Modes = {"observe", "enforce"}
  QueueCapacity = 1
  Faulty = TRUE
  FaultyDisk = FALSE
PROPERTIES
  RequestsEnd
  OldEnginesStop
  ObserveUnhooks
CHECK_DEADLOCK FALSE
