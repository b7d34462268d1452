SPECIFICATION Spec
CONSTANTS
  c1 = c1
  c2 = c2
  n1 = n1
  e1 = e1
  e2 = e2
  Editor = {c1}
  Banner = {c2}
  Net = {n1}
  Engine = {e1, e2}
  None = None
  Modes = {"off", "enforce"}
  QueueCapacity = 2
  Faulty = FALSE
  FaultyDisk = FALSE
PROPERTY
  DisablingUnhooks
CHECK_DEADLOCK FALSE
