\* Certificates: two processes of the administrator, two certificates due.
\* Log: two lines in up to three files; a poll reads three pieces and returns one line.
SPECIFICATION BothSpec
CONSTANTS
  o1 = o1
  o2 = o2
  Outside = {o1, o2}
  Idle = Idle
  MaxDue = 2
  MaxCuts = 2
  MaxFiles = 3
  MaxLine = 2
  MaxTruncations = 1
  MaxBytes = 3
  MaxLines = 1
  Start = "end"
  None = None
INVARIANTS
  BothTypeOK
  
  LinesReadOnce
PROPERTIES
  
  WorkIsBounded
  LinesArrive
CHECK_DEADLOCK FALSE
