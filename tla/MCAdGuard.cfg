\* One site, one other rewrite; two clients that pause, over three timers.
CONSTANTS
  Sites = {example}
  Others = {printer}
  NoTask = NoTask
  NoCall = NoCall
  MaxCopies = 2
  Clients = {c1, c2}
  Timers = {t1, t2, t3}
  None = None
  MaxCuts = 1

SPECIFICATION BothSpec

INVARIANTS
  BothTypeOK
  WantedResolve
  AnswersHold

PROPERTIES
  PauseEnds
