\* Backend: two engines, one chain of one family, one entry.
\* Definitions: two requests and two definitions at a time.
SPECIFICATION BothSpec
CONSTANTS
  Backends = {old, new}
  Families = {"inet"}
  Parents = {"INPUT"}
  Entries = {ban}
  FamilyOf <- MCFamilyOf
  None = None
  Client = {c1, c2}
  Id = {i1, i2}
  web = web
  mail = mail
  host = host
SYMMETRY Symmetry
INVARIANTS
  BothTypeOK
  CallsHoldWord
  DefinitionsAgree
PROPERTIES
  SetsReplacedWhole
CHECK_DEADLOCK FALSE
