SPECIFICATION Spec
CONSTANTS
  dom = dom
  u1 = u1
  g1 = g1
  g2 = g2
  fold = fold
  sub = sub
  Domains = {dom}
  Subdomains = {sub}
  Subfolders = {fold}
  Parent <- MCParent
  Folder <- MCFolder
  Aliases = {1, 2}
  Upstreams = {u1}
  Edits <- MCEdits
  NoUpstream = NoUpstream
  Globals = {g1, g2}
  Absent = Absent
  Stopped = Stopped
  NoRequest = NoRequest
  MaxTorn = 1
SYMMETRY Symmetry
INVARIANTS
  TypeOK
  
  
  ForwarderNamesAll

  
CHECK_DEADLOCK FALSE
