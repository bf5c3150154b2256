SPECIFICATION Spec
CONSTANTS
  Clients = {panel, script}
  Scripts = {script}
  Phones = {p1, p2}
  Forms <- MCForms
  Batches <- MCBatches
  MaxJobs = 3
  Ips = {ip}
  MaxSessions = 2
  SessionTtl = 2
  MaxFailures = 2
  Window = 2
  BlockFor = 2
  MaxTime = 3
  MaxRequests = 4
  MaxRestarts = 1
CHECK_DEADLOCK FALSE
INVARIANTS
  WhitelistInv
  PanelInv
SYMMETRY Symmetry
