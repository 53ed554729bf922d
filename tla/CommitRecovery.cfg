SPECIFICATION FairSpec
CONSTANTS
  w1 = w1
  w2 = w2
  p1 = p1
  p2 = p2
  old = old
  new = new
  alien = alien
  v1 = v1
  tokenA = tokenA
  tokenG = tokenG
  Workspaces = {w1, w2}
  Global = Global
  Paths = {p1, p2}
  Contents = {old, new}
  Values = {v1}
  Refs = {tokenA, tokenG}
  OpIds = {o1, o2}
  Absent = Absent
  Keep = Keep
  Missing = Missing
  None = None
  Requests <- RecoveryRequests
  Owner <- MCOwner
  MaxRevision = 3
  InitialFiles <- MCInitialFiles
  MaxCalls = 2
  MaxEdits = 1
  MaxCrashes = 1
  MaxFaults = 1
PROPERTIES
  RecoveryPrecedesCommit
  WorkspacesRecover
