\* A project directory with unsaved edits in the local store: two edits, one
\* outside operation and two starts.
SPECIFICATION FilesAlone
CONSTANTS
    Responses = {r1, r2}
    Encrypted = {r1}
    Batches = 1
    Capacity = 1
    MaxEntries = 1
    MaxFaults = 0
    MaxCrashes = 1
    Workspaces = {w1}
    Global = g
    Paths = {p1, p2}
    Contents = {old, new}
    Values = {v1}
    Refs = {tokenA, tokenG}
    OpIds = {o1, o2, del}
    Requests <- Saves
    Owner <- Owners
    Tabs = {t1, t2}
    Deletion <- DrawnBy
    MaxCalls = 3
    w1 = w1
    p1 = p1
    p2 = p2
    old = old
    new = new
    v1 = v1
    tokenA = tokenA
    tokenG = tokenG
    del = del
    Absent = Absent
    Keep = Keep
    Missing = Missing
PROPERTIES
    StoredEditsSurvive
CHECK_DEADLOCK FALSE
