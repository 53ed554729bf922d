\* An upload of up to two chunks over two hops; the deletion of a workspace of two
\* files with three changes from outside, two failures and a crash; a captured
\* response of up to three batches with two failing jobs and two ends of the
\* process.  Each of them alone.
SPECIFICATION Parts
CONSTANTS
    Names = {n1, n2}
    Contents = {old, new}
    Missing = missing
    NoDir = noDir
    NoIntent = noIntent
    MaxExternal = 3
    MaxCleanupFaults = 2
    MaxCleanupCrashes = 1
    MaxUses = 1
    Responses = {r1}
    Batches = 3
    Capacity = 1
    MaxTickets = 1
    MaxCaptureFaults = 2
    MaxCaptureCrashes = 2
    Absent = absent
    MaxChunks = 2
    MaxEntries = 2
    MaxHops = 1
    MaxFaults = 1
    MaxDamage = 1
    MaxCrashes = 1
INVARIANTS
    PartsTypeOK
    StoredAsReported
PROPERTIES
    CleanupKeepsOthers
    UploadsAreExact
    WaitsEnd
CHECK_DEADLOCK FALSE
