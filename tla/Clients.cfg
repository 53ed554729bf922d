\* Each of the frontend's machines alone, at bounds where whatever it waits for
\* is overtaken by what the user does meanwhile.
SPECIFICATION Clients
CONSTANTS
    f1 = f1
    f2 = f2
    original = original
    edited = edited
    foreign = foreign
    absent = absent
    garbled = garbled
    Garbled = garbled
    Absent = absent
    Original = original
    Values = {original, edited, foreign}
    Resources <- TwoFiles
    MaxEdits = 2
    MaxExternal = 2
    MaxRetries = 1
    MaxDeletes = 1
    MaxDeleteFailures = 1
    home = home
    sub = sub
    plain = plain
    away = away
    malformed = malformed
    c1 = c1
    c2 = c2
    none = none
    None = none
    d1 = d1
    d2 = d2
    d3 = d3
    lost = lost
    e1 = e1
    e2 = e2
    v1 = v1
    v2 = v2
    current = current
    Inherited = FALSE
    MaxSends = 2
    MaxWorkbenches = 2
    MaxConfigEdits = 1
    MaxJobs = 2
    MaxBegun = 3
    Origins = {home, sub, plain, away}
    Starts = {home}
    Https = {home, sub, away}
    Site <- SiteOf
    MaxRedirects = 2
    MaxReleaseFaults = 1
    Users = {c1, c2}
    Stored = {1, 2}
    MaxRevision = 3
    Documents = {d1, d2, d3}
    Environments = {e1, e2}
    Variables = {v1, v2}
    Graphs <- SomeGraphs
    Requested = {d1}
    Active = {e1}
    Resolutions = {1, 2}
    MaxVariableEdits = 1
    MaxTime = 2
    MaxHandles = 2
    MaxTyped = 2
    MaxFaults = 2
    MaxExplorers = 2
    MaxLoads = 2
    MaxSchemaEdits = 2
    Consent = {c1}
    MaxGrants = 2
    MaxOAuthEdits = 1
    Refs = {v1, v2}
    MaxDialogs = 1
    MaxHeld = 2
    MaxChanges = 1
INVARIANTS
    ClientsTypeOK
    QuietMeansSaved
    NothingLeaks
    FlushedBeforeRestart
PROPERTIES
    BothSidesKept
    ShownAndRecorded
    TokensBelong
    ImportsAreAsSeen
    CommitsSeeCurrent
    RunsShareValues
    LoadedIsCurrent
    WaitsEnd
CHECK_DEADLOCK FALSE
