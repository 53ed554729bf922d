\* A request inherits from a profile through a connection that is deleted
\* after the profile was.
SPECIFICATION EditorAlone
CONSTANTS
    d1 = d1
    d2 = d2
    d3 = d3
    s1 = s1
    p1 = p1
    e1 = e1
    cookies = cookies
    preferences = preferences
    none = none
    n1 = n1
    n2 = n2
    a = a
    w1 = w1
    w2 = w2
    f1 = f1
    f2 = f2
    Requests = {d1, d2}
    Schemas = {s1}
    Profiles = {p1}
    Entries = {e1}
    Panels <- OnePanel
    None = none
    MaxSteps = 5
INVARIANTS
    WorkspaceReloads
CHECK_DEADLOCK FALSE
