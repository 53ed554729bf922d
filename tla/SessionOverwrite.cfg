\* A conflict on one file followed by a save of another.
SPECIFICATION Spec
CONSTANTS
    f1 = f1
    f2 = f2
    original = original
    edited = edited
    foreign = foreign
    absent = absent
    garbled = garbled
    Garbled = garbled
    Original = original
    Absent = absent
    Values = {original, edited, foreign}
    Resources <- TwoFiles
    MaxEdits = 2
    MaxExternal = 1
    MaxRetries = 0
    MaxDeletes = 0
    MaxDeleteFailures = 0
PROPERTIES
    StaleOverwritesRejected
CHECK_DEADLOCK FALSE
