\* A save that was waiting when a deletion was asked for and then refused.
SPECIFICATION Spec
CONSTANTS
    f1 = f1
    f2 = f2
    original = original
    edited = edited
    foreign = foreign
    absent = absent
    garbled = garbled
    Garbled = garbled
    Original = original
    Absent = absent
    Values = {original, edited, foreign}
    Resources <- OneFile
    MaxEdits = 1
    MaxExternal = 0
    MaxRetries = 0
    MaxDeletes = 1
    MaxDeleteFailures = 1
INVARIANTS
    RefusedDeletionKeepsSaves
CHECK_DEADLOCK FALSE
