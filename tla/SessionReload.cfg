\* An edit made while a reload awaits the native side.
SPECIFICATION Spec
CONSTANTS
    f1 = f1
    f2 = f2
    original = original
    edited = edited
    foreign = foreign
    absent = absent
    garbled = garbled
    Garbled = garbled
    Original = original
    Absent = absent
    Values = {original, edited, foreign}
    Resources <- OneFile
    MaxEdits = 2
    MaxExternal = 1
    MaxRetries = 0
    MaxDeletes = 0
    MaxDeleteFailures = 0
PROPERTIES
    EditsSurviveReload
CHECK_DEADLOCK FALSE
