\* One reader, who may leave, two captures, two classifications and room for two generations.
SPECIFICATION Spec
CONSTANTS
    c1 = c1
    t1 = t1
    t2 = t2
    a1 = a1
    a2 = a2
    i1 = i1
    i2 = i2
    None = None
    Pass = Pass
    Clients = {c1}
    Tasks = {t1, t2}
    Attempts = {a1, a2}
    Ids = {i1, i2}
    MaxPending = 2
    MaxGenerations = 2
    MaxTotal = 2
    IdsReturn = FALSE
SYMMETRY Alike
INVARIANTS
    
    CapturesSerial
    RestoredServed
    StoppedForGood
PROPERTIES
    SelectedFromCurrent
CHECK_DEADLOCK FALSE
