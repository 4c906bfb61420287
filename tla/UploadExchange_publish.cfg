\* Two commands that overlap, with builds of two contents the receiver may lack.
SPECIFICATION FairSpec
CONSTANTS
    c1 = c1
    c2 = c2
    d1 = d1
    d2 = d2
    Whole = Whole
    Nil = Nil
    Commands = {c1, c2}
    Digests = {d1, d2}
    Files <- SomeFiles
    Concurrency = 2
    Tries = 2
INVARIANTS
    AttemptsCounted
PROPERTIES
    KeptSpec
    CommandsEnd
CHECK_DEADLOCK FALSE
