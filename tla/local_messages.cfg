SPECIFICATION Spec
CONSTANTS
    Ids = {m1, m2}
    Others = 1
    Window = 1
    Retries = 1
SYMMETRY Symmetry
INVARIANTS
    LocalIsSound
    ShownOnce
PROPERTIES
    SentIsFinal
CHECK_DEADLOCK FALSE
