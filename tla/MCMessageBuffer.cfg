SPECIFICATION Spec
CONSTANTS
    Nodes = {n1, n2, n3}
    Messages = {m1, m2}
    NULL = NULL
INVARIANTS
    WellLinked
PROPERTIES
    ImplementsFifo
CHECK_DEADLOCK FALSE
