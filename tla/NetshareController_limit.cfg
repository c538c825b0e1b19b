\* The comment's limit, 1 here, against three connections.
CONSTANTS
    Conns = {c1, c2, c3}
    Limit = 1
    MaxFails = 1
    MaxRestarts = 0
SPECIFICATION Spec
INVARIANTS
    AtMostLimit
CHECK_DEADLOCK FALSE
