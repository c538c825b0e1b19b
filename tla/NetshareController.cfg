\* Two connections; with the limit 0 a second one is refused while the first counts.
CONSTANTS
    Conns = {c1, c2}
    Limit = 0
    MaxFails = 2
    MaxRestarts = 1
SPECIFICATION FairSpec
INVARIANTS
    
    BooksAgree
PROPERTY ControllerSettles
CHECK_DEADLOCK FALSE
