CONSTANTS
    t1 = t1  t2 = t2  t3 = t3
    Teams = {t1, t2, t3}
    Instances = {1}
    None = None
    LeaseRateMax = 1
    InitPushed = {t1, t2}
    Handles = 1
    MaxThreads = 1
    MaxRestarts = 0
SPECIFICATION FairSpec
PROPERTY PoolMovesOn
