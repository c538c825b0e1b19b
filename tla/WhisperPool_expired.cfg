CONSTANTS
    t1 = t1  t2 = t2  t3 = t3
    Teams = {t1, t2, t3}
    Instances = {1, 2}
    None = None
    LeaseRateMax = 2
    InitPushed = {t1}
    Handles = 1
    MaxThreads = 1
    MaxRestarts = 0
SPECIFICATION Spec
PROPERTY ExpiredAreRecycled
