CONSTANTS
    t1 = t1  t2 = t2
    Teams = {t1, t2}
    Instances = {1}
    None = None
    LeaseRateMax = 1
    InitPushed = {t1, t2}
    Handles = 3
    MaxThreads = 1
    MaxRestarts = 0
    MaxInbox = 1
    MaxDeaths = 0
SPECIFICATION SystemSpec
INVARIANT OnlyItsVictimCarriesIt
