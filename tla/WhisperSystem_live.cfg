CONSTANTS
    t1 = t1
    Teams = {t1}
    Instances = {1}
    None = None
    LeaseRateMax = 1
    InitPushed = {t1}
    Handles = 3
    MaxThreads = 1
    MaxRestarts = 1
    MaxInbox = 1
    MaxDeaths = 1
SPECIFICATION FairSystemSpec
PROPERTY PhonesComeBack
