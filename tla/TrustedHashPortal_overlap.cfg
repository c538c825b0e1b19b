CONSTANTS
    s1 = s1  s2 = s2  r1 = r1  r2 = r2
    Starts = {s1, s2}
    Restarts = {r1, r2}
    None = None
    MaxSlow = 0
    MaxDeaths = 1
    MaxCrashes = 0
SPECIFICATION Spec
INVARIANT OwnsOneVM
CHECK_DEADLOCK FALSE
