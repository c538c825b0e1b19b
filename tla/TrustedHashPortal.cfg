CONSTANTS
    s1 = s1  s2 = s2  r1 = r1  r2 = r2
    Starts = {s1, s2}
    Restarts = {r1, r2}
    None = None
    MaxSlow = 1
    MaxDeaths = 1
    MaxCrashes = 1
SPECIFICATION FairSpec
INVARIANTS PublicAfterSetup PasswordsAgree SerialOwnsOneVM
 
CHECK_DEADLOCK FALSE
