CONSTANTS
    a1 = a1  a2 = a2  a3 = a3
    r1 = r1  r2 = r2  r3 = r3
    Attempts = {a1, a2, a3}
    Readers = {r1, r2}
    None = None
    QueueMax = 1
    l1 = l1  l2 = l2
    p1 = p1  p2 = p2  p3 = p3
    e1 = e1  e2 = e2
    Launchers = {l1, l2}
    PublicPorts = {p1, p2}
    LocalPorts = {e1, e2}
    MaxFaults = 1
    Posts = {p1, p2, p3}
    MaxConc = 2
    KernelLine = 4
    Template <- KernelImage
    Sentinel = "sentinel"
    Submissions <- Uploads
    Clients = {r1, r2, r3}
    NoProc = NoProc
    Conns = {a1}
    NRounds = 2
    ModQ = 64
    ModP = 3
    Radix = 2
    Lut <- MCLut
    Digits = 2
    SecretKey <- MCSecretKey
    MaxZeros = 1
    MaxNoise = 7
    Sent <- MCSent
SPECIFICATION ServersSpec
INVARIANTS OneTimeRetrieval ServesOwnGuest  GivesUpForCause
           RunsAreTheirOwn VmOnlyForItsClient FlagForEvaluations
PROPERTIES FinishedStands 
CHECK_DEADLOCK FALSE
