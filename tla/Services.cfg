CONSTANTS
    u1 = u1  u2 = u2
    Members = {u1, u2}
    MaxConns = 3
    MaxMessages = 1
    MaxPending = 2
    Users = {u1, u2}
    f1 = f1
    Uploads = {f1}
    NoFile = NoFile
    PageLimit = 2
    MaxTime = 3
    MaxPosts = 4
    Pair = {u1, u2}
    Emojis = {"e"}
    Titles = {"t1"}
    NoTitle = ""
    MaxMails = 2
    MaxChanges = 3
    MaxLinks = 2
    Phones = {"p1", "p2"}
    Handles = {"h1", "h2"}
    Passwords = {"w1", "w2"}
    Names = {"Al", "Whisper Victim 1"}
    VictimNames = {"Whisper Victim 1"}
    CtfMode = TRUE
    OldRow <- MCOldRow
    TokenTtl = 1
    MaxIds = 2
    MaxTokens = 2
    MaxNow = 2
    Images <- MCImages
    ImageCells = 12
    BlockCells = 2
    DaemonCells = 2
    Spare = 2
    FlagSpare = 1
    DecoyFiles <- MCDecoyFiles
    FlagValues = {"f1"}
    MaxBakes = 2
    Chats = {"chat1", "chat2"}
    RealFlag = "real"
    Texts <- MCTexts
    PageSize = 1
    Grace = 1
    ScanTimeout = 1
    MaxTexts = 2
    MaxScans = 2
    MaxSeconds = 2
    Downloads = {"d1", "d2", "d3"}
    PoolThreads = 2
    Backends = {"b1", "b2"}
    Address <- MCAddress
    Archive <- MCArchive
    MaxStarts = 2
    Streams <- MCStreams
    MaxLooks = 2
    PrimeBits = 6
    WalkLength = 3
    WalkDelta = 1
    SmallFactors = {2, 3}
    Witnesses = {2, 3}
    CurveDraws <- MCCurveDraws
    XDraws = {1, 2, 5}
    Dim = 2
    RingQ = 3
    Order = 7
    Taus = {0, 3}
    Secrets <- MCSecrets
    Blinds = {2}
    MaxCommands = 4
    Total = 2
    KeyIsSet = FALSE
    MaxAsks = 4
    MaxReboots = 1
    Nums <- MCNums
    Indices <- MCIndices
    Games = 2
    Exponents = {0, 3, 5}
    AnswerTimeout = 2
    CurveP = 13
    CurveB = 7
    CurveN = 7
    Gx = 8
    Gy = 5
    Iterations = 2
    None = None
    PaillierKeys <- Keys
    ModulusBits = 10
    SmallPrimeLimit = 7
    Messages = {0, 3, 9}
    KeygenCoins <- KeygenDraws
    AuxCoins <- AuxDraws
    PresignCoins <- PresignDraws
    SignCoins <- SignDraws
    Faults = {"none", "rid", "delta", "chi", "k", "sigma", "message"}
    MaxPresigs = 2
    c1 = c1  c2 = c2  n1 = n1
    k1 = k1  k2 = k2
    Checkers = {c1, c2}
    Clusters = {n1}
    Tokens = {k1, k2}
    TeamOf <- MCTeamOf
    TypedTeams <- MCTypedTeams
    CodeFile = {"code"}
    TypedCodes = {"code", "other"}
    NoTeam = NoTeam
    ByteBits = 2
    Delta = 185
    Carrier <- MCCarrier
    KeyWords <- MCKeyWords
    Keystream <- MCKeystream
SPECIFICATION ServicesSpec
INVARIANTS PushedOnce PresenceSettles AttachmentsStand PagingMissesOnlyTies
           ScreensAgree AccountsStand 
           CapturesAreFresh DownloadsAreWhole ReadyMeansWhole
           CurvesAgree OneMessagePerPresignature FlagsNameTheirTeam
           HonestUnlessWrapped FlagIsEarned TicketIsEarned
CHECK_DEADLOCK FALSE
