SPECIFICATION ServicesSpec
SYMMETRY Interchangeable
CHECK_DEADLOCK FALSE
CONSTANTS
    Xuids = {x1, x2}
    Consoles = {c1}
    ConsoleOf <- OneConsole
    SessionIds = {s1, s2}
    ChosenIds = {s1}
    Servers = {w1, w2}
    Phrases = {0, 1}
    Privacy = Privacy
    Camera = Camera
    SettingIds = {Privacy, Camera}
    Uploads <- OneOrBoth
    SettingValues = {0, 1}
    MaxRequests = 2
    NoPlayer = NoPlayer
    NoSession = NoSession
    Gone = Gone

    SaveGame = SaveGame
    Clip = Clip
    UserDir = UserDir
    ClipDir = ClipDir
    Small = Small
    Medium = Medium
    Large = Large
    Paths = {SaveGame, Clip}
    Dirs = {UserDir, ClipDir}
    DirOf <- OwnDir
    AreaOf <- OwnArea
    ClipLimit = 2
    UserLimit = 1
    TitleLimit = 3
    Contents = {Small, Medium, Large}
    SizeOf <- Sizes
    Clients = {k1, k2}
    NoFile = NoFile

    Folk = {f1, f2}
    FriendCalls = {fc1, fc2}
    RowIds = {i1, i2}
    NoRow = NoRow
    NoBond = NoBond
    Friendly = Friendly

    g1 = g1
    g2 = g2
    g3 = g3
    Gamers = {g1, g2, g3}
    CaptureSlots = {cs1, cs2}
    Joins <- TwoJoins
    RecentCap = 1
    MaxJoins = 2

    Accts = {a1}
    Passwords = {p1, p2}
    CodeIds = {co1, co2, co3}
    TokenIds = {t1, t2}
    AuthCalls = {ac1, ac2}
    Unclaimed = Unclaimed
    NoCode = NoCode

    Uploaders = {up1}
    UploadSlots = {us1}
    RateMax = 2
    RateWindow = 3
    MaxBytes = 3
    ChunkSizes = {1, 2}
    BackendStatuses = {200, 413}
    MaxClock = 5

    Base = 2
    Entries <- SomeEntries
    Posted <- SomePosted
    PropCalls = {pc1, pc2}
    NoSuchSession = NoSuchSession

    QosSessions = {q1, q2}
    Spellings = {Normal}
    Normal = Normal
    Purgers = {pu1, pu2}

    Handlers = {h1, h2}
    Players = {a, b, c}
    MaxMembers = 2
    NoParty = NoParty
    MaxParties = 1
    MaxSeats = 3
    MaxFaults = 1
INVARIANT ServicesTypeOK
INVARIANT UncrossedUpdatesKept
INVARIANT SettingsAllOrNothing
INVARIANT FilesWithinLimit
INVARIANT StoredWhole
INVARIANT ServedAsAnnounced
INVARIANT SeesTheRow
INVARIANT RecentCapped
INVARIANT TokensFromPasswords
INVARIANT RecoveryComplete
INVARIANT RateKept
INVARIANT CapTold
INVARIANT ContextsServe
INVARIANT QosPurged
INVARIANT OwnerIsMember
INVARIANT CapPassedTogether
INVARIANT SeatsTakenTogether
PROPERTY FriendshipKept
PROPERTY NewestSurvive
PROPERTY ClaimedOnce
PROPERTY NobodyElseChanged
PROPERTY MembershipKept
PROPERTY OnlyAwayReaped
