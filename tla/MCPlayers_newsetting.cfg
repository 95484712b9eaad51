SPECIFICATION PlayersSpec
CHECK_DEADLOCK FALSE
CONSTANTS
    Xuids = {x1, x2}
    Consoles = {c1}
    ConsoleOf <- OneConsole
    SessionIds = {s1}
    ChosenIds = {s1}
    Servers = {w1}
    Phrases = {0}
    Privacy = Privacy
    Camera = Camera
    SettingIds = {Privacy, Camera}
    Uploads <- OneOrBoth
    SettingValues = {0, 1}
    MaxRequests = 1
    NoPlayer = NoPlayer
    NoSession = NoSession
    Gone = Gone
PROPERTY NewSettingAdded
