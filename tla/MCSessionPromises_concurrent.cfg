SPECIFICATION PSpec
CONSTANTS
    Handlers = {h1, h2}
    Readers = {}
    Players = {p1, p2}
    Hosts = {p1}
    Macs = {m1}
    Flags = {f1}
    Keys = {}
    NoXuid = NoXuid
    NoDoc = NoDoc
    NClientIds = 1
    MaxMigrations = 2
    MaxFaults = 1
SYMMETRY Symmetry
CONSTRAINT FewTogether
INVARIANT OnlyExposedJoinsLost
INVARIANT OnlyRivalledHandOffsLost
PROPERTY OnlyOvertakenTakeBack
