SPECIFICATION PSpec
CONSTANTS
    Handlers = {h1, h2}
    Readers = {}
    Players = {p1, p2}
    Hosts = {NoXuid}
    Macs = {m1}
    Flags = {f1}
    Keys = {}
    NoXuid = NoXuid
    NoDoc = NoDoc
    NClientIds = 1
    MaxMigrations = 0
    MaxFaults = 0
SYMMETRY Symmetry
INVARIANT AnsweredJoinKept
