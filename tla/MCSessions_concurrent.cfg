SPECIFICATION FairSpec
CONSTANTS
    Handlers = {h1, h2}
    Readers = {r1}
    Players = {}
    Hosts = {NoXuid}
    Macs = {m1}
    Flags = {f1}
    Keys = {}
    NoXuid = NoXuid
    NoDoc = NoDoc
    NClientIds = 1
    MaxMigrations = 2
    MaxFaults = 1
INVARIANT TypeOK
INVARIANT NoDanglingHandOff
INVARIANT WalkNeverRevisits
PROPERTY HandOffNeverCleared
PROPERTY ResolveTerminates
