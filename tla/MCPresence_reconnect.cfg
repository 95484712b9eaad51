SPECIFICATION FairSpec
CONSTANTS
    c1 = c1
    s1 = s1
    s2 = s2
    Consoles = {c1}
    Sockets = {s1, s2}
    Owner <- OneConsole
    Played <- InGame
    MaxFaults = 1
INVARIANT TypeOK
INVARIANT OpenIsRegistered
PROPERTY DeadIsDropped
PROPERTY DepartureTornDown
