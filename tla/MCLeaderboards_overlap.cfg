SPECIFICATION Spec
CONSTANTS
    Handlers = {h1, h2}
    Sessions = {s1, s2}
    Rows = {r1, r2}
    ArbitratedRows = {r1}
    Kills = Kills
    BestTime = BestTime
    Level = Level
    Streak = Streak
    Stats = {Kills, Level, BestTime, Streak}
    Method <- EveryMethod
    KeySets <- MostStats
    Values = {1, 2}
    NoRow = NoRow
    NoClaim = NoClaim
    MaxReports = 3
    MaxFaults = 1
SYMMETRY Symmetry
CHECK_DEADLOCK FALSE
INVARIANT TypeOK
INVARIANT AppliedAtMostOnce
INVARIANT AppliedAsClaimed
INVARIANT ClaimedIsApplied
INVARIANT RowsAddUp
