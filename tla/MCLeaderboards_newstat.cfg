SPECIFICATION Spec
CONSTANTS
    Handlers = {h1}
    Sessions = {s1, s2}
    Rows = {r1}
    ArbitratedRows = {r1}
    Kills = Kills
    BestTime = BestTime
    Level = Level
    Streak = Streak
    Stats = {Kills, Streak}
    Method <- SumAndMax
    KeySets <- KillsOrNot
    Values = {1, 2}
    NoRow = NoRow
    NoClaim = NoClaim
    MaxReports = 3
    MaxFaults = 0
SYMMETRY Symmetry
CHECK_DEADLOCK FALSE
INVARIANT RowIsAggregate
