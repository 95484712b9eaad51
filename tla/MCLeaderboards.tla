---------------------------- MODULE MCLeaderboards ---------------------------
(* Small instances of Leaderboards.                                          *)
EXTENDS Leaderboards, TLC

CONSTANTS Kills, BestTime, Level, Streak

\* A stat for each method, or two of them.
EveryMethod ==
    Kills :> "sum" @@ Level :> "set" @@ BestTime :> "min" @@ Streak :> "max"
SumAndMax == Kills :> "sum" @@ Streak :> "max"

\* Reports with the summed stat, or without it.
MostStats == {{Kills, BestTime, Streak}, {Level, Streak}}
KillsOrNot == {{Streak}, {Kills, Streak}}

Symmetry == Permutations(Handlers) \cup Permutations(Sessions)
=============================================================================
