---------------------------- MODULE Leaderboards ----------------------------
(***************************************************************************)
(* Stat reports: the arbitration ledger and the leaderboard rows.          *)
(*                                                                         *)
(* After a session every console posts the stats of every player.  A view  *)
(* is arbitrated when all consoles report it; then only the first report   *)
(* for a (session, view, player) may be applied, and inserting its claim   *)
(* in the ledger, under a unique index, decides which one is first.  A     *)
(* report is applied by reading the row, updating it in memory and saving  *)
(* the whole row.  The views of one request are handled in parallel, so a  *)
(* handler here is one UpdateLeaderboardCommand.                           *)
(*                                                                         *)
(* A later report only reads the claim, to log whether it agrees.  Reports *)
(* are taken to arrive within the seven days a claim is kept.              *)
(***************************************************************************)
EXTENDS Integers, FiniteSets, SequencesExt, Lists

CONSTANTS
    Handlers,       \* commands that may be in flight at the same time
    Sessions,       \* session ids
    Rows,           \* (view, player) pairs of one title
    ArbitratedRows, \* the rows of the views every console reports
    Stats,          \* stat ids
    Method,         \* stat id -> how stats.json says it is aggregated
    KeySets,        \* the sets of stats that one report may carry
    Values,         \* the values consoles report
    NoRow,          \* no leaderboard document
    NoClaim,        \* no ledger document
    MaxReports,     \* bound: how many reports are received
    MaxFaults       \* bound: how many of them fail

\* What a console may report: every stat of a key set, with any value.
ReportedStats == UNION {[keys -> Values] : keys \in KeySets}

\* A stored row: some of the stat ids, with a number each.
IsRow(doc) == \E keys \in SUBSET Stats : doc \in [keys -> Int]

ASSUME LeaderboardsAssumption ==
    /\ ArbitratedRows \subseteq Rows
    /\ Method \in [Stats -> {"sum", "set", "min", "max"}]
    /\ KeySets \subseteq SUBSET Stats
    /\ Values \subseteq Int
    /\ ~IsRow(NoRow)
    /\ NoClaim \notin ReportedStats
    /\ MaxReports \in Nat
    /\ MaxFaults \in Nat

VARIABLES
    rows,     \* row -> its stats or NoRow
    claims,   \* session, row -> the stats of the report that claimed it
    handling, \* what each handler has in flight
    received, \* reports received so far
    faults,   \* handlers that failed so far
    applied,  \* history: row -> the reports saved to it, in order
    overlapped \* history: the rows read while another report waited to be saved

vars == <<rows, claims, handling, received, faults, applied, overlapped>>

Report == [session : Sessions, row : Rows, stats : ReportedStats]

Idle == [pc |-> "idle"]

\* A command waits to find its row, or to save the row it changed.
IsRequest(r) ==
    \/ r = Idle
    \/ r \in [pc : {"find"}, report : Report]
    \/ \E keys \in SUBSET Stats :
          r \in [pc : {"save"}, report : Report, doc : [keys -> Int]]

TypeOK ==
    /\ DOMAIN rows = Rows
    /\ \A row \in Rows : rows[row] = NoRow \/ IsRow(rows[row])
    /\ claims \in [Sessions \X ArbitratedRows -> ReportedStats \cup {NoClaim}]
    /\ DOMAIN handling = Handlers
    /\ \A h \in Handlers : IsRequest(handling[h])
    /\ received \in 0..MaxReports
    /\ faults \in 0..MaxFaults
    /\ applied \in [Rows -> Seq(Report)]
    /\ overlapped \subseteq Rows

-----------------------------------------------------------------------------
Lesser(a, b) == IF a <= b THEN a ELSE b
Greater(a, b) == IF a >= b THEN a ELSE b

Combine(method, stored, value) ==
    CASE method = "sum" -> stored + value
      [] method = "set" -> value
      [] method = "min" -> Lesser(value, stored)
      [] method = "max" -> Greater(value, stored)

\* A stat the row does not have yet is first given the reported value, and
\* then combined with it like any other.
Seeded(doc, stats) ==
    [k \in DOMAIN doc \cup DOMAIN stats |->
        IF k \in DOMAIN doc THEN doc[k] ELSE stats[k]]

\* Slip: only the stats the row already has are updated.
UpdateKnown(doc, stats) ==
    [k \in DOMAIN doc |->
        IF k \in DOMAIN stats THEN Combine(Method[k], doc[k], stats[k])
                              ELSE doc[k]]

Update(doc, stats) ==
    [k \in DOMAIN doc \cup DOMAIN stats |->
        IF k \in DOMAIN stats
        THEN Combine(Method[k], Seeded(doc, stats)[k], stats[k])
        ELSE doc[k]]

Arbitrated(report) == report.row \in ArbitratedRows

Key(report) == <<report.session, report.row>>

-----------------------------------------------------------------------------
Init ==
    /\ rows = [r \in Rows |-> NoRow]
    /\ claims = [k \in Sessions \X ArbitratedRows |-> NoClaim]
    /\ handling = [h \in Handlers |-> Idle]
    /\ received = 0
    /\ faults = 0
    /\ applied = [r \in Rows |-> << >>]
    /\ overlapped = {}

Receive(h, report) ==
    /\ handling[h] = Idle
    /\ received < MaxReports
    /\ received' = received + 1
    /\ handling' = [handling EXCEPT ![h] = [pc |-> "find", report |-> report]]
    /\ UNCHANGED <<rows, faults, applied, overlapped>>

\* Slip: the ledger has no unique index.
ClaimUnindexed(h, report) ==
    /\ Arbitrated(report)
    /\ claims' = [claims EXCEPT ![Key(report)] = report.stats]
    /\ Receive(h, report)

\* Slip: the claim records the report and not its stats.
ClaimReport(h, report) ==
    /\ Arbitrated(report)
    /\ claims[Key(report)] = NoClaim
    /\ claims' = [claims EXCEPT ![Key(report)] = report]
    /\ Receive(h, report)

\* The unique index lets one insert through.
Claim(h, report) ==
    /\ Arbitrated(report)
    /\ claims[Key(report)] = NoClaim
    /\ claims' = [claims EXCEPT ![Key(report)] = report.stats]
    /\ Receive(h, report)

\* Slip: the claim is upserted, so a later report replaces the first one.
DuplicateUpserts(h, report) ==
    /\ Arbitrated(report)
    /\ claims[Key(report)] # NoClaim
    /\ handling[h] = Idle
    /\ received < MaxReports
    /\ received' = received + 1
    /\ claims' = [claims EXCEPT ![Key(report)] = report.stats]
    /\ UNCHANGED <<rows, handling, faults, applied, overlapped>>

\* The insert hit the index: whatever the comparison says, nothing is applied.
Duplicate(h, report) ==
    /\ Arbitrated(report)
    /\ claims[Key(report)] # NoClaim
    /\ handling[h] = Idle
    /\ received < MaxReports
    /\ received' = received + 1
    /\ UNCHANGED <<rows, claims, handling, faults, applied, overlapped>>

\* A view one console reports is not in the ledger: repeats are progress.
Accept(h, report) ==
    /\ ~Arbitrated(report)
    /\ UNCHANGED claims
    /\ Receive(h, report)

\* Another report read the row already and will save what it made of it.
Overlaps(h) ==
    LET row == handling[h].report.row
        waiting == {g \in Handlers : handling[g].pc = "save"}
    IN  overlapped' = IF \E g \in waiting : handling[g].report.row = row
                      THEN overlapped \cup {row} ELSE overlapped

\* Slip: a player without a row yet is skipped, as a missing session is.
FindOrSkip(h) ==
    /\ handling[h].pc = "find"
    /\ LET report == handling[h].report
           doc == rows[report.row]
       IN  handling' = [handling EXCEPT ![h] =
             IF doc = NoRow THEN Idle
             ELSE [pc |-> "save", report |-> report,
                   doc |-> Update(doc, report.stats)]]
    /\ Overlaps(h)
    /\ UNCHANGED <<rows, claims, received, faults, applied>>

Find(h) ==
    /\ handling[h].pc = "find"
    /\ LET report == handling[h].report
           doc == rows[report.row]
       IN  handling' = [handling EXCEPT ![h] =
             [pc |-> "save", report |-> report,
              doc |-> IF doc = NoRow THEN report.stats
                                     ELSE Update(doc, report.stats)]]
    /\ Overlaps(h)
    /\ UNCHANGED <<rows, claims, received, faults, applied>>

Save(h) ==
    /\ handling[h].pc = "save"
    /\ LET report == handling[h].report
       IN  /\ rows' = [rows EXCEPT ![report.row] = handling[h].doc]
           /\ applied' = [applied EXCEPT ![report.row] = Append(@, report)]
    /\ handling' = [handling EXCEPT ![h] = Idle]
    /\ UNCHANGED <<claims, received, faults, overlapped>>

\* A database call rejects, or the server stops: the claim stays.
Fail(h) ==
    /\ handling[h] # Idle
    /\ faults < MaxFaults
    /\ faults' = faults + 1
    /\ handling' = [handling EXCEPT ![h] = Idle]
    /\ UNCHANGED <<rows, claims, received, applied, overlapped>>

Next ==
    \E h \in Handlers :
        \/ \E session \in Sessions, row \in Rows, stats \in ReportedStats :
              LET report == [session |-> session, row |-> row, stats |-> stats]
              IN  \/ Claim(h, report)
                  \/ Duplicate(h, report)
                  \/ Accept(h, report)
        \/ Find(h)
        \/ Save(h)
        \/ Fail(h)

Spec == Init /\ [][Next]_vars

-----------------------------------------------------------------------------
\* No arbitrated result is applied twice to a row, however many consoles
\* report it at the same time and whatever fails in between.
AppliedAtMostOnce ==
    \A row \in ArbitratedRows : \A i, j \in DOMAIN applied[row] :
        applied[row][i].session = applied[row][j].session => i = j

\* The ledger tells the truth: what was applied for a session is what its claim
\* records, so later reports are compared with the right values.
AppliedAsClaimed ==
    \A row \in ArbitratedRows : \A i \in DOMAIN applied[row] :
        claims[Key(applied[row][i])] = applied[row][i].stats

\* Claims that nobody is applying any more and that were never applied.
LostClaims ==
    {key \in Sessions \X ArbitratedRows :
        /\ claims[key] # NoClaim
        /\ \A h \in Handlers : handling[h] # Idle => Key(handling[h].report) # key
        /\ \A i \in DOMAIN applied[key[2]] : applied[key[2]][i].session # key[1]}

\* A claimed result is applied unless the handler that claimed it failed: every
\* failure loses one result at most, and no interleaving loses any.
ClaimedIsApplied == Cardinality(LostClaims) <= faults

\* Which of these reports carry a stat, and the values they carry for it; a
\* report that does not carry it adds nothing to a sum.
Carrying(stat, reports) == {i \in DOMAIN reports : stat \in DOMAIN reports[i].stats}

ValuesFor(stat, reports) ==
    [i \in DOMAIN reports |->
        IF i \in Carrying(stat, reports) THEN reports[i].stats[stat] ELSE 0]

\* The reference: what a stat should be after these reports, by its method.
IsAggregate(value, stat, reports) ==
    LET values == ValuesFor(stat, reports)
        places == Carrying(stat, reports)
    IN  CASE Method[stat] = "sum" -> value = Total(values)
          [] Method[stat] = "set" ->
                \E i \in places : value = values[i] /\ \A j \in places : j <= i
          [] Method[stat] = "min" ->
                \E i \in places : value = values[i] /\ \A j \in places : value <= values[j]
          [] Method[stat] = "max" ->
                \E i \in places : value = values[i] /\ \A j \in places : value >= values[j]

\* What is stored instead: a summed stat that the row's first report lacked is
\* given its first value and then adds it, so that value counts twice.
IsStored(value, stat, reports) ==
    LET values == ValuesFor(stat, reports)
        places == Carrying(stat, reports)
    IN  IF Method[stat] = "sum"
        THEN \E first \in places :
                /\ \A i \in places : first <= i
                /\ value = Total(values) + IF first = 1 THEN 0 ELSE values[first]
        ELSE IsAggregate(value, stat, reports)

Carried(reports) == UNION {DOMAIN r.stats : r \in ToSet(reports)}

\* A row whose reports did not overlap has the stats that they carried, and each
\* one is made of all the values they carried for it: no report is lost, and
\* nothing counts twice but the first value of a sum that came late.
RowsAddUp ==
    \A row \in Rows \ overlapped : rows[row] # NoRow =>
        /\ DOMAIN rows[row] = Carried(applied[row])
        /\ \A stat \in DOMAIN rows[row] :
              IsStored(rows[row][stat], stat, applied[row])

\* Each stat of such a row is the sum, the last, the least or the greatest of
\* all the values reported for it.
RowIsAggregate ==
    \A row \in Rows \ overlapped : rows[row] # NoRow =>
        \A stat \in DOMAIN rows[row] :
            IsAggregate(rows[row][stat], stat, applied[row])
=============================================================================
