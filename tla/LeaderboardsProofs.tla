------------------------- MODULE LeaderboardsProofs -------------------------
(***************************************************************************)
(* Theorems about Leaderboards, for any sessions, rows, stats and methods, *)
(* and any number of handlers, reports and failures.                       *)
(***************************************************************************)
EXTENDS Leaderboards, ListsProofs, FiniteSetTheorems, TLAPS

Held == Sessions \X ArbitratedRows

\* What handler h is applying.
Applying(h) == handling[h].report

\* The claim of an arbitrated report that is being applied records its stats,
\* no other handler applies a report for the same key, and none was applied.
InFlightHoldsClaim ==
    \A h \in Handlers :
        handling[h] # Idle /\ Arbitrated(Applying(h)) =>
            /\ claims[Key(Applying(h))] = Applying(h).stats
            /\ \A g \in Handlers :
                  handling[g] # Idle /\ Key(Applying(g)) = Key(Applying(h)) => g = h
            /\ \A i \in DOMAIN applied[Applying(h).row] :
                  applied[Applying(h).row][i].session # Applying(h).session

\* The reports of a row's history are reports for that row.
HistoryByRow ==
    \A row \in Rows : \A i \in DOMAIN applied[row] : applied[row][i].row = row

IInv ==
    /\ TypeOK
    /\ HistoryByRow
    /\ InFlightHoldsClaim
    /\ AppliedAtMostOnce
    /\ AppliedAsClaimed

-----------------------------------------------------------------------------
(* Types. *)

(* Combining two numbers by one of the four methods makes a number. *)
LEMMA CombineType ==
    ASSUME NEW method \in {"sum", "set", "min", "max"},
           NEW stored \in Int, NEW value \in Int
    PROVE  Combine(method, stored, value) \in Int
BY DEF Combine, Lesser, Greater

(* Updating a row with a report makes a row: the stats of both, a number each. *)
LEMMA UpdateType ==
    ASSUME NEW old \in SUBSET Stats, NEW new \in SUBSET Stats,
           NEW doc \in [old -> Int], NEW stats \in [new -> Int]
    PROVE  Update(doc, stats) \in [old \cup new -> Int]
<1>1. Seeded(doc, stats) \in [old \cup new -> Int]
  BY DEF Seeded
<1>2. ASSUME NEW k \in new
      PROVE  Combine(Method[k], Seeded(doc, stats)[k], stats[k]) \in Int
  <2>1. Method[k] \in {"sum", "set", "min", "max"}
    BY LeaderboardsAssumption
  <2>2. Seeded(doc, stats)[k] \in Int /\ stats[k] \in Int
    BY <1>1
  <2>3. QED
    BY <2>1, <2>2, CombineType
<1>3. QED
  BY <1>2 DEF Update

(* What a console reports is some of the stat ids, with a number each. *)
LEMMA ReportIsRow ==
    ASSUME NEW stats \in ReportedStats
    PROVE  \E keys \in SUBSET Stats : stats \in [keys -> Int]
<1>1. PICK keys \in KeySets : stats \in [keys -> Values]
  BY DEF ReportedStats
<1>2. keys \in SUBSET Stats /\ stats \in [keys -> Int]
  BY <1>1, LeaderboardsAssumption
<1>3. QED
  BY <1>2

(* A handler that is given a request has one. *)
LEMMA ReceiveType ==
    ASSUME TypeOK, NEW h \in Handlers, NEW report \in Report, Receive(h, report)
    PROVE  /\ DOMAIN handling' = Handlers
           /\ \A g \in Handlers : IsRequest(handling'[g])
           /\ received' \in 0..MaxReports
<1>1. IsRequest([pc |-> "find", report |-> report])
  BY DEF IsRequest
<1>2. received' \in 0..MaxReports
  BY LeaderboardsAssumption DEF Receive, TypeOK
<1>3. QED
  BY <1>1, <1>2 DEF Receive, TypeOK

LEMMA IdleType == IsRequest(Idle)
BY DEF IsRequest

(* Every step keeps the types. *)
LEMMA TypeInductive == TypeOK /\ [Next]_vars => TypeOK'
<1> SUFFICES ASSUME TypeOK, [Next]_vars
             PROVE  TypeOK'
  OBVIOUS
<1>1. ASSUME NEW h \in Handlers, NEW report \in Report, Claim(h, report)
      PROVE  TypeOK'
  <2>1. /\ DOMAIN handling' = Handlers
        /\ \A g \in Handlers : IsRequest(handling'[g])
        /\ received' \in 0..MaxReports
    BY <1>1, ReceiveType DEF Claim
  <2>2. claims' \in [Sessions \X ArbitratedRows -> ReportedStats \cup {NoClaim}]
    BY <1>1 DEF Claim, TypeOK, Report
  <2>3. QED
    BY <1>1, <2>1, <2>2 DEF Claim, Receive, TypeOK
<1>2. ASSUME NEW h \in Handlers, NEW report \in Report, Duplicate(h, report)
      PROVE  TypeOK'
  BY <1>2, LeaderboardsAssumption DEF Duplicate, TypeOK, IsRequest
<1>3. ASSUME NEW h \in Handlers, NEW report \in Report, Accept(h, report)
      PROVE  TypeOK'
  <2>1. /\ DOMAIN handling' = Handlers
        /\ \A g \in Handlers : IsRequest(handling'[g])
        /\ received' \in 0..MaxReports
    BY <1>3, ReceiveType DEF Accept
  <2>2. QED
    BY <1>3, <2>1 DEF Accept, Receive, TypeOK
<1>4. ASSUME NEW h \in Handlers, Find(h)
      PROVE  TypeOK'
  <2> DEFINE report == handling[h].report
             doc == rows[report.row]
             new == IF doc = NoRow THEN report.stats ELSE Update(doc, report.stats)
  <2>1. report \in Report
    BY <1>4 DEF Find, TypeOK, IsRequest, Idle
  <2>2. PICK keys \in SUBSET Stats : report.stats \in [keys -> Int]
    BY <2>1, ReportIsRow DEF Report
  <2>3. \E ks \in SUBSET Stats : new \in [ks -> Int]
    <3>1. CASE doc = NoRow
      BY <2>2, <3>1
    <3>2. CASE doc # NoRow
      <4>1. PICK old \in SUBSET Stats : doc \in [old -> Int]
        BY <2>1, <3>2 DEF TypeOK, IsRow, Report
      <4>2. Update(doc, report.stats) \in [old \cup keys -> Int]
        BY <2>2, <4>1, UpdateType
      <4>3. QED
        BY <3>2, <4>2
    <3>3. QED
      BY <3>1, <3>2
  <2>4. IsRequest([pc |-> "save", report |-> report, doc |-> new])
    BY <2>1, <2>3 DEF IsRequest
  <2>5. handling' = [handling EXCEPT ![h] =
                        [pc |-> "save", report |-> report, doc |-> new]]
    BY <1>4 DEF Find
  <2>6. overlapped' \subseteq Rows
    <3>1. report.row \in Rows
      BY <2>1 DEF Report
    <3>2. QED
      BY <1>4, <3>1 DEF Find, Overlaps, TypeOK
  <2> HIDE DEF new, report, doc
  <2>7. QED
    BY <1>4, <2>4, <2>5, <2>6 DEF Find, TypeOK
<1>5. ASSUME NEW h \in Handlers, Save(h)
      PROVE  TypeOK'
  <2>1. PICK keys \in SUBSET Stats :
            handling[h] \in [pc : {"save"}, report : Report, doc : [keys -> Int]]
    BY <1>5 DEF Save, TypeOK, IsRequest, Idle
  <2> DEFINE report == handling[h].report
  <2>2. report \in Report /\ IsRow(handling[h].doc)
    BY <2>1 DEF IsRow
  <2>3. \A row \in Rows : rows'[row] = NoRow \/ IsRow(rows'[row])
    BY <1>5, <2>2 DEF Save, TypeOK
  <2>4. applied' \in [Rows -> Seq(Report)]
    <3>1. applied[report.row] \in Seq(Report) /\ report.row \in Rows
      BY <2>2 DEF TypeOK, Report
    <3>2. Append(applied[report.row], report) \in Seq(Report)
      BY <2>2, <3>1
    <3>3. applied' = [applied EXCEPT ![report.row] = Append(@, report)]
      BY <1>5 DEF Save
    <3> HIDE DEF report
    <3>4. QED
      BY <3>1, <3>2, <3>3 DEF TypeOK
  <2>5. QED
    BY <1>5, <2>3, <2>4, IdleType DEF Save, TypeOK
<1>6. ASSUME NEW h \in Handlers, Fail(h)
      PROVE  TypeOK'
  BY <1>6, IdleType, LeaderboardsAssumption DEF Fail, TypeOK
<1>7. CASE UNCHANGED vars
  BY <1>7 DEF vars, TypeOK, IsRequest
<1>8. QED
  BY <1>1, <1>2, <1>3, <1>4, <1>5, <1>6, <1>7 DEF Next, Report

(* The state of the ledger, the rows and the handlers has its type. *)
THEOREM TypeCorrect == Spec => []TypeOK
<1>1. Init => TypeOK
  BY LeaderboardsAssumption DEF Init, TypeOK, IsRequest
<1>2. QED
  BY <1>1, TypeInductive, PTL DEF Spec

-----------------------------------------------------------------------------
(* The ledger. *)

(* A busy handler applies a report. *)
LEMMA ApplyingType ==
    ASSUME TypeOK, NEW h \in Handlers, handling[h] # Idle
    PROVE  Applying(h) \in Report
BY DEF TypeOK, IsRequest, Applying

(* What a row's history holds are reports, and the ones of an arbitrated row
   carry stats that no absent claim could be mistaken for. *)
LEMMA HistoryType ==
    ASSUME TypeOK, NEW row \in Rows, NEW i \in DOMAIN applied[row]
    PROVE  /\ applied[row][i] \in Report
           /\ applied[row][i].stats # NoClaim
<1>1. applied[row] \in Seq(Report)
  BY DEF TypeOK
<1>2. applied[row][i] \in Report
  BY <1>1
<1>3. QED
  BY <1>2, LeaderboardsAssumption DEF Report

(* The first claim of a key: nobody applies a report for it, and none was. *)
LEMMA ClaimIsFresh ==
    ASSUME IInv, NEW h \in Handlers, NEW report \in Report, Claim(h, report)
    PROVE  /\ \A g \in Handlers : handling[g] # Idle => Key(Applying(g)) # Key(report)
           /\ \A i \in DOMAIN applied[report.row] :
                 applied[report.row][i].session # report.session
<1>1. claims[Key(report)] = NoClaim /\ report.row \in ArbitratedRows
  BY DEF Claim, Arbitrated
<1>2. ASSUME NEW g \in Handlers, handling[g] # Idle
      PROVE  Key(Applying(g)) # Key(report)
  <2>1. Applying(g) \in Report
    BY <1>2, ApplyingType DEF IInv
  <2>2. Applying(g).stats # NoClaim
    BY <2>1, LeaderboardsAssumption DEF Report
  <2>3. Arbitrated(Applying(g)) => claims[Key(Applying(g))] = Applying(g).stats
    BY <1>2 DEF IInv, InFlightHoldsClaim
  <2>4. Key(Applying(g)) = Key(report) => Arbitrated(Applying(g))
    BY <1>1 DEF Key, Arbitrated
  <2>5. QED
    BY <1>1, <2>2, <2>3, <2>4
<1>3. ASSUME NEW i \in DOMAIN applied[report.row]
      PROVE  applied[report.row][i].session # report.session
  <2> DEFINE entry == applied[report.row][i]
  <2>1. report.row \in Rows
    BY DEF Report
  <2>2. entry.stats # NoClaim /\ entry.row = report.row
    BY <2>1, <1>3, HistoryType DEF IInv, HistoryByRow
  <2>3. claims[Key(entry)] = entry.stats
    BY <1>1, <1>3 DEF IInv, AppliedAsClaimed
  <2>4. entry.session = report.session => Key(entry) = Key(report)
    BY <2>2 DEF Key
  <2>5. QED
    BY <1>1, <2>2, <2>3, <2>4
<1>4. QED
  BY <1>2, <1>3

(* Claiming keeps the invariant: the new claim disturbs no other report. *)
LEMMA ClaimKeeps ==
    ASSUME IInv, NEW h \in Handlers, NEW report \in Report, Claim(h, report)
    PROVE  HistoryByRow' /\ InFlightHoldsClaim' /\ AppliedAtMostOnce' /\ AppliedAsClaimed'
<1>1. /\ \A g \in Handlers : handling[g] # Idle => Key(Applying(g)) # Key(report)
      /\ \A i \in DOMAIN applied[report.row] :
            applied[report.row][i].session # report.session
  BY ClaimIsFresh
<1>2. applied' = applied
  BY DEF Claim, Receive
<1>3. /\ handling[h] = Idle
      /\ handling' = [handling EXCEPT ![h] = [pc |-> "find", report |-> report]]
  BY DEF Claim, Receive
<1>4. DOMAIN handling = Handlers
  BY DEF IInv, TypeOK
<1>5. claims' = [claims EXCEPT ![Key(report)] = report.stats]
  BY DEF Claim
<1>6. Key(report) \in DOMAIN claims
  BY DEF IInv, TypeOK, Claim, Arbitrated, Key, Report
<1>7. /\ Applying(h)' = report
      /\ \A g \in Handlers \ {h} :
            handling'[g] = handling[g] /\ Applying(g)' = Applying(g)
  BY <1>3, <1>4 DEF Applying
<1>8. \A k \in Held \ {Key(report)} : claims'[k] = claims[k]
  BY <1>5 DEF IInv, TypeOK, Held
<1>9. claims'[Key(report)] = report.stats
  BY <1>5, <1>6
<1>10. HistoryByRow' /\ AppliedAtMostOnce'
  BY <1>2 DEF IInv, HistoryByRow, AppliedAtMostOnce
<1>11. AppliedAsClaimed'
  <2>1. ASSUME NEW row \in ArbitratedRows, NEW i \in DOMAIN applied[row]
        PROVE  claims'[Key(applied[row][i])] = applied[row][i].stats
    <3>1. Key(applied[row][i]) # Key(report)
      <4>1. row \in Rows
        BY LeaderboardsAssumption
      <4>2. applied[row][i].row = row
        BY <4>1 DEF IInv, HistoryByRow
      <4>3. QED
        BY <1>1, <4>2 DEF Key
    <3>2. Key(applied[row][i]) \in Held
      <4>1. row \in Rows
        BY LeaderboardsAssumption
      <4>2. applied[row][i] \in Report /\ applied[row][i].row = row
        BY <4>1, HistoryType DEF IInv, HistoryByRow
      <4>3. QED
        BY <4>2 DEF Key, Held, Report
    <3>3. QED
      BY <3>1, <3>2, <1>8 DEF IInv, AppliedAsClaimed
  <2>2. QED
    BY <2>1, <1>2 DEF AppliedAsClaimed
<1>12. InFlightHoldsClaim'
  <2>1. ASSUME NEW g \in Handlers, handling'[g] # Idle, Arbitrated(Applying(g)')
        PROVE  /\ claims'[Key(Applying(g)')] = Applying(g)'.stats
               /\ \A f \in Handlers :
                     handling'[f] # Idle /\ Key(Applying(f)') = Key(Applying(g)')
                        => f = g
               /\ \A i \in DOMAIN applied[Applying(g)'.row] :
                     applied[Applying(g)'.row][i].session # Applying(g)'.session
    <3>1. CASE g = h
      BY <3>1, <1>1, <1>7, <1>9
    <3>2. CASE g # h
      <4>1. handling[g] # Idle /\ Applying(g)' = Applying(g)
        BY <2>1, <3>2, <1>7
      <4>2. Key(Applying(g)) # Key(report)
        BY <4>1, <1>1
      <4>3. claims'[Key(Applying(g))] = Applying(g).stats
        <5>1. Key(Applying(g)) \in Held
          BY <2>1, <4>1, ApplyingType DEF IInv, Arbitrated, Key, Held, Report
        <5>2. QED
          BY <2>1, <4>1, <4>2, <5>1, <1>8 DEF IInv, InFlightHoldsClaim
      <4>4. ASSUME NEW f \in Handlers, handling'[f] # Idle,
                   Key(Applying(f)') = Key(Applying(g))
            PROVE  f = g
        <5>1. f # h
          BY <4>2, <4>4, <1>7
        <5>2. QED
          BY <2>1, <4>1, <4>4, <5>1, <1>7 DEF IInv, InFlightHoldsClaim
      <4>5. QED
        BY <2>1, <4>1, <4>3, <4>4 DEF IInv, InFlightHoldsClaim
    <3>3. QED
      BY <3>1, <3>2
  <2>2. QED
    BY <2>1, <1>2 DEF InFlightHoldsClaim, Applying, Key, Arbitrated
<1>13. QED
  BY <1>10, <1>11, <1>12

(* A handler that goes on with its report, or drops it, keeps the invariant. *)
LEMMA QuietKeeps ==
    ASSUME IInv, NEW h \in Handlers,
           UNCHANGED <<claims, applied>>, DOMAIN handling' = Handlers,
           \A g \in Handlers \ {h} : handling'[g] = handling[g],
           \/ handling'[h] = Idle
           \/ handling[h] # Idle /\ handling'[h].report = handling[h].report
    PROVE  HistoryByRow' /\ InFlightHoldsClaim' /\ AppliedAtMostOnce' /\ AppliedAsClaimed'
<1>1. HistoryByRow' /\ AppliedAtMostOnce' /\ AppliedAsClaimed'
  BY DEF IInv, HistoryByRow, AppliedAtMostOnce, AppliedAsClaimed
<1>2. \A g \in Handlers : handling'[g] # Idle =>
          handling[g] # Idle /\ Applying(g)' = Applying(g)
  BY DEF Applying
<1>3. InFlightHoldsClaim'
  BY <1>2 DEF IInv, InFlightHoldsClaim, Arbitrated
<1>4. QED
  BY <1>1, <1>3

(* Receiving a report for a view that is not arbitrated. *)
LEMMA AcceptKeeps ==
    ASSUME IInv, NEW h \in Handlers, NEW report \in Report, Accept(h, report)
    PROVE  HistoryByRow' /\ InFlightHoldsClaim' /\ AppliedAtMostOnce' /\ AppliedAsClaimed'
<1>1. /\ UNCHANGED <<claims, applied>> /\ ~Arbitrated(report)
      /\ handling' = [handling EXCEPT ![h] = [pc |-> "find", report |-> report]]
  BY DEF Accept, Receive
<1>2. HistoryByRow' /\ AppliedAtMostOnce' /\ AppliedAsClaimed'
  BY <1>1 DEF IInv, HistoryByRow, AppliedAtMostOnce, AppliedAsClaimed
<1>3. /\ Applying(h)' = report
      /\ \A g \in Handlers \ {h} :
            handling'[g] = handling[g] /\ Applying(g)' = Applying(g)
  BY <1>1 DEF IInv, TypeOK, Applying
<1>4. ASSUME NEW g \in Handlers, handling'[g] # Idle, Arbitrated(Applying(g)')
      PROVE  /\ claims'[Key(Applying(g)')] = Applying(g)'.stats
             /\ \A f \in Handlers :
                   handling'[f] # Idle /\ Key(Applying(f)') = Key(Applying(g)')
                      => f = g
             /\ \A i \in DOMAIN applied[Applying(g)'.row] :
                   applied[Applying(g)'.row][i].session # Applying(g)'.session
  <2>1. g # h /\ handling[g] # Idle /\ Applying(g)' = Applying(g)
    BY <1>1, <1>3, <1>4
  <2>2. Key(report) # Key(Applying(g))
    BY <1>1, <1>4, <2>1 DEF Key, Arbitrated
  <2>3. QED
    BY <1>1, <1>3, <1>4, <2>1, <2>2 DEF IInv, InFlightHoldsClaim
<1>5. InFlightHoldsClaim'
  BY <1>1, <1>4 DEF InFlightHoldsClaim, Applying, Key, Arbitrated
<1>6. QED
  BY <1>2, <1>5

(* Saving a report: its session is new in the history of its row, and no other
   handler is applying a report for the same key. *)
LEMMA SaveKeeps ==
    ASSUME IInv, NEW h \in Handlers, Save(h)
    PROVE  HistoryByRow' /\ InFlightHoldsClaim' /\ AppliedAtMostOnce' /\ AppliedAsClaimed'
<1> DEFINE report == Applying(h)
           before == applied[report.row]
<1>1. handling[h] # Idle
  BY DEF Save, Idle
<1>2. report \in Report /\ report.row \in Rows
  BY <1>1, ApplyingType DEF IInv, Report
<1>3. before \in Seq(Report)
  BY <1>2 DEF IInv, TypeOK
<1>4. /\ UNCHANGED claims
      /\ handling' = [handling EXCEPT ![h] = Idle]
      /\ applied' = [applied EXCEPT ![report.row] = Append(@, report)]
  BY DEF Save, Applying
<1>5. \A row \in Rows \ {report.row} : applied'[row] = applied[row]
  BY <1>4 DEF IInv, TypeOK
<1>6. applied'[report.row] = Append(before, report)
  BY <1>2, <1>4 DEF IInv, TypeOK
<1>7. /\ DOMAIN Append(before, report) = DOMAIN before \cup {Len(before) + 1}
      /\ \A i \in DOMAIN before : Append(before, report)[i] = before[i]
      /\ Append(before, report)[Len(before) + 1] = report
  BY <1>2, <1>3
<1>8. Arbitrated(report) =>
        /\ claims[Key(report)] = report.stats
        /\ \A g \in Handlers :
              handling[g] # Idle /\ Key(Applying(g)) = Key(report) => g = h
        /\ \A i \in DOMAIN before : before[i].session # report.session
  BY <1>1 DEF IInv, InFlightHoldsClaim
<1> HIDE DEF report, before
<1>9. HistoryByRow'
  <2>1. ASSUME NEW row \in Rows, NEW i \in DOMAIN applied'[row]
        PROVE  applied'[row][i].row = row
    <3>1. CASE row = report.row
      BY <2>1, <3>1, <1>2, <1>6, <1>7 DEF IInv, HistoryByRow, before
    <3>2. CASE row # report.row
      BY <2>1, <3>2, <1>5 DEF IInv, HistoryByRow
    <3>3. QED
      BY <3>1, <3>2
  <2>2. QED
    BY <2>1 DEF HistoryByRow
<1>10. AppliedAtMostOnce'
  <2>1. ASSUME NEW row \in ArbitratedRows,
               NEW i \in DOMAIN applied'[row], NEW j \in DOMAIN applied'[row],
               applied'[row][i].session = applied'[row][j].session
        PROVE  i = j
    <3>1. row \in Rows
      BY LeaderboardsAssumption
    <3>2. CASE row = report.row
      <4>1. \A k, l \in DOMAIN before : before[k].session = before[l].session => k = l
        BY <3>2 DEF IInv, AppliedAtMostOnce, before
      <4>2. \A k \in DOMAIN before : before[k].session # report.session
        BY <3>2, <1>8 DEF Arbitrated
      <4>3. QED
        BY <2>1, <3>2, <4>1, <4>2, <1>6, <1>7
    <3>3. CASE row # report.row
      BY <2>1, <3>1, <3>3, <1>5 DEF IInv, AppliedAtMostOnce
    <3>4. QED
      BY <3>2, <3>3
  <2>2. QED
    BY <2>1 DEF AppliedAtMostOnce
<1>11. AppliedAsClaimed'
  <2>1. ASSUME NEW row \in ArbitratedRows, NEW i \in DOMAIN applied'[row]
        PROVE  claims[Key(applied'[row][i])] = applied'[row][i].stats
    <3>1. row \in Rows
      BY LeaderboardsAssumption
    <3>2. CASE row = report.row
      <4>1. \A k \in DOMAIN before : claims[Key(before[k])] = before[k].stats
        BY <3>2 DEF IInv, AppliedAsClaimed, before
      <4>2. claims[Key(report)] = report.stats
        BY <3>2, <1>8 DEF Arbitrated
      <4>3. QED
        BY <2>1, <3>2, <4>1, <4>2, <1>6, <1>7
    <3>3. CASE row # report.row
      BY <2>1, <3>1, <3>3, <1>5 DEF IInv, AppliedAsClaimed
    <3>4. QED
      BY <3>2, <3>3
  <2>2. QED
    BY <2>1, <1>4 DEF AppliedAsClaimed
<1>12. InFlightHoldsClaim'
  <2>1. \A g \in Handlers : handling'[g] # Idle =>
            g # h /\ handling[g] # Idle /\ Applying(g)' = Applying(g)
    BY <1>4 DEF IInv, TypeOK, Applying
  <2>2. ASSUME NEW g \in Handlers, handling'[g] # Idle, Arbitrated(Applying(g)),
               NEW i \in DOMAIN applied'[Applying(g).row]
        PROVE  applied'[Applying(g).row][i].session # Applying(g).session
    <3>1. g # h /\ handling[g] # Idle
      BY <2>1, <2>2
    <3>2. Applying(g) \in Report /\ Applying(g).row \in Rows
      BY <3>1, ApplyingType DEF IInv, Report
    <3>3. \A k \in DOMAIN applied[Applying(g).row] :
              applied[Applying(g).row][k].session # Applying(g).session
      BY <2>2, <3>1 DEF IInv, InFlightHoldsClaim
    <3>4. CASE Applying(g).row = report.row
      <4>1. Arbitrated(report)
        BY <2>2, <3>4 DEF Arbitrated
      <4>2. report.session # Applying(g).session
        BY <3>1, <3>4, <4>1, <1>8 DEF Key
      <4>3. QED
        BY <2>2, <3>3, <3>4, <4>2, <1>6, <1>7 DEF before
    <3>5. CASE Applying(g).row # report.row
      BY <2>2, <3>2, <3>3, <3>5, <1>5
    <3>6. QED
      BY <3>4, <3>5
  <2>3. QED
    BY <2>1, <2>2, <1>4 DEF IInv, InFlightHoldsClaim, Arbitrated
<1>13. QED
  BY <1>9, <1>10, <1>11, <1>12

(* Every step of every handler keeps the inductive invariant. *)
LEMMA LedgerInductive == IInv /\ [Next]_vars => IInv'
<1> SUFFICES ASSUME IInv, [Next]_vars
             PROVE  IInv'
  OBVIOUS
<1>1. TypeOK'
  BY TypeInductive DEF IInv
<1> DEFINE Kept == HistoryByRow' /\ InFlightHoldsClaim' /\ AppliedAtMostOnce' /\ AppliedAsClaimed'
<1>2. ASSUME NEW h \in Handlers, NEW report \in Report, Claim(h, report)
      PROVE  Kept
  BY <1>2, ClaimKeeps
<1>3. ASSUME NEW h \in Handlers, NEW report \in Report, Duplicate(h, report)
      PROVE  Kept
  BY <1>3, QuietKeeps DEF Duplicate, IInv, TypeOK
<1>4. ASSUME NEW h \in Handlers, NEW report \in Report, Accept(h, report)
      PROVE  Kept
  BY <1>4, AcceptKeeps
<1>5. ASSUME NEW h \in Handlers, Find(h)
      PROVE  Kept
  <2>1. DOMAIN handling = Handlers /\ handling[h] # Idle
    BY <1>5 DEF Find, Idle, IInv, TypeOK
  <2>2. /\ UNCHANGED <<claims, applied>> /\ DOMAIN handling' = Handlers
        /\ handling'[h].report = handling[h].report
        /\ \A g \in Handlers \ {h} : handling'[g] = handling[g]
    BY <1>5, <2>1 DEF Find
  <2>3. QED
    BY <2>1, <2>2, QuietKeeps
<1>6. ASSUME NEW h \in Handlers, Save(h)
      PROVE  Kept
  BY <1>6, SaveKeeps
<1>7. ASSUME NEW h \in Handlers, Fail(h)
      PROVE  Kept
  <2>1. /\ UNCHANGED <<claims, applied>> /\ DOMAIN handling' = Handlers
        /\ handling'[h] = Idle
        /\ \A g \in Handlers \ {h} : handling'[g] = handling[g]
    BY <1>7 DEF Fail, IInv, TypeOK
  <2>2. QED
    BY <2>1, QuietKeeps
<1>8. ASSUME UNCHANGED vars
      PROVE  Kept
  <2>1. UNCHANGED <<claims, handling, applied>>
    BY <1>8 DEF vars
  <2>2. HistoryByRow' /\ AppliedAtMostOnce' /\ AppliedAsClaimed'
    BY <2>1 DEF IInv, HistoryByRow, AppliedAtMostOnce, AppliedAsClaimed
  <2>3. InFlightHoldsClaim'
    BY <2>1 DEF IInv, InFlightHoldsClaim, Applying
  <2>4. QED
    BY <2>2, <2>3
<1> HIDE DEF Kept
<1>9. Kept
  <2>1. CASE Next
    <3>1. PICK h \in Handlers :
             \/ \E report \in Report :
                   Claim(h, report) \/ Duplicate(h, report) \/ Accept(h, report)
             \/ Find(h) \/ Save(h) \/ Fail(h)
      BY <2>1 DEF Next, Report
    <3>2. QED
      BY <3>1, <1>2, <1>3, <1>4, <1>5, <1>6, <1>7
  <2>2. QED
    BY <2>1, <1>8
<1>10. QED
  BY <1>1, <1>9 DEF IInv, Kept

LEMMA LedgerAlways == Spec => []IInv
<1>1. Init => TypeOK
  BY LeaderboardsAssumption DEF Init, TypeOK, IsRequest
<1>2. Init => IInv
  BY <1>1, LeaderboardsAssumption
     DEF Init, IInv, HistoryByRow, InFlightHoldsClaim, AppliedAtMostOnce, AppliedAsClaimed
<1>3. QED
  BY <1>2, LedgerInductive, PTL DEF Spec

(* No arbitrated result is applied twice, for any interleaving of any number of
   consoles' reports and any failures. *)
THEOREM FirstReportOnly == Spec => []AppliedAtMostOnce
BY LedgerAlways, PTL DEF IInv

(* What was applied for a session is what the ledger holds for it. *)
THEOREM LedgerIsTrue == Spec => []AppliedAsClaimed
BY LedgerAlways, PTL DEF IInv

-----------------------------------------------------------------------------
(* No result is lost but by a failure. *)

LostInv == IsFiniteSet(LostClaims) /\ Cardinality(LostClaims) <= faults

(* Losing no other claim keeps the bound. *)
LEMMA NoMoreLost ==
    ASSUME TypeOK, LostInv, LostClaims' \subseteq LostClaims, faults' = faults
    PROVE  LostInv'
<1>1. /\ IsFiniteSet(LostClaims') /\ Cardinality(LostClaims') <= Cardinality(LostClaims)
      /\ Cardinality(LostClaims') \in Nat /\ Cardinality(LostClaims) \in Nat
  BY FS_Subset, FS_CardinalityType DEF LostInv
<1>2. faults \in Nat
  BY LeaderboardsAssumption DEF TypeOK
<1>3. QED
  BY <1>1, <1>2 DEF LostInv

(* A handler that takes, keeps or drops no claimed report loses none. *)
LEMMA ReceiveLosesNone ==
    ASSUME TypeOK, NEW h \in Handlers, NEW report \in Report, Receive(h, report),
           \A key \in Held \ {Key(report)} : claims'[key] = claims[key]
    PROVE  LostClaims' \subseteq LostClaims
<1>1. /\ handling[h] = Idle /\ applied' = applied
      /\ handling' = [handling EXCEPT ![h] = [pc |-> "find", report |-> report]]
      /\ DOMAIN handling = Handlers
  BY DEF Receive, TypeOK
<1>2. /\ handling'[h] # Idle /\ handling'[h].report = report
      /\ \A g \in Handlers \ {h} : handling'[g] = handling[g]
  BY <1>1 DEF Idle
<1>3. ASSUME NEW key \in LostClaims'
      PROVE  key \in LostClaims
  <2>1. key # Key(report)
    BY <1>2 DEF LostClaims
  <2>2. key \in Held
    BY DEF LostClaims, Held
  <2>3. \A g \in Handlers : handling[g] # Idle => Key(handling[g].report) # key
    BY <1>1, <1>2 DEF LostClaims
  <2>4. QED
    BY <1>1, <2>1, <2>2, <2>3 DEF LostClaims
<1>4. QED
  BY <1>3

LEMMA SaveLosesNone ==
    ASSUME TypeOK, NEW h \in Handlers, Save(h)
    PROVE  LostClaims' \subseteq LostClaims
<1> DEFINE report == handling[h].report
<1>1. handling[h] # Idle /\ report \in Report
  BY ApplyingType DEF Save, Idle, Applying
<1>2. /\ UNCHANGED claims
      /\ handling' = [handling EXCEPT ![h] = Idle]
      /\ applied' = [applied EXCEPT ![report.row] = Append(@, report)]
      /\ DOMAIN handling = Handlers
  BY DEF Save, TypeOK
<1>3. applied[report.row] \in Seq(Report) /\ report.row \in Rows
  BY <1>1 DEF TypeOK, Report
<1>4. /\ applied'[report.row] = Append(applied[report.row], report)
      /\ \A row \in Rows \ {report.row} : applied'[row] = applied[row]
  BY <1>2, <1>3 DEF TypeOK
<1> HIDE DEF report
<1>5. /\ \A i \in DOMAIN applied[report.row] :
            /\ i \in DOMAIN applied'[report.row]
            /\ applied'[report.row][i] = applied[report.row][i]
      /\ \E i \in DOMAIN applied'[report.row] : applied'[report.row][i] = report
  <2>1. Len(applied[report.row]) + 1 \in DOMAIN applied'[report.row]
    BY <1>1, <1>3, <1>4
  <2>2. applied'[report.row][Len(applied[report.row]) + 1] = report
    BY <1>1, <1>3, <1>4
  <2>3. QED
    BY <1>1, <1>3, <1>4, <2>1, <2>2
<1>6. ASSUME NEW key \in LostClaims'
      PROVE  key \in LostClaims
  <2>1. /\ key \in Held /\ key[2] \in Rows /\ key = <<key[1], key[2]>>
        /\ claims[key] # NoClaim
        /\ \A g \in Handlers \ {h} : handling[g] # Idle => Key(handling[g].report) # key
        /\ \A i \in DOMAIN applied'[key[2]] : applied'[key[2]][i].session # key[1]
    BY <1>2, LeaderboardsAssumption DEF LostClaims, Held
  <2>2. \A i \in DOMAIN applied[key[2]] : applied[key[2]][i].session # key[1]
    BY <1>4, <1>5, <2>1
  <2>3. Key(report) # key
    BY <1>5, <2>1 DEF Key
  <2>4. QED
    BY <2>1, <2>2, <2>3 DEF LostClaims, Held, report
<1>7. QED
  BY <1>6

(* A failure loses at most the claim of the report that was being applied. *)
LEMMA FailLosesOne ==
    ASSUME TypeOK, LostInv, NEW h \in Handlers, Fail(h)
    PROVE  LostInv'
<1> DEFINE key == Key(handling[h].report)
           most == LostClaims \cup {key}
<1>1. LostClaims' \subseteq most
  BY DEF Fail, LostClaims, TypeOK
<1>2. IsFiniteSet(most) /\ Cardinality(most) <= Cardinality(LostClaims) + 1
  BY FS_AddElement, FS_CardinalityType DEF LostInv
<1>3. /\ IsFiniteSet(LostClaims') /\ Cardinality(LostClaims') <= Cardinality(most)
      /\ Cardinality(LostClaims') \in Nat /\ Cardinality(most) \in Nat
      /\ Cardinality(LostClaims) \in Nat
  BY <1>1, <1>2, FS_Subset, FS_CardinalityType DEF LostInv
<1>4. faults \in Nat /\ faults' = faults + 1
  BY LeaderboardsAssumption DEF Fail, TypeOK
<1>5. QED
  BY <1>2, <1>3, <1>4 DEF LostInv

LEMMA LostInductive == TypeOK /\ LostInv /\ [Next]_vars => LostInv'
<1> SUFFICES ASSUME TypeOK, LostInv, [Next]_vars PROVE LostInv'
  OBVIOUS
<1>1. ASSUME NEW h \in Handlers, NEW report \in Report, Claim(h, report)
      PROVE  LostInv'
  <2>1. \A key \in Held \ {Key(report)} : claims'[key] = claims[key]
    BY <1>1 DEF Claim, TypeOK, Held
  <2>2. LostClaims' \subseteq LostClaims /\ faults' = faults
    BY <1>1, <2>1, ReceiveLosesNone DEF Claim, Receive
  <2>3. QED
    BY <2>2, NoMoreLost
<1>2. ASSUME NEW h \in Handlers, NEW report \in Report, Accept(h, report)
      PROVE  LostInv'
  <2>1. LostClaims' \subseteq LostClaims /\ faults' = faults
    BY <1>2, ReceiveLosesNone DEF Accept, Receive
  <2>2. QED
    BY <2>1, NoMoreLost
<1>3. ASSUME NEW h \in Handlers, NEW report \in Report, Duplicate(h, report)
      PROVE  LostInv'
  <2>1. LostClaims' = LostClaims /\ faults' = faults
    BY <1>3 DEF Duplicate, LostClaims
  <2>2. QED
    BY <2>1, NoMoreLost
<1>4. ASSUME NEW h \in Handlers, Find(h)
      PROVE  LostInv'
  <2>1. handling[h] # Idle /\ DOMAIN handling = Handlers
    BY <1>4 DEF Find, Idle, TypeOK
  <2>2. /\ UNCHANGED <<claims, applied, faults>>
        /\ handling'[h] # Idle /\ handling'[h].report = handling[h].report
        /\ \A g \in Handlers \ {h} : handling'[g] = handling[g]
    BY <1>4, <2>1 DEF Find, Idle
  <2>3. LostClaims' \subseteq LostClaims
    BY <2>1, <2>2 DEF LostClaims
  <2>4. QED
    BY <2>2, <2>3, NoMoreLost
<1>5. ASSUME NEW h \in Handlers, Save(h)
      PROVE  LostInv'
  BY <1>5, SaveLosesNone, NoMoreLost DEF Save
<1>6. ASSUME NEW h \in Handlers, Fail(h)
      PROVE  LostInv'
  BY <1>6, FailLosesOne
<1>7. ASSUME UNCHANGED vars
      PROVE  LostInv'
  BY <1>7 DEF vars, LostInv, LostClaims
<1>8. QED
  BY <1>1, <1>2, <1>3, <1>4, <1>5, <1>6, <1>7 DEF Next, Report

(* A claimed result is saved to its row unless the handler that claimed it    *)
(* failed: no interleaving of the consoles' reports loses one.                *)
THEOREM ClaimsAreApplied == Spec => []ClaimedIsApplied
<1>1. Init => LostInv
  <2> SUFFICES ASSUME Init PROVE LostInv
    OBVIOUS
  <2>1. LostClaims = {}
    BY DEF Init, LostClaims
  <2>2. QED
    BY <2>1, FS_EmptySet DEF Init, LostInv
<1>2. LostInv => ClaimedIsApplied
  BY DEF LostInv, ClaimedIsApplied
<1>3. QED
  BY <1>1, <1>2, LostInductive, TypeCorrect, PTL DEF Spec

-----------------------------------------------------------------------------
(* Rows as aggregates of the reports applied to them.                       *)

(* The values that a list of reports carries for a stat, as a list of the same
   length. *)
LEMMA ValuesType ==
    ASSUME NEW stat, NEW reports \in Seq(Report)
    PROVE  /\ ValuesFor(stat, reports) \in Seq(Int)
           /\ Len(ValuesFor(stat, reports)) = Len(reports)
           /\ Carrying(stat, reports) \subseteq 1 .. Len(reports)
           /\ \A i \in Carrying(stat, reports) :
                 ValuesFor(stat, reports)[i] = reports[i].stats[stat]
<1>1. ASSUME NEW i \in Carrying(stat, reports) PROVE reports[i].stats[stat] \in Int
  <2>1. i \in DOMAIN reports /\ stat \in DOMAIN reports[i].stats
    BY DEF Carrying
  <2>2. reports[i] \in Report
    BY <2>1
  <2>3. PICK keys \in SUBSET Stats : reports[i].stats \in [keys -> Int]
    BY <2>2, ReportIsRow DEF Report
  <2>4. QED
    BY <2>1, <2>3
<1>2. DOMAIN reports = 1 .. Len(reports) /\ Len(reports) \in Nat
  OBVIOUS
<1>3. ValuesFor(stat, reports) \in [1 .. Len(reports) -> Int]
  BY <1>1, <1>2 DEF ValuesFor
<1>4. ValuesFor(stat, reports) \in Seq(Int) /\ Len(ValuesFor(stat, reports)) = Len(reports)
  BY <1>2, <1>3
<1>5. QED
  BY <1>2, <1>4 DEF Carrying, ValuesFor

(* One more report adds one more value, and one more place when it carries the
   stat. *)
LEMMA ValuesAppend ==
    ASSUME NEW stat, NEW reports \in Seq(Report), NEW report \in Report
    PROVE  /\ stat \in DOMAIN report.stats =>
                 /\ report.stats[stat] \in Int
                 /\ ValuesFor(stat, Append(reports, report))
                       = Append(ValuesFor(stat, reports), report.stats[stat])
                 /\ Carrying(stat, Append(reports, report))
                       = Carrying(stat, reports) \cup {Len(reports) + 1}
           /\ stat \notin DOMAIN report.stats =>
                 /\ ValuesFor(stat, Append(reports, report))
                       = Append(ValuesFor(stat, reports), 0)
                 /\ Carrying(stat, Append(reports, report)) = Carrying(stat, reports)
<1> DEFINE longer == Append(reports, report)
           n == Len(reports)
           old == ValuesFor(stat, reports)
           new == ValuesFor(stat, longer)
           value == IF stat \in DOMAIN report.stats THEN report.stats[stat] ELSE 0
<1>1. /\ longer \in Seq(Report) /\ n \in Nat /\ Len(longer) = n + 1
      /\ longer[n + 1] = report /\ \A i \in 1 .. n : longer[i] = reports[i]
      /\ DOMAIN reports = 1 .. n /\ DOMAIN longer = 1 .. n + 1
  OBVIOUS
<1> HIDE DEF longer
<1>2. /\ \A i \in 1 .. n : i \in Carrying(stat, longer) <=> i \in Carrying(stat, reports)
      /\ n + 1 \in Carrying(stat, longer) <=> stat \in DOMAIN report.stats
  BY <1>1 DEF Carrying
<1>3. Carrying(stat, longer) \subseteq 1 .. n + 1 /\ Carrying(stat, reports) \subseteq 1 .. n
  BY <1>1 DEF Carrying
<1>4. /\ old \in Seq(Int) /\ Len(old) = n /\ new \in Seq(Int) /\ Len(new) = n + 1
  BY <1>1, ValuesType
<1>5. /\ \A i \in 1 .. n : new[i] = old[i]
      /\ new[n + 1] = value
  BY <1>1, <1>2 DEF ValuesFor
<1>6. value \in Int
  <2>1. n + 1 \in 1 .. n + 1
    BY <1>1
  <2>2. QED
    BY <1>4, <1>5, <2>1
<1> HIDE DEF old, new, value, n
<1>7. new = Append(old, value)
  <2> DEFINE grown == Append(old, value)
  <2>1. grown \in Seq(Int) /\ Len(grown) = n + 1 /\ grown[n + 1] = value
        /\ \A i \in 1 .. n : grown[i] = old[i]
    BY <1>4, <1>6
  <2> HIDE DEF grown
  <2>2. \A i \in 1 .. n + 1 : new[i] = grown[i]
    BY <1>1, <1>5, <2>1
  <2>3. new = grown
    BY <1>4, <2>1, <2>2, SeqEqual
  <2>4. QED
    BY <2>3 DEF grown
<1>8. /\ stat \in DOMAIN report.stats => Carrying(stat, longer) = Carrying(stat, reports) \cup {n + 1}
      /\ stat \notin DOMAIN report.stats => Carrying(stat, longer) = Carrying(stat, reports)
  <2> DEFINE olds == Carrying(stat, reports)
             news == Carrying(stat, longer)
  <2>1. /\ news \subseteq 1 .. n + 1 /\ olds \subseteq 1 .. n /\ n \in Nat
        /\ \A i \in 1 .. n : i \in news <=> i \in olds
        /\ n + 1 \in news <=> stat \in DOMAIN report.stats
        /\ \A i \in 1 .. n + 1 : i \in 1 .. n \/ i = n + 1
    BY <1>1, <1>2, <1>3 DEF n
  <2> HIDE DEF olds, news
  <2>2. stat \in DOMAIN report.stats => news = olds \cup {n + 1}
    BY <2>1
  <2>3. stat \notin DOMAIN report.stats => news = olds
    BY <2>1
  <2>4. QED
    BY <2>2, <2>3 DEF olds, news
<1>9. QED
  BY <1>6, <1>7, <1>8 DEF longer, n, old, new, value

(* A report without the stat leaves what it should be. *)
LEMMA StoredWithout ==
    ASSUME NEW stat \in Stats, NEW reports \in Seq(Report), NEW report \in Report,
           NEW old \in Int, IsStored(old, stat, reports),
           stat \notin DOMAIN report.stats
    PROVE  IsStored(old, stat, Append(reports, report))
<1> DEFINE values == ValuesFor(stat, reports)
           longer == Append(values, 0)
           places == Carrying(stat, reports)
<1>1. /\ ValuesFor(stat, Append(reports, report)) = longer
      /\ Carrying(stat, Append(reports, report)) = places
  BY ValuesAppend
<1>2. values \in Seq(Int) /\ Len(values) = Len(reports) /\ places \subseteq 1 .. Len(values)
  BY ValuesType
<1>3. Total(longer) = Total(values) /\ Total(values) \in Int
  <2> DEFINE zero == 0
  <2>1. zero \in Int /\ zero = 0
    OBVIOUS
  <2> HIDE DEF zero
  <2>2. Total(values) \in Int /\ Total(Append(values, zero)) = Total(values) + zero
    BY <1>2, <2>1, TotalAppend
  <2>3. QED
    BY <2>1, <2>2
<1>4. \A i \in places : longer[i] = values[i]
  BY <1>2
<1>5. Method[stat] \in {"sum", "set", "min", "max"}
  BY LeaderboardsAssumption
<1>6. CASE Method[stat] = "sum"
  <2>1. PICK first \in places :
          /\ \A i \in places : first <= i
          /\ old = Total(values) + IF first = 1 THEN 0 ELSE values[first]
    BY <1>6 DEF IsStored
  <2>2. old = Total(longer) + IF first = 1 THEN 0 ELSE longer[first]
    BY <1>3, <1>4, <2>1
  <2> HIDE DEF values, longer, places
  <2>3. QED
    BY <1>1, <1>6, <2>1, <2>2 DEF IsStored
<1>7. CASE Method[stat] = "set"
  BY <1>1, <1>4, <1>7 DEF IsAggregate, IsStored
<1>8. CASE Method[stat] = "min"
  BY <1>1, <1>4, <1>8 DEF IsAggregate, IsStored
<1>9. CASE Method[stat] = "max"
  BY <1>1, <1>4, <1>9 DEF IsAggregate, IsStored
<1>10. QED
  BY <1>5, <1>6, <1>7, <1>8, <1>9

(* A report with the stat: combining the value it carries with the aggregate of
   the earlier ones gives the aggregate of all. *)
LEMMA StoredWith ==
    ASSUME NEW stat \in Stats, NEW reports \in Seq(Report), NEW report \in Report,
           NEW old \in Int, IsStored(old, stat, reports),
           stat \in DOMAIN report.stats
    PROVE  IsStored(Combine(Method[stat], old, report.stats[stat]), stat,
                    Append(reports, report))
<1> DEFINE values == ValuesFor(stat, reports)
           value == report.stats[stat]
           longer == Append(values, value)
           places == Carrying(stat, reports)
           last == Len(reports) + 1
           more == places \cup {last}
<1>1. /\ ValuesFor(stat, Append(reports, report)) = longer
      /\ Carrying(stat, Append(reports, report)) = more
      /\ value \in Int
  BY ValuesAppend
<1>2. /\ values \in Seq(Int) /\ Len(values) = Len(reports) /\ places \subseteq 1 .. Len(values)
      /\ Len(reports) \in Nat
  BY ValuesType
<1>3. Total(longer) = Total(values) + value /\ Total(values) \in Int
  BY <1>1, <1>2, TotalAppend
<1>4. /\ \A i \in places : longer[i] = values[i] /\ values[i] \in Int /\ i < last
      /\ longer[last] = value /\ last \in more /\ last \in Int
  BY <1>1, <1>2
<1>5. Method[stat] \in {"sum", "set", "min", "max"}
  BY LeaderboardsAssumption
<1>10. \A i \in more : i \in places \/ i = last
  OBVIOUS
<1> HIDE DEF values, value, longer, places, last, more
<1>6. CASE Method[stat] = "sum"
  <2>1. PICK first \in places :
          /\ \A i \in places : first <= i
          /\ old = Total(values) + IF first = 1 THEN 0 ELSE values[first]
    BY <1>6 DEF IsStored, values, places
  <2>2. first \in more /\ \A i \in more : first <= i
    BY <1>2, <1>4, <1>10, <2>1 DEF more
  <2>3. Combine(Method[stat], old, value)
          = Total(longer) + IF first = 1 THEN 0 ELSE longer[first]
    BY <1>1, <1>3, <1>4, <1>6, <2>1 DEF Combine
  <2>4. QED
    BY <1>1, <1>6, <2>2, <2>3 DEF IsStored, value
<1>7. CASE Method[stat] = "set"
  <2>1. Combine(Method[stat], old, value) = longer[last]
    BY <1>4, <1>7 DEF Combine
  <2>2. \A j \in more : j <= last
    BY <1>2, <1>4, <1>10
  <2>3. QED
    BY <1>1, <1>4, <1>7, <2>1, <2>2 DEF IsAggregate, IsStored, value
<1>8. CASE Method[stat] = "min"
  <2>1. PICK i \in places : old = values[i] /\ \A j \in places : old <= values[j]
    BY <1>8 DEF IsAggregate, IsStored, values, places
  <2> DEFINE new == Combine(Method[stat], old, value)
  <2>2. new = Lesser(value, old)
    BY <1>8 DEF Combine
  <2>3. /\ new = longer[i] \/ new = longer[last]
        /\ \A j \in more : new <= longer[j]
    BY <1>1, <1>4, <1>10, <2>1, <2>2 DEF Lesser
  <2>4. i \in more
    BY DEF more
  <2> HIDE DEF new
  <2>5. \E k \in more : new = longer[k] /\ \A j \in more : new <= longer[j]
    BY <1>4, <2>3, <2>4
  <2>6. QED
    BY <1>1, <1>8, <2>5 DEF IsAggregate, IsStored, value, new
<1>9. CASE Method[stat] = "max"
  <2>1. PICK i \in places : old = values[i] /\ \A j \in places : old >= values[j]
    BY <1>9 DEF IsAggregate, IsStored, values, places
  <2> DEFINE new == Combine(Method[stat], old, value)
  <2>2. new = Greater(value, old)
    BY <1>9 DEF Combine
  <2>3. /\ new = longer[i] \/ new = longer[last]
        /\ \A j \in more : new >= longer[j]
    BY <1>1, <1>4, <1>10, <2>1, <2>2 DEF Greater
  <2>4. i \in more
    BY DEF more
  <2> HIDE DEF new
  <2>5. \E k \in more : new = longer[k] /\ \A j \in more : new >= longer[j]
    BY <1>4, <2>3, <2>4
  <2>6. QED
    BY <1>1, <1>9, <2>5 DEF IsAggregate, IsStored, value, new
<1>11. QED
  BY <1>5, <1>6, <1>7, <1>8, <1>9

(* The first report that carries a stat gives it its value; a sum then adds it
   once more, unless the report makes the row. *)
LEMMA StoredFirst ==
    ASSUME NEW stat \in Stats, NEW reports \in Seq(Report), NEW report \in Report,
           Carrying(stat, reports) = {}, stat \in DOMAIN report.stats,
           Total(ValuesFor(stat, reports)) = 0
    PROVE  IsStored(IF Method[stat] = "sum" /\ reports # <<>>
                    THEN report.stats[stat] + report.stats[stat]
                    ELSE report.stats[stat],
                    stat, Append(reports, report))
<1> DEFINE values == ValuesFor(stat, reports)
           value == report.stats[stat]
           longer == Append(values, value)
           last == Len(reports) + 1
<1>1. /\ ValuesFor(stat, Append(reports, report)) = longer
      /\ Carrying(stat, Append(reports, report)) = {last}
      /\ value \in Int
  BY ValuesAppend
<1>2. /\ values \in Seq(Int) /\ Len(values) = Len(reports)
      /\ Len(reports) \in Nat /\ (reports = <<>> <=> last = 1)
  BY ValuesType
<1>3. longer[last] = value
  BY <1>1, <1>2
<1>4. Method[stat] \in {"sum", "set", "min", "max"}
  BY LeaderboardsAssumption
<1>5. Total(longer) = value
  <2> HIDE DEF values, value
  <2>1. Total(longer) = Total(values) + value
    BY <1>1, <1>2, TotalAppend
  <2>2. QED
    BY <1>1, <2>1 DEF values
<1>6. last \in {last} /\ value <= value /\ value >= value /\ last <= last
  BY <1>1, <1>2
<1> HIDE DEF values, value, longer, last
<1>7. CASE Method[stat] = "sum"
  <2> DEFINE stored == IF reports # <<>> THEN value + value ELSE value
  <2>1. stored = Total(longer) + IF last = 1 THEN 0 ELSE longer[last]
    BY <1>1, <1>2, <1>3, <1>5
  <2> HIDE DEF stored
  <2>2. IsStored(stored, stat, Append(reports, report))
    BY <1>1, <1>6, <1>7, <2>1 DEF IsStored
  <2>3. QED
    BY <1>7, <2>2 DEF stored, value
<1>8. CASE Method[stat] # "sum"
  <2>1. IsStored(value, stat, Append(reports, report))
    BY <1>1, <1>3, <1>4, <1>6, <1>8 DEF IsAggregate, IsStored
  <2>2. QED
    BY <1>8, <2>1 DEF value
<1>9. QED
  BY <1>7, <1>8

(* The values of a stat that no report carried add up to nothing. *)
LEMMA NothingAdded ==
    ASSUME NEW stat, NEW reports \in Seq(Report), NEW report \in Report,
           stat \notin DOMAIN report.stats, Total(ValuesFor(stat, reports)) = 0
    PROVE  Total(ValuesFor(stat, Append(reports, report))) = 0
<1> DEFINE values == ValuesFor(stat, reports)
           zero == 0
<1>1. values \in Seq(Int) /\ zero \in Int /\ zero = 0
      /\ ValuesFor(stat, Append(reports, report)) = Append(values, zero)
  BY ValuesType, ValuesAppend
<1> HIDE DEF values, zero
<1>2. Total(Append(values, zero)) = Total(values) + zero
  BY <1>1, TotalAppend
<1>3. QED
  BY <1>1, <1>2 DEF values

\* A row that a list of reports makes: the stats they carried, aggregated.
Aggregates(doc, reports) ==
    /\ IsRow(doc)
    /\ reports # <<>>
    /\ DOMAIN doc = Carried(reports)
    /\ \A stat \in DOMAIN doc : IsStored(doc[stat], stat, reports)
    /\ \A stat \in Stats \ DOMAIN doc : Total(ValuesFor(stat, reports)) = 0

(* The stats that a longer list of reports carries. *)
LEMMA CarriedAppend ==
    ASSUME NEW reports \in Seq(Report), NEW report \in Report
    PROVE  Carried(Append(reports, report)) = Carried(reports) \cup DOMAIN report.stats
<1> DEFINE longer == Append(reports, report)
           n == Len(reports)
<1>1. /\ n \in Nat /\ DOMAIN longer = 1 .. n + 1 /\ DOMAIN reports = 1 .. n
      /\ longer[n + 1] = report /\ \A i \in 1 .. n : longer[i] = reports[i]
  OBVIOUS
<1> HIDE DEF longer, n
<1>2. ToSet(longer) = ToSet(reports) \cup {report}
  <2>1. \A i \in 1 .. n + 1 : i \in 1 .. n \/ i = n + 1
    BY <1>1
  <2>2. n + 1 \in 1 .. n + 1 /\ 1 .. n \subseteq 1 .. n + 1
    BY <1>1
  <2>3. QED
    BY <1>1, <2>1, <2>2 DEF ToSet
<1>3. QED
  BY <1>2 DEF longer, Carried

(* The first report for a row is the row. *)
LEMMA FirstReportIsRow ==
    ASSUME NEW report \in Report, NEW reports, reports = <<>>
    PROVE  Aggregates(report.stats, Append(reports, report))
<1> DEFINE doc == report.stats
           longer == Append(reports, report)
<1>1. PICK keys \in SUBSET Stats : doc \in [keys -> Int]
  BY ReportIsRow DEF Report
<1>2. reports \in Seq(Report) /\ longer # <<>> /\ Carried(reports) = {}
  BY DEF ToSet, Carried
<1>3. DOMAIN doc = Carried(longer)
  BY <1>2, CarriedAppend
<1>4. \A stat : Carrying(stat, reports) = {} /\ Total(ValuesFor(stat, reports)) = 0
  <2> SUFFICES ASSUME NEW stat
               PROVE  Carrying(stat, reports) = {} /\ Total(ValuesFor(stat, reports)) = 0
    OBVIOUS
  <2> DEFINE values == ValuesFor(stat, reports)
  <2>1. /\ values \in Seq(Int) /\ Len(values) = Len(reports)
        /\ Carrying(stat, reports) \subseteq 1 .. Len(reports)
    BY <1>2, ValuesType
  <2> HIDE DEF values
  <2>2. Len(reports) = 0 /\ 1 .. Len(reports) = {}
    OBVIOUS
  <2>3. values = <<>>
    BY <2>1, <2>2
  <2>4. QED
    BY <2>1, <2>2, <2>3, TotalEmpty DEF values
<1>5. ASSUME NEW stat \in DOMAIN doc PROVE IsStored(doc[stat], stat, longer)
  BY <1>1, <1>2, <1>4, StoredFirst
<1>6. ASSUME NEW stat \in Stats \ DOMAIN doc PROVE Total(ValuesFor(stat, longer)) = 0
  BY <1>2, <1>4, <1>6, NothingAdded
<1>7. QED
  BY <1>1, <1>2, <1>3, <1>5, <1>6 DEF Aggregates, IsRow

(* A report updates the row to the row that it and the earlier reports make. *)
LEMMA UpdateAggregates ==
    ASSUME NEW doc, NEW reports \in Seq(Report), NEW report \in Report,
           Aggregates(doc, reports)
    PROVE  Aggregates(Update(doc, report.stats), Append(reports, report))
<1> DEFINE stats == report.stats
           new == Update(doc, stats)
           longer == Append(reports, report)
<1>1. PICK keys \in SUBSET Stats : stats \in [keys -> Int]
  BY ReportIsRow DEF Report
<1>2. PICK old \in SUBSET Stats : doc \in [old -> Int]
  BY DEF Aggregates, IsRow
<1>3. new \in [old \cup keys -> Int]
  BY <1>1, <1>2, UpdateType
<1>4. longer # <<>> /\ IsRow(new)
  BY <1>3 DEF IsRow
<1>5. DOMAIN new = Carried(longer)
  BY <1>1, <1>2, <1>3, CarriedAppend DEF Aggregates
<1>6. ASSUME NEW stat \in DOMAIN new PROVE IsStored(new[stat], stat, longer)
  <2>1. stat \in Stats /\ (stat \in old \/ stat \in keys)
    BY <1>3
  <2>2. CASE stat \in old /\ stat \in keys
    <3>1. new[stat] = Combine(Method[stat], doc[stat], stats[stat])
      BY <1>1, <1>2, <2>2 DEF Update, Seeded
    <3>2. doc[stat] \in Int /\ IsStored(doc[stat], stat, reports)
      BY <1>2, <2>2 DEF Aggregates
    <3>3. stat \in DOMAIN report.stats
      BY <1>1, <2>2
    <3>4. QED
      BY <2>1, <3>1, <3>2, <3>3, StoredWith
  <2>3. CASE stat \in old /\ stat \notin keys
    <3>1. new[stat] = doc[stat]
      BY <1>1, <1>2, <2>3 DEF Update
    <3>2. doc[stat] \in Int /\ IsStored(doc[stat], stat, reports)
      BY <1>2, <2>3 DEF Aggregates
    <3>3. stat \notin DOMAIN report.stats
      BY <1>1, <2>3
    <3>4. QED
      BY <2>1, <3>1, <3>2, <3>3, StoredWithout
  <2>4. CASE stat \notin old /\ stat \in keys
    <3>1. new[stat] = Combine(Method[stat], stats[stat], stats[stat])
      BY <1>1, <1>2, <2>4 DEF Update, Seeded
    <3>2. \A i \in DOMAIN reports : stat \notin DOMAIN reports[i].stats
      BY <1>2, <2>4 DEF Aggregates, Carried, ToSet
    <3>3. reports # <<>> /\ Total(ValuesFor(stat, reports)) = 0
      BY <1>2, <2>1, <2>4 DEF Aggregates
    <3>4. new[stat] = IF Method[stat] = "sum" THEN stats[stat] + stats[stat] ELSE stats[stat]
      <4>1. Method[stat] \in {"sum", "set", "min", "max"} /\ stats[stat] \in Int
        BY <1>1, <2>1, <2>4, LeaderboardsAssumption
      <4>2. QED
        BY <3>1, <4>1 DEF Combine, Lesser, Greater
    <3>5. Carrying(stat, reports) = {} /\ stat \in DOMAIN report.stats
      BY <1>1, <2>4, <3>2 DEF Carrying
    <3> HIDE DEF new
    <3>6. QED
      BY <2>1, <3>3, <3>4, <3>5, StoredFirst
  <2>5. QED
    BY <2>1, <2>2, <2>3, <2>4
<1>7. ASSUME NEW stat \in Stats \ DOMAIN new PROVE Total(ValuesFor(stat, longer)) = 0
  <2>1. stat \notin DOMAIN doc /\ stat \notin DOMAIN report.stats
    BY <1>1, <1>2, <1>3, <1>7
  <2>2. QED
    BY <1>7, <2>1, NothingAdded DEF Aggregates
<1> HIDE DEF new, longer
<1>8. QED
  BY <1>4, <1>5, <1>6, <1>7 DEF Aggregates, new, longer

\* What a report makes of its row, as the row is now.
Applied(report) ==
    IF rows[report.row] = NoRow THEN report.stats
    ELSE Update(rows[report.row], report.stats)

\* Of the rows whose reports did not overlap: the row is what its reports made
\* it, at most one handler waits to save it, and what it saves is the stored row
\* with its report applied, since nothing was saved after it was read.
RowInv ==
    /\ \A row \in Rows \ overlapped :
          /\ rows[row] = NoRow => applied[row] = <<>>
          /\ rows[row] # NoRow => Aggregates(rows[row], applied[row])
    /\ \A h \in Handlers :
          handling[h].pc = "save" /\ Applying(h).row \notin overlapped =>
              /\ handling[h].doc = Applied(Applying(h))
              /\ \A g \in Handlers :
                    handling[g].pc = "save" /\ Applying(g).row = Applying(h).row => g = h

(* A handler that is not about to save anything, before or after. *)
LEMMA RowsUntouched ==
    ASSUME TypeOK, RowInv, NEW h \in Handlers, NEW next,
           handling' = [handling EXCEPT ![h] = next], next.pc # "save",
           UNCHANGED <<rows, applied, overlapped>>
    PROVE  RowInv'
<1>1. /\ handling'[h].pc # "save"
      /\ \A g \in Handlers : handling'[g].pc = "save" => handling'[g] = handling[g]
  BY DEF TypeOK
<1>2. ASSUME NEW g \in Handlers, handling'[g].pc = "save", Applying(g)'.row \notin overlapped
      PROVE  /\ handling'[g].doc = Applied(Applying(g))'
             /\ \A k \in Handlers :
                   handling'[k].pc = "save" /\ Applying(k)'.row = Applying(g)'.row => k = g
  <2>1. handling[g].pc = "save" /\ Applying(g)' = Applying(g)
    BY <1>1, <1>2 DEF Applying
  <2>2. \A k \in Handlers : handling'[k].pc = "save" =>
            handling[k].pc = "save" /\ Applying(k)' = Applying(k)
    BY <1>1 DEF Applying
  <2>3. handling[g].doc = Applied(Applying(g)) /\ handling'[g].doc = handling[g].doc
    BY <1>1, <1>2, <2>1 DEF RowInv
  <2>4. Applied(Applying(g))' = Applied(Applying(g))
    BY <2>1 DEF Applied
  <2>5. QED
    BY <1>2, <2>1, <2>2, <2>3, <2>4 DEF RowInv
<1>3. QED
  BY <1>2 DEF RowInv

(* A report finds its row. *)
LEMMA FindKeepsRows ==
    ASSUME TypeOK, RowInv, NEW h \in Handlers, Find(h)
    PROVE  RowInv'
<1> DEFINE report == Applying(h)
           row == report.row
           next == [pc |-> "save", report |-> report, doc |-> Applied(report)]
<1>1. handling' = [handling EXCEPT ![h] = next] /\ UNCHANGED <<rows, applied>>
  BY DEF Find, Applied, Applying
<1>2. /\ handling'[h] = next /\ \A g \in Handlers \ {h} : handling'[g] = handling[g]
  BY <1>1 DEF TypeOK
<1>3. /\ overlapped \subseteq overlapped'
      /\ (\E g \in Handlers : handling[g].pc = "save" /\ Applying(g).row = row) => row \in overlapped'
  BY DEF Find, Overlaps, Applying
<1>4. next.report = report /\ next.doc = Applied(report) /\ handling[h].pc # "save"
  BY DEF Find
<1>5. Applying(h)' = report /\ \A g \in Handlers \ {h} : Applying(g)' = Applying(g)
  BY <1>2, <1>4 DEF Applying
<1> HIDE DEF next, report, row
<1>6. ASSUME NEW g \in Handlers, handling'[g].pc = "save", Applying(g)'.row \notin overlapped'
      PROVE  /\ handling'[g].doc = Applied(Applying(g))'
             /\ \A k \in Handlers :
                   handling'[k].pc = "save" /\ Applying(k)'.row = Applying(g)'.row => k = g
  <2>1. CASE g = h
    <3>1. Applying(g)'.row = row
      BY <1>5, <2>1 DEF row
    <3>2. Applied(Applying(g))' = Applied(report)
      BY <1>1, <1>5, <2>1 DEF Applied
    <3>3. QED
      BY <1>2, <1>3, <1>4, <1>5, <1>6, <2>1, <3>1, <3>2
  <2>2. CASE g # h
    <3>1. /\ handling'[g] = handling[g] /\ Applying(g)' = Applying(g)
          /\ handling[g].pc = "save" /\ Applying(g).row \notin overlapped
          /\ Applying(g).row # row
      BY <1>2, <1>3, <1>5, <1>6, <2>2
    <3>2. Applied(Applying(g))' = Applied(Applying(g))
      BY <1>1, <3>1 DEF Applied
    <3>3. ASSUME NEW k \in Handlers, handling'[k].pc = "save",
                 Applying(k)'.row = Applying(g)'.row
          PROVE  k = g
      <4>1. k # h
        BY <1>5, <3>1, <3>3 DEF row
      <4>2. QED
        BY <1>2, <1>5, <3>1, <3>3, <4>1 DEF RowInv
    <3>4. QED
      BY <3>1, <3>2, <3>3 DEF RowInv
  <2>3. QED
    BY <2>1, <2>2
<1>7. QED
  BY <1>1, <1>3, <1>6 DEF RowInv

(* A report is saved to its row. *)
LEMMA SaveKeepsRows ==
    ASSUME TypeOK, RowInv, NEW h \in Handlers, Save(h)
    PROVE  RowInv'
<1> DEFINE report == Applying(h)
           row == report.row
           doc == handling[h].doc
<1>1. handling[h] # Idle /\ report \in Report /\ handling[h].pc = "save"
  BY ApplyingType DEF Save, Idle
<1>2. /\ rows' = [rows EXCEPT ![row] = doc]
      /\ applied' = [applied EXCEPT ![row] = Append(@, report)]
      /\ handling' = [handling EXCEPT ![h] = Idle]
      /\ overlapped' = overlapped
  BY DEF Save, Applying
<1>3. row \in Rows /\ applied[row] \in Seq(Report)
  BY <1>1 DEF Report, TypeOK
<1>4. row \notin overlapped => Aggregates(doc, Append(applied[row], report))
  <2> SUFFICES ASSUME row \notin overlapped
               PROVE  Aggregates(doc, Append(applied[row], report))
    OBVIOUS
  <2>1. doc = Applied(report)
    BY <1>1 DEF RowInv
  <2>2. CASE rows[row] = NoRow
    BY <1>1, <1>3, <2>1, <2>2, FirstReportIsRow DEF RowInv, Applied
  <2>3. CASE rows[row] # NoRow
    BY <1>1, <1>3, <2>1, <2>3, UpdateAggregates DEF RowInv, Applied
  <2>4. QED
    BY <2>2, <2>3
<1> HIDE DEF report, row, doc
<1>5. /\ rows'[row] = doc /\ applied'[row] = Append(applied[row], report)
      /\ \A r \in Rows \ {row} : rows'[r] = rows[r] /\ applied'[r] = applied[r]
  BY <1>2, <1>3 DEF TypeOK
<1>6. row \notin overlapped => doc # NoRow
  BY <1>4, LeaderboardsAssumption DEF Aggregates
<1>7. ASSUME NEW r \in Rows \ overlapped'
      PROVE  /\ rows'[r] = NoRow => applied'[r] = <<>>
             /\ rows'[r] # NoRow => Aggregates(rows'[r], applied'[r])
  <2>1. CASE r = row
    BY <1>2, <1>4, <1>5, <1>6, <1>7, <2>1
  <2>2. CASE r # row
    BY <1>2, <1>5, <1>7, <2>2 DEF RowInv
  <2>3. QED
    BY <2>1, <2>2
<1>8. /\ handling'[h].pc # "save"
      /\ \A g \in Handlers \ {h} : handling'[g] = handling[g] /\ Applying(g)' = Applying(g)
  BY <1>2 DEF TypeOK, Idle, Applying
<1>9. ASSUME NEW g \in Handlers, handling'[g].pc = "save", Applying(g)'.row \notin overlapped'
      PROVE  /\ handling'[g].doc = Applied(Applying(g))'
             /\ \A k \in Handlers :
                   handling'[k].pc = "save" /\ Applying(k)'.row = Applying(g)'.row => k = g
  <2>1. /\ g # h /\ handling'[g] = handling[g] /\ Applying(g)' = Applying(g)
        /\ handling[g].pc = "save" /\ Applying(g).row \notin overlapped
    BY <1>2, <1>8, <1>9
  <2>2. Applying(g).row # row
    BY <1>1, <2>1 DEF RowInv, row, report
  <2>3. Applying(g).row \in Rows
    <3>1. Applying(g) \in Report
      BY <2>1, ApplyingType DEF Idle
    <3>2. QED
      BY <3>1 DEF Report
  <2>4. rows'[Applying(g).row] = rows[Applying(g).row]
    BY <1>5, <2>2, <2>3
  <2>5. Applied(Applying(g))' = Applied(Applying(g))
    BY <2>1, <2>4 DEF Applied
  <2>6. ASSUME NEW k \in Handlers, handling'[k].pc = "save",
               Applying(k)'.row = Applying(g)'.row
        PROVE  k = g
    BY <1>8, <2>1, <2>6 DEF RowInv
  <2>7. QED
    BY <2>1, <2>5, <2>6 DEF RowInv
<1>10. QED
  BY <1>7, <1>9 DEF RowInv

LEMMA RowInductive ==
    ASSUME TypeOK, RowInv, [Next]_vars
    PROVE  RowInv'
<1>1. ASSUME NEW h \in Handlers, NEW report \in Report, Receive(h, report)
      PROVE  RowInv'
  <2> DEFINE next == [pc |-> "find", report |-> report]
  <2>1. handling' = [handling EXCEPT ![h] = next] /\ UNCHANGED <<rows, applied, overlapped>>
    BY <1>1 DEF Receive
  <2>2. next.pc # "save"
    OBVIOUS
  <2> HIDE DEF next
  <2>3. QED
    BY <2>1, <2>2, RowsUntouched
<1>2. ASSUME NEW h \in Handlers, Fail(h)
      PROVE  RowInv'
  <2>1. handling' = [handling EXCEPT ![h] = Idle] /\ UNCHANGED <<rows, applied, overlapped>>
    BY <1>2 DEF Fail
  <2>2. Idle.pc # "save"
    BY DEF Idle
  <2>3. QED
    BY <2>1, <2>2, RowsUntouched
<1>3. ASSUME UNCHANGED <<rows, handling, applied, overlapped>>
      PROVE  RowInv'
  BY <1>3 DEF RowInv, Applied, Applying
<1>4. CASE UNCHANGED vars
  BY <1>3, <1>4 DEF vars
<1>5. ASSUME NEW h \in Handlers, NEW report \in Report, Claim(h, report)
      PROVE  RowInv'
  BY <1>1, <1>5 DEF Claim
<1>6. ASSUME NEW h \in Handlers, NEW report \in Report, Duplicate(h, report)
      PROVE  RowInv'
  BY <1>3, <1>6 DEF Duplicate
<1>7. ASSUME NEW h \in Handlers, NEW report \in Report, Accept(h, report)
      PROVE  RowInv'
  BY <1>1, <1>7 DEF Accept
<1>8. CASE Next
  BY <1>2, <1>5, <1>6, <1>7, <1>8, FindKeepsRows, SaveKeepsRows DEF Next, Report
<1>9. QED
  BY <1>4, <1>8

(* The leaderboards: each stat of a row whose reports did not overlap is made *)
(* of all the values reported for it, whatever fails half-way and however the *)
(* reports for other rows interleave: the last, the least, the greatest or    *)
(* the sum, in which only the first value of a stat that came late counts     *)
(* twice.                                                                     *)
THEOREM RowsAreAggregates == Spec => []RowsAddUp
<1>1. Init => RowInv
  BY DEF Init, RowInv, Idle
<1>2. RowInv => RowsAddUp
  BY DEF RowInv, RowsAddUp, Aggregates
<1>3. TypeOK /\ RowInv /\ [Next]_vars => RowInv'
  BY RowInductive
<1>4. QED
  BY <1>1, <1>2, <1>3, TypeCorrect, PTL DEF Spec
=============================================================================
