------------------------------- MODULE Recent -------------------------------
(***************************************************************************)
(* The recent-players feed: `recentencounters`, one document per directed  *)
(* pair, written when a session is joined.                                 *)
(*                                                                         *)
(* A capture runs after its join is answered, with others like it: it      *)
(* looks up gamertags, takes the time, upserts an edge in both directions  *)
(* for everybody the joiners met, all at once, and then trims every list   *)
(* it touched: a query for the documents beyond the cap, and a delete of   *)
(* those by _id.  Gamertags are left out.  A list's answer changes         *)
(* nothing.                                                                *)
(***************************************************************************)
EXTENDS Naturals, Sequences, FiniteSets, SequencesExt

CONSTANTS
    Gamers,
    CaptureSlots,  \* captures that may run at the same time
    Joins,         \* joins: the session's players in order, and the joiners
    RecentCap,     \* RECENT_CAP: the edges a list keeps
    MaxJoins       \* bound: joins that are captured

ASSUME RecentAssumption ==
    /\ RecentCap \in Nat \ {0} /\ MaxJoins \in Nat /\ IsFiniteSet(Gamers)
    /\ Joins \subseteq Seq(Gamers) \X Seq(Gamers)

VARIABLES
    met,        \* the collection: owner -> other -> lastSeen, 0 for none
    capturing,  \* the captures in flight
    joins,      \* the clock: joins captured so far
    untrimmed,  \* history: owners whose capture failed before its trim
    remet       \* history: owners who met somebody between the query and
                \*   the delete of a trim of theirs

recentVars == <<met, capturing, joins, untrimmed, remet>>

List(o) == {x \in Gamers : met[o][x] # 0}

-----------------------------------------------------------------------------
(* pairsForJoin: the directed edges a join adds.  It emits each unordered   *)
(* pair once, whoever of the two joined, so a set says it all.              *)

\* Slip: a joiner is not left out of those it meets.
MeetsItself(all, j) == UNION {{<<j, m>>, <<m, j>>} : m \in all}

\* One joiner meets everybody else.
Meets(all, j) == UNION {{<<j, m>>, <<m, j>>} : m \in all \ {j}}

PairsForJoin(members, joining) ==
    LET all == ToSet(members) IN
    UNION {Meets(all, j) : j \in ToSet(joining) \cap all}

-----------------------------------------------------------------------------
(* Captures.  `left` are the edges still to be upserted, `trims` says how   *)
(* far each list's trim is: "find", or the set of others to delete.         *)

NoCapture == [pc |-> "idle"]

Finding == [found |-> FALSE, stale |-> {}]

\* The lists a capture has touched or is going to.
Owners(r) ==
    IF r.pc = "tags" THEN {e[1] : e \in r.pairs}
    ELSE IF r.pc = "upsert" THEN r.owners
    ELSE IF r.pc = "trim" THEN DOMAIN r.trims
    ELSE {}

\* The list of `o` is between the query and the delete of a trim.
InTrim(o) ==
    \E c \in CaptureSlots :
        /\ capturing[c].pc = "trim"
        /\ o \in DOMAIN capturing[c].trims
        /\ capturing[c].trims[o].found

\* A deleted document's _id matches no later document: the trims in flight
\* no longer find the edges `gone` of `o`.
Forgetting(o, gone) ==
    [c \in CaptureSlots |->
        IF capturing[c].pc = "trim" /\ o \in DOMAIN capturing[c].trims
        THEN [capturing[c] EXCEPT !.trims[o].stale = @ \ gone]
        ELSE capturing[c]]

RecentInit ==
    /\ met = [o \in Gamers |-> [x \in Gamers |-> 0]]
    /\ capturing = [c \in CaptureSlots |-> NoCapture]
    /\ joins = 0
    /\ untrimmed = {}
    /\ remet = {}

(* captureJoin: the edges, and the lookup of the gamertags. *)
CaptureJoin(c, members, joining) ==
    LET pairs == PairsForJoin(members, joining) IN
    /\ capturing[c] = NoCapture
    /\ joins < MaxJoins
    /\ pairs # {}
    /\ joins' = joins + 1
    /\ capturing' = [capturing EXCEPT ![c] =
           [pc |-> "tags", pairs |-> pairs]]
    /\ UNCHANGED <<met, untrimmed, remet>>

(* The gamertags arrived; `now` is taken. *)
TagsRead(c) ==
    /\ capturing[c].pc = "tags"
    /\ capturing' = [capturing EXCEPT ![c] =
           [pc |-> "upsert", now |-> joins, owners |-> Owners(@),
            left |-> @.pairs, failed |-> FALSE]]
    /\ UNCHANGED <<met, joins, untrimmed, remet>>

\* Promise.all: when the last upsert is over, the trims of the touched lists
\* start, or nothing does if one was rejected.
Settled(r, edge, rejected) ==
    LET left == r.left \ {edge}
        failed == r.failed \/ rejected IN
    IF left # {} THEN [r EXCEPT !.left = left, !.failed = failed]
    ELSE IF failed THEN NoCapture
    ELSE [pc |-> "trim", trims |-> [o \in Owners(r) |-> Finding]]

Upsert(c, edge) ==
    LET r == capturing[c]
        next == Settled(r, edge, FALSE) IN
    /\ r.pc = "upsert"
    /\ edge \in r.left
    /\ met' = [met EXCEPT ![edge[1]][edge[2]] = r.now]
    /\ remet' = IF InTrim(edge[1]) THEN remet \cup {edge[1]} ELSE remet
    /\ capturing' = [capturing EXCEPT ![c] = next]
    /\ untrimmed' = IF next = NoCapture THEN untrimmed \cup Owners(r)
                    ELSE untrimmed
    /\ UNCHANGED joins

\* Slip: the oldest are kept, the sort order is the other way round.
BeyondUpward(o, stale) ==
    /\ Cardinality(List(o) \ stale) =
           (IF Cardinality(List(o)) < RecentCap THEN Cardinality(List(o))
            ELSE RecentCap)
    /\ \A x \in stale, y \in List(o) \ stale : met[o][x] >= met[o][y]

\* sort({ lastSeen: -1 }).skip(RECENT_CAP): equal times in any order.
Beyond(o, stale) ==
    /\ Cardinality(List(o) \ stale) =
           (IF Cardinality(List(o)) < RecentCap THEN Cardinality(List(o))
            ELSE RecentCap)
    /\ \A x \in stale, y \in List(o) \ stale : met[o][x] <= met[o][y]

TrimFind(c, o) ==
    /\ capturing[c].pc = "trim"
    /\ o \in DOMAIN capturing[c].trims
    /\ ~capturing[c].trims[o].found
    /\ \E stale \in SUBSET List(o) :
          /\ Beyond(o, stale)
          /\ capturing' = [capturing EXCEPT ![c].trims[o] =
                 [found |-> TRUE, stale |-> stale]]
    /\ untrimmed' = untrimmed \ {o}
    /\ UNCHANGED <<met, joins, remet>>

\* Slip: the lists of a capture are all trimmed when the first one is.
TrimmedOnce(r, o) == NoCapture

\* The capture without the trim of `o`; it ends with its last one.
Trimmed(r, o) ==
    IF DOMAIN r.trims = {o} THEN NoCapture
    ELSE [r EXCEPT !.trims = [p \in DOMAIN r.trims \ {o} |-> r.trims[p]]]

TrimDelete(c, o) ==
    LET r == capturing[c] IN
    /\ r.pc = "trim"
    /\ o \in DOMAIN r.trims
    /\ r.trims[o].found
    /\ met' = [met EXCEPT ![o] = [x \in Gamers |->
                  IF x \in r.trims[o].stale THEN 0 ELSE @[x]]]
    /\ capturing' = [Forgetting(o, r.trims[o].stale) EXCEPT ![c] = Trimmed(r, o)]
    /\ UNCHANGED <<joins, untrimmed, remet>>

(* The lookup of the gamertags is rejected.  The join is answered all the
   same, here and below. *)
TagsFail(c) ==
    /\ capturing[c].pc = "tags"
    /\ capturing' = [capturing EXCEPT ![c] = NoCapture]
    /\ UNCHANGED <<met, joins, untrimmed, remet>>

(* One upsert is rejected: the others go on, nothing is trimmed. *)
UpsertFails(c, edge) ==
    LET r == capturing[c]
        next == Settled(r, edge, TRUE) IN
    /\ r.pc = "upsert"
    /\ edge \in r.left
    /\ capturing' = [capturing EXCEPT ![c] = next]
    /\ untrimmed' = IF next = NoCapture THEN untrimmed \cup Owners(r)
                    ELSE untrimmed
    /\ UNCHANGED <<met, joins, remet>>

(* The query or the delete of one trim is rejected: the others go on. *)
TrimFails(c, o) ==
    /\ capturing[c].pc = "trim"
    /\ o \in DOMAIN capturing[c].trims
    /\ capturing' = [capturing EXCEPT ![c] = Trimmed(capturing[c], o)]
    /\ untrimmed' = untrimmed \cup {o}
    /\ UNCHANGED <<met, joins, remet>>

(* POST /recent/remove, and the 30 days' TTL of a document. *)
RemoveRecent(o, x) ==
    /\ met[o][x] # 0
    /\ met' = [met EXCEPT ![o][x] = 0]
    /\ capturing' = Forgetting(o, {x})
    /\ UNCHANGED <<joins, untrimmed, remet>>

(* POST /recent/clear. *)
ClearRecent(o) ==
    /\ List(o) # {}
    /\ met' = [met EXCEPT ![o] = [x \in Gamers |-> 0]]
    /\ capturing' = Forgetting(o, Gamers)
    /\ UNCHANGED <<joins, untrimmed, remet>>

RecentNext ==
    \/ \E c \in CaptureSlots :
          \/ \E j \in Joins : CaptureJoin(c, j[1], j[2])
          \/ TagsRead(c)
          \/ TagsFail(c)
          \/ \E o, x \in Gamers : Upsert(c, <<o, x>>) \/ UpsertFails(c, <<o, x>>)
          \/ \E o \in Gamers : TrimFind(c, o) \/ TrimDelete(c, o) \/ TrimFails(c, o)
    \/ \E o \in Gamers :
          \/ \E x \in Gamers : RemoveRecent(o, x)
          \/ ClearRecent(o)

RecentSpec == RecentInit /\ [][RecentNext]_recentVars

-----------------------------------------------------------------------------
RecentTypeOK ==
    /\ met \in [Gamers -> [Gamers -> 0 .. MaxJoins]]
    /\ \A o \in Gamers : met[o][o] = 0
    /\ \A c \in CaptureSlots : Owners(capturing[c]) \subseteq Gamers
    /\ joins \in 0 .. MaxJoins
    /\ untrimmed \subseteq Gamers /\ remet \subseteq Gamers

\* A capture in flight still has the list of `o` to trim.
TrimPending(o) ==
    \E c \in CaptureSlots :
        capturing[c].pc \in {"upsert", "trim"} /\ o \in Owners(capturing[c])

(* However captures overlap, a list is within the cap once its captures are
   over, unless the last of them failed. *)
RecentCapped ==
    \A o \in Gamers \ untrimmed :
        ~TrimPending(o) => Cardinality(List(o)) <= RecentCap

(* "The newest N survive": a trim deletes nobody met later than somebody it
   keeps, if the owner met nobody between its query and its delete. *)
NewestSurvive ==
    [][\A c \in CaptureSlots, o \in Gamers \ remet :
          TrimDelete(c, o) =>
              \A x, y \in List(o) : met'[o][x] = 0 /\ met'[o][y] # 0 =>
                  met[o][x] <= met[o][y]]_recentVars

=============================================================================
