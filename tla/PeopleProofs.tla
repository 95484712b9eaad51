---------------------------- MODULE PeopleProofs -----------------------------
(***************************************************************************)
(* Player records, accounts and tokens, friends and recent players, for    *)
(* any players, settings, sessions, passwords, document ids, joins, caps   *)
(* and requests in flight.                                                 *)
(*                                                                         *)
(* An update of a record is kept because the copy of a player who is in one *)
(* request's hands alone IS the record; history variable `crossed` collects *)
(* the others.  A token stays behind a recovered password because whoever  *)
(* mints has read the credential it is minted on.                          *)
(*                                                                         *)
(* The friends service implements module Friendship.  The invariant says   *)
(* why a save that was prepared from an old read cannot revive or hasten a *)
(* bond: an _id is drawn once, so a document with the _id that was read is *)
(* the one the caller agreed to, still asked for by the same player.       *)
(***************************************************************************)
EXTENDS Players, Accounts, Friends, Recent, FiniteSetTheorems, TLAPS

-----------------------------------------------------------------------------
(* Player records.                                                         *)

\* Either all of one request's settings or those that were uploaded.
Uniform(settings) ==
    \E v \in SettingValues : /\ \A k \in DOMAIN settings : settings[k] = v
                             /\ DOMAIN settings # SettingIds => v = 0

Sound(p) == p \in Player /\ Uniform(p.settings)

\* Settings are changed all to one value, or not at all.
WholeChange(c) ==
    /\ Writes(c, "session") => c.session \in SessionIds \cup {NoSession}
    /\ Writes(c, "friendsOnly") => c.friendsOnly \in BOOLEAN
    /\ Writes(c, "rich") => c.rich \in Phrases
    /\ Writes(c, "settings") =>
           \E v \in SettingValues : c.settings = [k \in SettingIds |-> v]

SoundCopies(copies) ==
    /\ DOMAIN copies \subseteq Xuids
    /\ \A x \in DOMAIN copies : Sound(copies[x])

\* A request in flight.
Formed(r) ==
    \/ r.pc \in {"idle", "purge", "reset"}
    \/ r.pc = "delete" /\ r.session \in SessionIds
    \/ /\ r.pc = "create"
       /\ r.session \in SessionIds /\ r.info \in SessionInfo /\ SoundCopies(r.copies)
    \/ /\ r.pc = "loop"
       /\ r.who \subseteq Xuids /\ SoundCopies(r.copies) /\ WholeChange(r.change)
    \/ /\ r.pc = "save"
       /\ r.who \subseteq Xuids /\ SoundCopies(r.copies) /\ WholeChange(r.change)
       /\ r.cur \in DOMAIN r.copies /\ ~UpdateThrows(r.copies[r.cur], r.change)

\* The record of a player who is in at most one request's hands is what that
\* request holds.
InOneHand(x) ==
    x \notin crossed =>
        /\ players[x] = serially[x]
        /\ \A w \in Servers : x \in InHand(serving[w]) => serving[w].copies[x] = players[x]
        /\ \A v, w \in Servers : x \in InHand(serving[v]) /\ x \in InHand(serving[w]) => v = w

RecordsTyped ==
    /\ players = [x \in Xuids |-> players[x]]
    /\ serially = [x \in Xuids |-> serially[x]]
    /\ store \in [SessionIds -> SessionInfo \cup {Gone}]
    /\ serving = [w \in Servers |-> serving[w]]

PlayersInv ==
    /\ RecordsTyped
    /\ \A x \in Xuids : players[x] # NoPlayer => Sound(players[x])
    /\ \A x \in Xuids : serially[x] \in Player \cup {NoPlayer}
    /\ \A w \in Servers : Formed(serving[w])
    /\ \A x \in Xuids : InOneHand(x)

-----------------------------------------------------------------------------
(* What the changes do to a record.                                         *)

LEMMA PlayerFields ==
    ASSUME NEW p \in Player
    PROVE  /\ p # NoPlayer
           /\ DOMAIN p = {"session", "friendsOnly", "rich", "settings"}
           /\ p.session \in SessionIds \cup {NoSession}
           /\ p.friendsOnly \in BOOLEAN /\ p.rich \in Phrases
           /\ p.settings = [k \in DOMAIN p.settings |-> p.settings[k]]
           /\ DOMAIN p.settings \subseteq SettingIds
           /\ \A k \in DOMAIN p.settings : p.settings[k] \in SettingValues
<1>1. /\ DOMAIN p = {"session", "friendsOnly", "rich", "settings"}
      /\ p.session \in SessionIds \cup {NoSession}
      /\ p.friendsOnly \in BOOLEAN /\ p.rich \in Phrases
      /\ p.settings \in UNION {[K -> SettingValues] : K \in SUBSET SettingIds}
    BY DEF Player
<1>2. PICK K \in SUBSET SettingIds : p.settings \in [K -> SettingValues]
    BY <1>1
<1> QED
    BY <1>1, <1>2, NoPlayerAssumption

LEMMA SettingsTyped ==
    ASSUME NEW K \in SUBSET SettingIds, NEW settings,
           settings = [k \in K |-> settings[k]], \A k \in K : settings[k] \in SettingValues
    PROVE  settings \in UNION {[J -> SettingValues] : J \in SUBSET SettingIds}
<1>1. settings \in [K -> SettingValues]
    OBVIOUS
<1> QED
    BY <1>1

LEMMA ChangedIsPlayer ==
    ASSUME NEW p \in Player, NEW c, WholeChange(c)
    PROVE  Changed(p, c) \in Player
<1> DEFINE q == Changed(p, c)
           all == UNION {[J -> SettingValues] : J \in SUBSET SettingIds}
<1>1. /\ p.session \in SessionIds \cup {NoSession}
      /\ p.friendsOnly \in BOOLEAN /\ p.rich \in Phrases
      /\ DOMAIN p = {"session", "friendsOnly", "rich", "settings"}
    BY PlayerFields
<1>2. /\ q = [f \in {"session", "friendsOnly", "rich", "settings"} |-> q[f]]
      /\ q.session = IF Writes(c, "session") THEN c.session ELSE p.session
      /\ q.friendsOnly = IF Writes(c, "friendsOnly") THEN c.friendsOnly ELSE p.friendsOnly
      /\ q.rich = IF Writes(c, "rich") THEN c.rich ELSE p.rich
      /\ q.settings = IF Writes(c, "settings") THEN Over(p.settings, c.settings)
                      ELSE p.settings
    BY <1>1 DEF Changed
<1> HIDE DEF q
<1>3. q.settings \in all
    <2>1. CASE ~Writes(c, "settings")
        BY <1>2, <2>1 DEF Player
    <2>2. CASE Writes(c, "settings")
        <3>1. PICK v \in SettingValues : c.settings = [k \in SettingIds |-> v]
            BY <2>2 DEF WholeChange
        <3>2. /\ DOMAIN p.settings \subseteq SettingIds
              /\ \A k \in DOMAIN p.settings : p.settings[k] \in SettingValues
            BY PlayerFields
        <3> DEFINE over == Over(p.settings, c.settings)
        <3>3. over = [k \in DOMAIN p.settings \cup SettingIds |-> over[k]]
            BY <3>1 DEF Over
        <3>4. \A k \in DOMAIN p.settings \cup SettingIds : over[k] \in SettingValues
            BY <3>1, <3>2 DEF Over
        <3> HIDE DEF over
        <3>5. DOMAIN p.settings \cup SettingIds \in SUBSET SettingIds
            BY <3>2
        <3>6. over \in all
            BY <3>3, <3>4, <3>5, SettingsTyped
        <3> QED
            BY <1>2, <2>2, <3>6 DEF over
    <2> QED
        BY <2>1, <2>2
<1> HIDE DEF all
<1>4. q \in [session : SessionIds \cup {NoSession}, friendsOnly : BOOLEAN,
             rich : Phrases, settings : all]
    BY <1>1, <1>2, <1>3 DEF WholeChange
<1> QED
    BY <1>4 DEF q, all, Player

\* The settings written over others of the same ids are all new.
LEMMA ChangedSound ==
    ASSUME NEW p, NEW c, Sound(p), WholeChange(c), ~UpdateThrows(p, c)
    PROVE  Sound(Changed(p, c))
<1> DEFINE q == Changed(p, c)
<1>1. /\ q \in Player
      /\ DOMAIN p = {"session", "friendsOnly", "rich", "settings"}
      /\ DOMAIN p.settings \subseteq SettingIds
    BY ChangedIsPlayer, PlayerFields DEF Sound
<1>2. CASE ~Writes(c, "settings")
    <2>1. q.settings = p.settings
        BY <1>2, <1>1 DEF Changed
    <2> QED
        BY <1>1, <2>1 DEF Sound
<1>3. CASE Writes(c, "settings")
    <2>1. q.settings = Over(p.settings, c.settings)
        BY <1>3, <1>1 DEF Changed
    <2>2. PICK v \in SettingValues : c.settings = [k \in SettingIds |-> v]
        BY <1>3 DEF WholeChange
    <2>3. DOMAIN p.settings = SettingIds
        BY <1>1, <1>3, <2>2 DEF UpdateThrows
    <2>4. /\ DOMAIN q.settings = SettingIds
          /\ \A k \in SettingIds : q.settings[k] = v
        BY <2>1, <2>2, <2>3 DEF Over
    <2>5. Uniform(q.settings)
        BY <2>4 DEF Uniform
    <2> QED
        BY <1>1, <2>5 DEF Sound
<1> QED
    BY <1>2, <1>3

\* A record as registration writes it.
LEMMA RegisteredSound ==
    ASSUME NEW held \in Uploads
    PROVE  Sound(Registered(held))
<1> DEFINE none == [k \in held |-> 0]
<1>1. held \in SUBSET SettingIds /\ 0 \in SettingValues /\ 0 \in Phrases
    BY PlayersAssumption
<1>2. none \in UNION {[J -> SettingValues] : J \in SUBSET SettingIds}
    BY <1>1, SettingsTyped
<1>3. Uniform(none)
    BY <1>1 DEF Uniform
<1> HIDE DEF none
<1>4. [session |-> NoSession, friendsOnly |-> FALSE, rich |-> 0, settings |-> none] \in Player
    BY <1>1, <1>2 DEF Player
<1> QED
    BY <1>3, <1>4 DEF Registered, Sound, none

-----------------------------------------------------------------------------
(* The shapes of requests.                                                  *)

LEMMA LoopingFormed ==
    ASSUME NEW who \in SUBSET Xuids, NEW change, WholeChange(change)
    PROVE  Formed(Looping(who, change)) /\ InHand(Looping(who, change)) = {}
BY DEF Looping, Formed, InHand, Resting, NoCopies, SoundCopies

LEMMA RestingFormed == Formed(Resting) /\ InHand(Resting) = {}
BY DEF Formed, InHand, Resting

\* The changes that requests are about.
LEMMA ChangesWhole ==
    /\ \A s \in SessionIds \cup {NoSession} : WholeChange([session |-> s])
    /\ \A s \in SessionIds : WholeChange([session |-> s, friendsOnly |-> TRUE])
    /\ \A b \in BOOLEAN : WholeChange([friendsOnly |-> b])
    /\ \A text \in Phrases : WholeChange([rich |-> text])
    /\ WholeChange(ResetChange)
    /\ \A v \in SettingValues : WholeChange([settings |-> [k \in SettingIds |-> v]])
BY PlayersAssumption DEF WholeChange, Writes, ResetChange

\* Copies made of known players are the records.
LEMMA CopiesSound ==
    ASSUME PlayersInv, NEW xs \in SUBSET Xuids, \A x \in xs : players[x] # NoPlayer
    PROVE  /\ SoundCopies(Copies(xs)) /\ DOMAIN Copies(xs) = xs
           /\ \A x \in xs : Copies(xs)[x] = players[x]
BY DEF PlayersInv, Copies, SoundCopies

-----------------------------------------------------------------------------
(* The steps that write no record: the server process goes on as `q`.       *)

\* What `q` holds is what the process held, or fresh from the collection.
Fresh(w, q) ==
    \A x \in InHand(q) :
        \/ q.copies[x] = players[x]
        \/ x \in InHand(serving[w]) /\ q.copies[x] = serving[w].copies[x]

LEMMA BecomesKeeps ==
    ASSUME PlayersInv, NEW w \in Servers, NEW q, Becomes(w, q), Formed(q), Fresh(w, q),
           players' = players, serially' = serially,
           store' \in [SessionIds -> SessionInfo \cup {Gone}]
    PROVE  PlayersInv'
<1>1. /\ serving' = [v \in Servers |-> serving'[v]]
      /\ serving'[w] = q
      /\ \A v \in Servers \ {w} : serving'[v] = serving[v]
    BY DEF Becomes, PlayersInv, RecordsTyped
<1>2. RecordsTyped'
    BY <1>1 DEF RecordsTyped, PlayersInv
<1>3. /\ \A x \in Xuids : players'[x] # NoPlayer => Sound(players'[x])
      /\ \A x \in Xuids : serially'[x] \in Player \cup {NoPlayer}
    BY DEF PlayersInv
<1>4. \A v \in Servers : Formed(serving'[v])
    BY <1>1 DEF PlayersInv
<1>5. ASSUME NEW x \in Xuids, x \notin crossed'
      PROVE  /\ players'[x] = serially'[x]
             /\ \A v \in Servers : x \in InHand(serving'[v])
                    => serving'[v].copies[x] = players'[x]
             /\ \A u, v \in Servers :
                    x \in InHand(serving'[u]) /\ x \in InHand(serving'[v]) => u = v
    <2>1. x \notin crossed /\ (x \in InHand(q) => x \notin HeldBy(Servers \ {w}))
        BY <1>5 DEF Becomes
    <2>2. /\ players[x] = serially[x]
          /\ \A v \in Servers : x \in InHand(serving[v])
                    => serving[v].copies[x] = players[x]
          /\ \A u, v \in Servers :
                    x \in InHand(serving[u]) /\ x \in InHand(serving[v]) => u = v
        BY <2>1 DEF PlayersInv, InOneHand
    <2>3. x \in InHand(q) => \A v \in Servers \ {w} : x \notin InHand(serving[v])
        BY <2>1 DEF HeldBy
    <2>4. x \in InHand(q) => q.copies[x] = players[x]
        BY <2>2 DEF Fresh
    <2> QED
        BY <1>1, <2>2, <2>3, <2>4
<1>6. \A x \in Xuids : InOneHand(x)'
    BY <1>5 DEF InOneHand
<1> QED
    BY <1>2, <1>3, <1>4, <1>6 DEF PlayersInv

\* A request that starts, or ends, with no copy in hand.
LEMMA EmptyHandsKeep ==
    ASSUME PlayersInv, NEW w \in Servers, NEW q, Becomes(w, q), Formed(q),
           InHand(q) = {}, players' = players, serially' = serially,
           store' \in [SessionIds -> SessionInfo \cup {Gone}]
    PROVE  PlayersInv'
BY BecomesKeeps DEF Fresh

\* A record is written anew, or goes, with whoever holds a copy marked.
LEMMA ReplaceKeeps ==
    ASSUME PlayersInv, NEW x \in Xuids, NEW record, Replace(x, record),
           record # NoPlayer => Sound(record)
    PROVE  PlayersInv'
<1>1. /\ players' = [y \in Xuids |-> players'[y]]
      /\ serially' = [y \in Xuids |-> serially'[y]]
      /\ players'[x] = record /\ serially'[x] = record
      /\ \A y \in Xuids \ {x} : players'[y] = players[y] /\ serially'[y] = serially[y]
      /\ serving' = serving /\ store' = store
      /\ crossed' = crossed \cup ({x} \cap HeldBy(Servers))
    BY DEF Replace, PlayersInv, RecordsTyped
<1>2. RecordsTyped'
    BY <1>1 DEF RecordsTyped, PlayersInv
<1>3. /\ \A y \in Xuids : players'[y] # NoPlayer => Sound(players'[y])
      /\ \A y \in Xuids : serially'[y] \in Player \cup {NoPlayer}
    BY <1>1 DEF PlayersInv, Sound
<1>4. \A v \in Servers : Formed(serving'[v])
    BY <1>1 DEF PlayersInv
<1>5. ASSUME NEW y \in Xuids, y \notin crossed'
      PROVE  /\ players'[y] = serially'[y]
             /\ \A v \in Servers : y \in InHand(serving'[v])
                    => serving'[v].copies[y] = players'[y]
             /\ \A u, v \in Servers :
                    y \in InHand(serving'[u]) /\ y \in InHand(serving'[v]) => u = v
    <2>1. y \notin crossed /\ (y = x => \A v \in Servers : y \notin InHand(serving[v]))
        BY <1>1, <1>5 DEF HeldBy
    <2>2. InOneHand(y)
        BY DEF PlayersInv
    <2> QED
        BY <1>1, <2>1, <2>2 DEF InOneHand
<1>6. \A y \in Xuids : InOneHand(y)'
    BY <1>5 DEF InOneHand
<1> QED
    BY <1>2, <1>3, <1>4, <1>6 DEF PlayersInv

-----------------------------------------------------------------------------
(* The common loop.                                                         *)

\* What is left of a request in its loop.
LEMMA LoopFormed ==
    ASSUME NEW who \in SUBSET Xuids, NEW copies, SoundCopies(copies),
           NEW change, WholeChange(change)
    PROVE  LET q == [pc |-> "loop", who |-> who, copies |-> copies, change |-> change]
           IN  Formed(q) /\ InHand(q) = DOMAIN copies
BY DEF Formed, InHand

\* What `Continue` makes of the request.
LeftOver(who, copies, change) ==
    IF who = {} /\ copies = NoCopies THEN Resting
    ELSE [pc |-> "loop", who |-> who, copies |-> copies, change |-> change]

LEMMA LeftOverFormed ==
    ASSUME NEW who \in SUBSET Xuids, NEW copies, SoundCopies(copies),
           NEW change, WholeChange(change), NEW q, q = LeftOver(who, copies, change)
    PROVE  /\ Formed(q)
           /\ \A x \in InHand(q) : x \in DOMAIN copies /\ q.copies[x] = copies[x]
BY LoopFormed, RestingFormed DEF LeftOver

LEMMA ReadPlayerKeeps ==
    ASSUME PlayersInv, NEW w \in Servers, ReadPlayer(w)
    PROVE  PlayersInv'
<1>1. /\ serving[w].who \in SUBSET Xuids /\ WholeChange(serving[w].change)
    BY DEF PlayersInv, Formed, ReadPlayer
<1>2. PICK x \in serving[w].who :
         Continue(w, serving[w].who \ {x},
                  IF players[x] = NoPlayer \/ Needless(players[x], serving[w].change)
                  THEN NoCopies ELSE Copies({x}))
    BY DEF ReadPlayer
<1> DEFINE copies == IF players[x] = NoPlayer \/ Needless(players[x], serving[w].change)
                     THEN NoCopies ELSE Copies({x})
           q == LeftOver(serving[w].who \ {x}, copies, serving[w].change)
<1>3. x \in Xuids
    BY <1>1, <1>2
<1>4. SoundCopies(copies) /\ \A y \in DOMAIN copies : copies[y] = players[y]
    <2>1. CASE copies = NoCopies
        BY <2>1 DEF NoCopies, SoundCopies
    <2>2. CASE players[x] # NoPlayer /\ copies = Copies({x})
        BY <2>2, <1>3, CopiesSound
    <2> QED
        BY <2>1, <2>2
<1>5. Becomes(w, q)
    BY <1>2 DEF Continue, LeftOver
<1> HIDE DEF copies
<1>6. Formed(q) /\ Fresh(w, q)
    <2>1. serving[w].who \ {x} \in SUBSET Xuids
        BY <1>1
    <2>2. /\ Formed(q)
          /\ \A y \in InHand(q) : y \in DOMAIN copies /\ q.copies[y] = copies[y]
        BY <1>1, <1>4, <2>1, LeftOverFormed
    <2> HIDE DEF q
    <2> QED
        BY <1>4, <2>2 DEF Fresh
<1> HIDE DEF q
<1>7. /\ players' = players /\ serially' = serially
      /\ store' \in [SessionIds -> SessionInfo \cup {Gone}]
    BY DEF ReadPlayer, PlayersInv, RecordsTyped
<1> QED
    BY <1>5, <1>6, <1>7, BecomesKeeps

\* What a request holds after one of its copies has been dealt with.
LEMMA WithoutSound ==
    ASSUME NEW copies, SoundCopies(copies), NEW x
    PROVE  /\ SoundCopies(Without(copies, x))
           /\ DOMAIN Without(copies, x) = DOMAIN copies \ {x}
           /\ \A y \in DOMAIN copies \ {x} : Without(copies, x)[y] = copies[y]
BY DEF Without, SoundCopies

LEMMA FindAgainKeeps ==
    ASSUME PlayersInv, NEW w \in Servers, FindAgain(w)
    PROVE  PlayersInv'
<1> DEFINE r == serving[w]
<1>1. /\ r.pc = "loop" /\ r.who \in SUBSET Xuids /\ SoundCopies(r.copies)
      /\ WholeChange(r.change) /\ InHand(r) = DOMAIN r.copies
    BY DEF PlayersInv, Formed, FindAgain, InHand
<1>2. /\ players' = players /\ serially' = serially
      /\ store' \in [SessionIds -> SessionInfo \cup {Gone}]
    BY DEF FindAgain, PlayersInv, RecordsTyped
<1>3. PICK x \in DOMAIN r.copies :
         \/ Becomes(w, Resting)
         \/ Continue(w, r.who, Without(r.copies, x))
         \/ ~UpdateThrows(r.copies[x], r.change) /\ Becomes(w, Saving(r, x, r.change))
    BY DEF FindAgain
<1>4. CASE Becomes(w, Resting)
    BY <1>2, <1>4, EmptyHandsKeep, RestingFormed
<1>5. CASE Continue(w, r.who, Without(r.copies, x))
    <2> DEFINE q == LeftOver(r.who, Without(r.copies, x), r.change)
    <2>1. Becomes(w, q)
        BY <1>5 DEF Continue, LeftOver
    <2>2. Formed(q) /\ Fresh(w, q)
        <3> DEFINE rest == Without(r.copies, x)
        <3>1. /\ SoundCopies(rest) /\ DOMAIN rest = DOMAIN r.copies \ {x}
              /\ \A y \in DOMAIN r.copies \ {x} : rest[y] = r.copies[y]
            BY <1>1, WithoutSound
        <3> HIDE DEF rest
        <3>2. /\ Formed(q)
              /\ \A y \in InHand(q) : y \in DOMAIN rest /\ q.copies[y] = rest[y]
            BY <1>1, <3>1, LeftOverFormed DEF rest
        <3> HIDE DEF q
        <3> QED
            BY <1>1, <3>1, <3>2 DEF Fresh
    <2> HIDE DEF q
    <2> QED
        BY <1>2, <2>1, <2>2, BecomesKeeps
<1>6. CASE ~UpdateThrows(r.copies[x], r.change) /\ Becomes(w, Saving(r, x, r.change))
    <2> DEFINE q == Saving(r, x, r.change)
    <2>1. Formed(q)
        BY <1>1, <1>3, <1>6 DEF Formed, Saving
    <2>2. Fresh(w, q)
        BY <1>1 DEF Fresh, InHand, Saving
    <2> HIDE DEF q
    <2>3. Becomes(w, q)
        BY <1>6 DEF q
    <2> QED
        BY <1>2, <2>1, <2>2, <2>3, BecomesKeeps
<1> QED
    BY <1>3, <1>4, <1>5, <1>6

\* The save.  Whoever is not crossed is in this request's hands alone, and the
\* copy saved is the record with the change made to it.
LEMMA SavePlayerKeeps ==
    ASSUME PlayersInv, NEW w \in Servers, SavePlayer(w)
    PROVE  PlayersInv'
<1> DEFINE r == serving[w]
           saved == Changed(r.copies[r.cur], r.change)
           rest == Without(r.copies, r.cur)
           q == LeftOver(r.who, rest, r.change)
<1>1. /\ r.pc = "save" /\ r.who \in SUBSET Xuids /\ SoundCopies(r.copies)
      /\ WholeChange(r.change) /\ InHand(r) = DOMAIN r.copies
      /\ r.cur \in DOMAIN r.copies /\ ~UpdateThrows(r.copies[r.cur], r.change)
    BY DEF PlayersInv, Formed, SavePlayer, InHand
<1>2. r.cur \in Xuids /\ Sound(r.copies[r.cur])
    BY <1>1 DEF SoundCopies
<1>3. /\ players' = [y \in Xuids |-> players'[y]]
      /\ serially' = [y \in Xuids |-> serially'[y]]
      /\ players'[r.cur] = saved
      /\ serially'[r.cur] = IF serially[r.cur] = NoPlayer THEN NoPlayer
                            ELSE Changed(serially[r.cur], r.change)
      /\ \A y \in Xuids \ {r.cur} :
             players'[y] = players[y] /\ serially'[y] = serially[y]
      /\ store' = store
    BY <1>2 DEF SavePlayer, PlayersInv, RecordsTyped
<1>4. Becomes(w, q)
    BY DEF SavePlayer, Continue, LeftOver
<1>5. /\ Formed(q)
      /\ \A x \in InHand(q) : x \in InHand(r) \ {r.cur} /\ q.copies[x] = r.copies[x]
    <2>1. /\ SoundCopies(rest) /\ DOMAIN rest = DOMAIN r.copies \ {r.cur}
          /\ \A x \in DOMAIN r.copies \ {r.cur} : rest[x] = r.copies[x]
        BY <1>1, WithoutSound
    <2> HIDE DEF rest
    <2>2. /\ Formed(q)
          /\ \A x \in InHand(q) : x \in DOMAIN rest /\ q.copies[x] = rest[x]
        BY <1>1, <2>1, LeftOverFormed
    <2> HIDE DEF q
    <2> QED
        BY <1>1, <2>1, <2>2
<1>6. players'[r.cur] # NoPlayer => Sound(players'[r.cur])
    BY <1>1, <1>2, <1>3, ChangedSound
<1> HIDE DEF q
<1>7. /\ serving' = [v \in Servers |-> serving'[v]]
      /\ serving'[w] = q
      /\ \A v \in Servers \ {w} : serving'[v] = serving[v]
      /\ crossed \subseteq crossed'
    BY <1>4 DEF Becomes, PlayersInv, RecordsTyped
<1>8. RecordsTyped'
    BY <1>3, <1>7 DEF RecordsTyped, PlayersInv
<1>9. /\ \A y \in Xuids : players'[y] # NoPlayer => Sound(players'[y])
      /\ \A y \in Xuids : serially'[y] \in Player \cup {NoPlayer}
    <2>1. serially[r.cur] # NoPlayer => Changed(serially[r.cur], r.change) \in Player
        BY <1>1, <1>2, ChangedIsPlayer DEF PlayersInv
    <2> QED
        BY <1>2, <1>3, <1>6, <2>1 DEF PlayersInv
<1>10. \A v \in Servers : Formed(serving'[v])
    BY <1>5, <1>7 DEF PlayersInv
<1>11. ASSUME NEW x \in Xuids, x \notin crossed'
       PROVE  /\ players'[x] = serially'[x]
              /\ \A v \in Servers : x \in InHand(serving'[v])
                     => serving'[v].copies[x] = players'[x]
              /\ \A u, v \in Servers :
                     x \in InHand(serving'[u]) /\ x \in InHand(serving'[v]) => u = v
    <2>1. /\ players[x] = serially[x]
          /\ \A v \in Servers : x \in InHand(serving[v])
                    => serving[v].copies[x] = players[x]
          /\ \A u, v \in Servers :
                    x \in InHand(serving[u]) /\ x \in InHand(serving[v]) => u = v
        BY <1>7, <1>11 DEF PlayersInv, InOneHand
    <2>2. \A v \in Servers : x \in InHand(serving'[v])
             => /\ x \in InHand(serving[v]) /\ serving'[v].copies[x] = serving[v].copies[x]
                /\ v = w => x # r.cur
        BY <1>5, <1>7
    <2>3. CASE x = r.cur
        <3>1. r.copies[x] = players[x] /\ serially[x] = players[x] /\ players[x] # NoPlayer
            BY <1>1, <1>2, <2>1, <2>3, NoPlayerAssumption DEF Sound
        <3>2. players'[x] = serially'[x]
            BY <1>3, <2>3, <3>1
        <3>3. \A v \in Servers : x \notin InHand(serving'[v])
            BY <1>1, <2>1, <2>2, <2>3
        <3> QED
            BY <3>2, <3>3
    <2>4. CASE x # r.cur
        BY <1>3, <2>1, <2>2, <2>4
    <2> QED
        BY <2>3, <2>4
<1>12. \A x \in Xuids : InOneHand(x)'
    BY <1>11 DEF InOneHand
<1> QED
    BY <1>8, <1>9, <1>10, <1>12 DEF PlayersInv

-----------------------------------------------------------------------------
(* The other handlers.                                                      *)

LEMMA DeleteMyProfilesKeeps ==
    ASSUME PlayersInv, NEW w \in Servers, DeleteMyProfiles(w)
    PROVE  PlayersInv'
<1> DEFINE mine == {x \in Xuids : ConsoleOf[x] = serving[w].console}
<1>1. /\ players' = [x \in Xuids |-> IF x \in mine THEN NoPlayer ELSE players[x]]
      /\ serially' = [x \in Xuids |-> IF x \in mine THEN NoPlayer ELSE serially[x]]
      /\ crossed' = crossed \cup (mine \cap HeldBy(Servers))
      /\ serving' = [serving EXCEPT ![w] = Resting]
      /\ store' = store
    BY DEF DeleteMyProfiles
<1> HIDE DEF mine
<1>2. /\ serving' = [v \in Servers |-> serving'[v]]
      /\ serving'[w] = Resting
      /\ \A v \in Servers \ {w} : serving'[v] = serving[v]
    BY <1>1 DEF PlayersInv, RecordsTyped
<1>3. RecordsTyped'
    BY <1>1, <1>2 DEF RecordsTyped, PlayersInv
<1>4. /\ \A x \in Xuids : players'[x] # NoPlayer => Sound(players'[x])
      /\ \A x \in Xuids : serially'[x] \in Player \cup {NoPlayer}
    BY <1>1 DEF PlayersInv
<1>5. \A v \in Servers : Formed(serving'[v])
    BY <1>2, RestingFormed DEF PlayersInv
<1>6. \A v \in Servers : InHand(serving'[v]) # {} => serving'[v] = serving[v]
    BY <1>2, RestingFormed
<1>7. ASSUME NEW x \in Xuids, x \notin crossed'
      PROVE  InOneHand(x)'
    <2>1. InOneHand(x) /\ x \notin crossed
        BY <1>1, <1>7 DEF PlayersInv
    <2>2. x \in mine => \A v \in Servers : x \notin InHand(serving[v])
        BY <1>1, <1>7 DEF HeldBy
    <2>3. players'[x] = serially'[x] /\ (x \notin mine => players'[x] = players[x])
        BY <1>1, <2>1 DEF InOneHand
    <2>4. \A v \in Servers : x \in InHand(serving'[v])
             => x \in InHand(serving[v]) /\ serving'[v] = serving[v]
        BY <1>6
    <2> QED
        BY <2>1, <2>2, <2>3, <2>4 DEF InOneHand
<1>8. \A x \in Xuids : InOneHand(x)'
    BY <1>7 DEF InOneHand
<1> QED
    BY <1>3, <1>4, <1>5, <1>8 DEF PlayersInv

LEMMA SetSettingsKeeps ==
    ASSUME PlayersInv, NEW w \in Servers, NEW who \in SUBSET Xuids,
           NEW value \in SettingValues, SetSettings(w, who, value)
    PROVE  PlayersInv'
<1> DEFINE found == {x \in who : players[x] # NoPlayer}
           change == [settings |-> [k \in SettingIds |-> value]]
           copies == Copies(found)
           q == [pc |-> "loop", who |-> {}, copies |-> copies, change |-> change]
<1>1. Becomes(w, q) /\ players' = players /\ serially' = serially /\ store' = store
    BY DEF SetSettings, Begins
<1>2. WholeChange(change)
    BY ChangesWhole
<1>3. /\ SoundCopies(copies) /\ \A x \in DOMAIN copies : copies[x] = players[x]
    BY CopiesSound
<1> HIDE DEF change, copies
<1>4. Formed(q) /\ Fresh(w, q)
    BY <1>2, <1>3 DEF Formed, Fresh, InHand
<1> HIDE DEF q
<1> QED
    BY <1>1, <1>4, BecomesKeeps DEF PlayersInv, RecordsTyped

LEMMA ReadHostKeeps ==
    ASSUME PlayersInv, NEW w \in Servers, NEW x \in Xuids, NEW s \in SessionIds,
           NEW info \in SessionInfo, ReadHost(w, x, s, info)
    PROVE  PlayersInv'
<1> DEFINE copies == Copies({x})
           q == [pc |-> "create", session |-> s, info |-> info, copies |-> copies]
<1>1. Becomes(w, q) /\ players' = players /\ serially' = serially /\ store' = store
    BY DEF ReadHost, Begins
<1>2. /\ SoundCopies(copies) /\ \A y \in DOMAIN copies : copies[y] = players[y]
    BY CopiesSound DEF ReadHost
<1> HIDE DEF copies
<1>3. Formed(q) /\ Fresh(w, q)
    BY <1>2 DEF Formed, Fresh, InHand
<1> HIDE DEF q
<1> QED
    BY <1>1, <1>3, BecomesKeeps DEF PlayersInv, RecordsTyped

LEMMA CreateSessionKeeps ==
    ASSUME PlayersInv, NEW w \in Servers, CreateSession(w)
    PROVE  PlayersInv'
<1> DEFINE r == serving[w]
           change == IF r.info.friendsOnly
                     THEN [session |-> r.session, friendsOnly |-> TRUE]
                     ELSE [session |-> r.session]
           q == [pc |-> "loop", who |-> {}, copies |-> r.copies, change |-> change]
<1>1. /\ r.pc = "create" /\ r.info \in SessionInfo /\ SoundCopies(r.copies)
      /\ InHand(r) = DOMAIN r.copies
    BY DEF PlayersInv, Formed, CreateSession, InHand
<1>2. /\ players' = players /\ serially' = serially
      /\ store' \in [SessionIds -> SessionInfo \cup {Gone}]
    BY <1>1 DEF CreateSession, PlayersInv, RecordsTyped
<1>3. Becomes(w, q) \/ Becomes(w, Resting)
    BY DEF CreateSession
<1>4. CASE Becomes(w, Resting)
    BY <1>2, <1>4, EmptyHandsKeep, RestingFormed
<1>5. CASE Becomes(w, q)
    <2>1. WholeChange(change)
        BY ChangesWhole DEF PlayersInv, Formed, CreateSession
    <2> HIDE DEF change
    <2>2. Formed(q) /\ Fresh(w, q)
        BY <1>1, <2>1 DEF Formed, Fresh, InHand
    <2> HIDE DEF q
    <2> QED
        BY <1>2, <1>5, <2>2, BecomesKeeps
<1> QED
    BY <1>3, <1>4, <1>5

LEMMA HostStateFormed ==
    ASSUME PlayersInv, NEW s \in SessionIds, store[s] # Gone,
           NEW friendsOnly \in BOOLEAN
    PROVE  Formed(HostState(s, friendsOnly)) /\ InHand(HostState(s, friendsOnly)) = {}
<1>1. store[s].host \in Xuids
    BY DEF PlayersInv, RecordsTyped, SessionInfo
<1>2. WholeChange([friendsOnly |-> friendsOnly])
    BY ChangesWhole
<1> QED
    BY <1>1, <1>2, LoopingFormed DEF HostState

LEMMA DeleteSessionKeeps ==
    ASSUME PlayersInv, NEW w \in Servers, DeleteSession(w)
    PROVE  PlayersInv'
<1> DEFINE s == serving[w].session
<1>1. /\ players' = players /\ serially' = serially
      /\ store' \in [SessionIds -> SessionInfo \cup {Gone}]
    BY DEF DeleteSession, PlayersInv, RecordsTyped
<1>2. CASE Becomes(w, Resting)
    BY <1>1, <1>2, EmptyHandsKeep, RestingFormed
<1>3. CASE store[s] # Gone /\ Becomes(w, HostState(s, FALSE))
    <2>1. s \in SessionIds
        BY DEF PlayersInv, Formed, DeleteSession
    <2> QED
        BY <1>1, <1>3, <2>1, EmptyHandsKeep, HostStateFormed
<1> QED
    BY <1>2, <1>3 DEF DeleteSession

LEMMA FindOwnerKeeps ==
    ASSUME PlayersInv, NEW w \in Servers, FindOwner(w)
    PROVE  PlayersInv'
<1>1. /\ players' = players /\ serially' = serially
      /\ store' \in [SessionIds -> SessionInfo \cup {Gone}]
    BY DEF FindOwner, PlayersInv, RecordsTyped
<1>2. CASE Becomes(w, Resting)
    BY <1>1, <1>2, EmptyHandsKeep, RestingFormed
<1>3. ASSUME NEW x \in Xuids, players[x] # NoPlayer,
             Becomes(w, [pc |-> "loop", who |-> {}, change |-> ResetChange,
                         copies |-> Copies({x})])
      PROVE  PlayersInv'
    <2> DEFINE copies == Copies({x})
               q == [pc |-> "loop", who |-> {}, change |-> ResetChange, copies |-> copies]
    <2>1. Becomes(w, q)
        BY <1>3
    <2>2. /\ SoundCopies(copies) /\ \A y \in DOMAIN copies : copies[y] = players[y]
        BY <1>3, CopiesSound
    <2>3. WholeChange(ResetChange)
        BY ChangesWhole
    <2> HIDE DEF copies
    <2>4. Formed(q) /\ Fresh(w, q)
        BY <2>2, <2>3 DEF Formed, Fresh, InHand
    <2> HIDE DEF q
    <2> QED
        BY <1>1, <2>1, <2>4, BecomesKeeps
<1> QED
    BY <1>2, <1>3 DEF FindOwner

\* A request that starts by listing the players it is about.
LEMMA ListKeeps ==
    ASSUME PlayersInv, NEW w \in Servers, NEW who \in SUBSET Xuids, NEW change,
           WholeChange(change), Becomes(w, Looping(who, change)),
           players' = players, serially' = serially,
           store' \in [SessionIds -> SessionInfo \cup {Gone}]
    PROVE  PlayersInv'
BY LoopingFormed, EmptyHandsKeep

-----------------------------------------------------------------------------
LEMMA PlayersInitSound == PlayersInit => PlayersInv
<1> SUFFICES ASSUME PlayersInit PROVE PlayersInv
    OBVIOUS
<1>1. RecordsTyped
    BY DEF PlayersInit, RecordsTyped
<1>2. \A x \in Xuids : players[x] # NoPlayer => Sound(players[x])
    BY RegisteredSound DEF PlayersInit
<1>5. \A x \in Xuids : serially[x] \in Player \cup {NoPlayer}
    BY <1>2 DEF PlayersInit, Sound
<1>3. \A w \in Servers : serving[w] = Resting
    BY DEF PlayersInit
<1>4. \A x \in Xuids : InOneHand(x)
    BY <1>3, RestingFormed DEF PlayersInit, InOneHand
<1> QED
    BY <1>1, <1>2, <1>3, <1>4, <1>5, RestingFormed DEF PlayersInv

LEMMA ServeKeeps ==
    ASSUME PlayersInv, NEW w \in Servers, Serve(w)
    PROVE  PlayersInv'
BY DeleteMyProfilesKeeps, CreateSessionKeeps, DeleteSessionKeeps, FindOwnerKeeps,
   ReadPlayerKeeps, FindAgainKeeps, SavePlayerKeeps DEF Serve

\* The requests about one session.
SessionRequest(w, s) ==
    \/ \E who \in Some :
         \/ PreJoin(w, s, who)
         \/ JoinSession(w, s, who)
         \/ LeaveSession(w, s, who)
    \/ \E adv, fo \in BOOLEAN : ModifySession(w, s, adv, fo)
    \/ CheckOwner(w, s)
    \/ \E new \in SessionIds \ ChosenIds, x \in Xuids : MigrateSession(w, s, new, x)

LEMMA SessionRequestKeeps ==
    ASSUME PlayersInv, NEW w \in Servers, NEW s \in SessionIds, SessionRequest(w, s)
    PROVE  PlayersInv'
<1>1. store \in [SessionIds -> SessionInfo \cup {Gone}]
    BY DEF PlayersInv, RecordsTyped
<1>2. ASSUME NEW who \in Some, PreJoin(w, s, who) PROVE PlayersInv'
    BY <1>1, <1>2, ListKeeps, ChangesWhole DEF PreJoin, Begins, Some
<1>3. ASSUME NEW who \in Some, LeaveSession(w, s, who) PROVE PlayersInv'
    <2>1. (IF store[s].advertised THEN who ELSE {}) \in SUBSET Xuids
        BY DEF Some
    <2> QED
        BY <1>1, <1>3, <2>1, ListKeeps, ChangesWhole DEF LeaveSession, Begins
<1>4. ASSUME NEW adv \in BOOLEAN, NEW fo \in BOOLEAN, ModifySession(w, s, adv, fo)
      PROVE  PlayersInv'
    <2>1. /\ store[s] # Gone /\ Becomes(w, HostState(s, fo))
          /\ players' = players /\ serially' = serially
        BY <1>4 DEF ModifySession, Begins
    <2>2. store' \in [SessionIds -> SessionInfo \cup {Gone}]
        <3>1. store[s] \in SessionInfo
            BY <1>1, <2>1
        <3>2. [store[s] EXCEPT !.advertised = adv, !.friendsOnly = fo] \in SessionInfo
            BY <3>1 DEF SessionInfo
        <3> QED
            BY <1>1, <1>4, <3>2 DEF ModifySession
    <2> QED
        BY <2>1, <2>2, HostStateFormed, EmptyHandsKeep
<1>5. ASSUME CheckOwner(w, s) PROVE PlayersInv'
    <2> DEFINE q == [pc |-> "delete", session |-> s]
    <2>1. Formed(q) /\ InHand(q) = {}
        BY DEF Formed, InHand
    <2> QED
        BY <1>1, <1>5, <2>1, EmptyHandsKeep DEF CheckOwner, Begins
<1>6. ASSUME NEW new \in SessionIds \ ChosenIds, NEW x \in Xuids,
             MigrateSession(w, s, new, x)
      PROVE  PlayersInv'
    <2>1. (IF store[s].advertised THEN {x} ELSE {}) \in SUBSET Xuids
        OBVIOUS
    <2>2. store' \in [SessionIds -> SessionInfo \cup {Gone}]
        <3>1. store[s] \in SessionInfo
            BY <1>1, <1>6 DEF MigrateSession
        <3>2. [store[s] EXCEPT !.host = x] \in SessionInfo
            BY <3>1 DEF SessionInfo
        <3> QED
            BY <1>1, <1>6, <3>2 DEF MigrateSession
    <2> QED
        BY <1>6, <2>1, <2>2, ListKeeps, ChangesWhole DEF MigrateSession, Begins
<1> QED
    BY <1>2, <1>3, <1>4, <1>5, <1>6 DEF SessionRequest, JoinSession

\* The requests about a console or a list of players.
PlayerRequest(w) ==
    \/ \E c \in Consoles : FindMyProfiles(w, c) \/ PurgeConsole(w, c)
    \/ \E who \in Some :
         \/ \E text \in Phrases \ {0} : SetPresence(w, who, text)
         \/ \E v \in SettingValues \ {0} : SetSettings(w, who, v)

LEMMA PlayerRequestKeeps ==
    ASSUME PlayersInv, NEW w \in Servers, PlayerRequest(w)
    PROVE  PlayersInv'
<1>1. store \in [SessionIds -> SessionInfo \cup {Gone}]
    BY DEF PlayersInv, RecordsTyped
<1>2. ASSUME NEW c \in Consoles, FindMyProfiles(w, c) PROVE PlayersInv'
    <2> DEFINE q == [pc |-> "purge", console |-> c]
    <2>1. Formed(q) /\ InHand(q) = {}
        BY DEF Formed, InHand
    <2> QED
        BY <1>1, <1>2, <2>1, EmptyHandsKeep DEF FindMyProfiles, Begins
<1>3. ASSUME NEW c \in Consoles, PurgeConsole(w, c) PROVE PlayersInv'
    <2> DEFINE q == [pc |-> "reset", console |-> c]
    <2>1. Formed(q) /\ InHand(q) = {}
        BY DEF Formed, InHand
    <2>2. store' \in [SessionIds -> SessionInfo \cup {Gone}]
        BY <1>1, <1>3 DEF PurgeConsole
    <2> QED
        BY <1>3, <2>1, <2>2, EmptyHandsKeep DEF PurgeConsole, Begins
<1>4. ASSUME NEW who \in Some, NEW text \in Phrases \ {0}, SetPresence(w, who, text)
      PROVE  PlayersInv'
    BY <1>1, <1>4, ListKeeps, ChangesWhole DEF SetPresence, Begins, Some
<1>5. ASSUME NEW who \in Some, NEW v \in SettingValues \ {0}, SetSettings(w, who, v)
      PROVE  PlayersInv'
    BY <1>5, SetSettingsKeeps DEF Some
<1> QED
    BY <1>2, <1>3, <1>4, <1>5 DEF PlayerRequest

LEMMA PlayersStep ==
    ASSUME PlayersInv, [PlayersNext]_playersVars
    PROVE  PlayersInv'
<1>1. CASE UNCHANGED playersVars
    BY <1>1 DEF playersVars, PlayersInv, RecordsTyped, InOneHand
<1>2. ASSUME NEW x \in Xuids, NEW held \in Uploads, Register(x, held)
      PROVE  PlayersInv'
    BY <1>2, ReplaceKeeps, RegisteredSound DEF Register
<1>3. ASSUME NEW x \in Xuids, ExpirePlayer(x)
      PROVE  PlayersInv'
    BY <1>3, ReplaceKeeps DEF ExpirePlayer
<1>4. ASSUME NEW s \in SessionIds, SetProperties(s)
      PROVE  PlayersInv'
    <2>1. [store[s] EXCEPT !.properties = TRUE] \in SessionInfo
        BY <1>4 DEF SetProperties, PlayersInv, RecordsTyped, SessionInfo
    <2>2. store' \in [SessionIds -> SessionInfo \cup {Gone}]
        BY <1>4, <2>1 DEF SetProperties, PlayersInv, RecordsTyped
    <2> QED
        BY <1>4, <2>2 DEF SetProperties, PlayersInv, RecordsTyped, InOneHand
<1>5. ASSUME NEW w \in Servers, NEW s \in ChosenIds, NEW x \in Xuids,
             NEW adv \in BOOLEAN, NEW fo \in BOOLEAN,
             ReadHost(w, x, s, [host |-> x, advertised |-> adv,
                                friendsOnly |-> fo, properties |-> FALSE])
      PROVE  PlayersInv'
    <2>1. /\ s \in SessionIds
          /\ [host |-> x, advertised |-> adv, friendsOnly |-> fo, properties |-> FALSE]
                \in SessionInfo
        BY PlayersAssumption DEF SessionInfo
    <2> QED
        BY <1>5, <2>1, ReadHostKeeps
<1>6. CASE PlayersNext
    BY <1>2, <1>3, <1>4, <1>5, <1>6, ServeKeeps, SessionRequestKeeps, PlayerRequestKeeps
    DEF PlayersNext, SessionRequest, PlayerRequest
<1> QED
    BY <1>1, <1>6

LEMMA PlayersInvariant == PlayersSpec => []PlayersInv
<1>1. PlayersInv /\ [PlayersNext]_playersVars => PlayersInv'
    BY PlayersStep
<1> QED
    BY <1>1, PlayersInitSound, PTL DEF PlayersSpec

\* What a step adds to the histories: players that were in some request's hands.
Counts ==
    /\ started' \in {started, started + 1}
    /\ started' # started => started < MaxRequests
    /\ crossed' \subseteq crossed \cup HeldBy(Servers)

LEMMA BecomesCounts ==
    ASSUME NEW w \in Servers, NEW q, Becomes(w, q),
           Counted \/ started' = started
    PROVE  Counts
BY DEF Becomes, Counted, Counts, HeldBy

LEMMA ServeCounts ==
    ASSUME NEW w \in Servers, Serve(w)
    PROVE  Counts
<1>1. CASE DeleteMyProfiles(w)
    BY <1>1 DEF DeleteMyProfiles, Counts
<1>2. CASE CreateSession(w)
    BY <1>2, BecomesCounts DEF CreateSession
<1>3. CASE DeleteSession(w)
    BY <1>3, BecomesCounts DEF DeleteSession
<1>4. CASE FindOwner(w)
    BY <1>4, BecomesCounts DEF FindOwner
<1>5. CASE ReadPlayer(w)
    BY <1>5, BecomesCounts DEF ReadPlayer, Continue
<1>6. CASE FindAgain(w)
    BY <1>6, BecomesCounts DEF FindAgain, Continue
<1>7. CASE SavePlayer(w)
    BY <1>7, BecomesCounts DEF SavePlayer, Continue
<1> QED
    BY <1>1, <1>2, <1>3, <1>4, <1>5, <1>6, <1>7 DEF Serve

LEMMA NextCounts ==
    ASSUME [PlayersNext]_playersVars
    PROVE  Counts
<1>1. CASE UNCHANGED playersVars
    BY <1>1 DEF playersVars, Counts
<1>2. ASSUME NEW x \in Xuids, NEW record, Replace(x, record)
      PROVE  Counts
    BY <1>2 DEF Replace, Counted, Counts
<1>3. ASSUME NEW s \in SessionIds, SetProperties(s)
      PROVE  Counts
    BY <1>3 DEF SetProperties, Counts
<1>4. ASSUME NEW w \in Servers, NEW q, Begins(w, q)
      PROVE  Counts
    BY <1>4, BecomesCounts DEF Begins
<1>5. CASE PlayersNext
    BY <1>2, <1>3, <1>4, <1>5, ServeCounts
    DEF PlayersNext, Register, ExpirePlayer, FindMyProfiles, PurgeConsole, SetPresence,
        SetSettings, PreJoin, JoinSession, LeaveSession, ModifySession, CheckOwner,
        MigrateSession, ReadHost
<1> QED
    BY <1>1, <1>5

Bounded == crossed \subseteq Xuids /\ started \in 0..MaxRequests

\* The invariant gives the types of all but what is counted.
LEMMA TypesFollow == PlayersInv /\ Bounded => PlayersTypeOK
<1> SUFFICES ASSUME PlayersInv, Bounded PROVE PlayersTypeOK
    OBVIOUS
<1>1. players \in [Xuids -> Player \cup {NoPlayer}]
    BY DEF PlayersInv, RecordsTyped, Sound
<1>2. serially \in [Xuids -> Player \cup {NoPlayer}]
    BY DEF PlayersInv, RecordsTyped
<1>3. \A w \in Servers : InHand(serving[w]) \subseteq Xuids
    BY DEF PlayersInv, Formed, InHand, SoundCopies
<1> QED
    BY <1>1, <1>2, <1>3 DEF PlayersTypeOK, PlayersInv, RecordsTyped, Bounded

(* The player records, the requests that hold copies of them and the histories
   keep their types: a save never stores anything but a whole record. *)
THEOREM PlayersAreTyped == PlayersSpec => []PlayersTypeOK
<1>1. PlayersInit => Bounded
    BY PlayersAssumption DEF PlayersInit, Bounded
<1>2. PlayersInv /\ Bounded /\ [PlayersNext]_playersVars => Bounded'
    <2> SUFFICES ASSUME PlayersInv, Bounded, [PlayersNext]_playersVars
                 PROVE  Bounded'
        OBVIOUS
    <2>1. HeldBy(Servers) \subseteq Xuids
        BY TypesFollow DEF PlayersTypeOK, HeldBy
    <2>2. crossed' \subseteq Xuids
        BY <2>1, NextCounts DEF Counts, Bounded
    <2>3. started' \in 0..MaxRequests
        BY NextCounts, PlayersAssumption DEF Counts, Bounded
    <2> QED
        BY <2>2, <2>3 DEF Bounded
<1> QED
    BY <1>1, <1>2, PlayersInvariant, TypesFollow, PTL DEF PlayersSpec

(* However many requests overlap, UpdatePlayerCommand loses an update of a
   player, or brings a deleted one back, only when two requests had that player
   in hand at once. *)
THEOREM OnlyCrossedUpdatesLost == PlayersSpec => []UncrossedUpdatesKept
<1>1. PlayersInv => UncrossedUpdatesKept
    BY DEF PlayersInv, InOneHand, UncrossedUpdatesKept
<1> QED
    BY <1>1, PlayersInvariant, PTL

(* A record holds all the settings of one SetSettings request or the uploaded
   ones, also where stale copies were saved over each other and where
   updateSettings threw half way. *)
THEOREM SettingsStayWhole == PlayersSpec => []SettingsAllOrNothing
<1>1. PlayersInv => SettingsAllOrNothing
    BY DEF PlayersInv, Sound, Uniform, SettingsAllOrNothing
<1> QED
    BY <1>1, PlayersInvariant, PTL

-----------------------------------------------------------------------------
(* Accounts and tokens.                                                    *)

\* A password that is stored was set, and so was one a token is about to be
\* minted on; an account whose password was set has a credential.
PasswordsSet ==
    /\ \A x \in Accts : creds[x] # Unclaimed => creds[x].pass \in had[x]
    /\ \A c \in AuthCalls : authing[c].pc = "mint" =>
          /\ creds[authing[c].owner] # Unclaimed
          /\ authing[c].pass \in had[authing[c].owner]

AInv == AccountsTypeOK /\ PasswordsSet /\ TokensFromPasswords

-----------------------------------------------------------------------------
(* Requests in flight, by their step. *)
LEMMA AuthByPc ==
    ASSUME NEW r \in AuthRequests
    PROVE  /\ r.pc = "claim" =>
                 r.owner \in Accts /\ r.pass \in Passwords /\ r.code \in CodeIds
           /\ r.pc = "mint" =>
                 r.owner \in Accts /\ r.pass \in Passwords /\ r.code \in CodeIds \cup {NoCode}
           /\ r.pc \in {"reread", "reset"} => r.owner \in Accts /\ r.pass \in Passwords
           /\ r.pc = "purge" => r.owner \in Accts /\ r.code \in CodeIds
           /\ r.pc \in {"slide", "drop"} => r.owner \in Accts /\ r.id \in TokenIds
BY DEF AuthRequests, AtRest

LEMMA RestIsRequest == AtRest \in AuthRequests /\ AtRest.pc = "idle"
BY DEF AuthRequests, AtRest

LEMMA MintIsRequest ==
    ASSUME NEW x \in Accts, NEW pass \in Passwords, NEW code \in CodeIds \cup {NoCode}
    PROVE  ToMint(x, pass, code) \in AuthRequests
BY DEF AuthRequests, ToMint

(* Going on with a request keeps what is said of the requests. *)
LEMMA AwaitsType ==
    ASSUME AccountsTypeOK, NEW c \in AuthCalls, NEW r \in AuthRequests, Awaits(c, r)
    PROVE  /\ authing' \in [AuthCalls -> AuthRequests]
           /\ authing'[c] = r
           /\ \A d \in AuthCalls : d # c => authing'[d] = authing[d]
           /\ tangled' \subseteq Accts
<1>1. authing' \in [AuthCalls -> AuthRequests] /\ authing'[c] = r
      /\ \A d \in AuthCalls : d # c => authing'[d] = authing[d]
  BY DEF AccountsTypeOK, Awaits
<1>2. Changing(r) => r.owner \in Accts
  BY DEF Changing, AuthRequests, AtRest
<1>3. tangled' \subseteq Accts
  BY <1>2 DEF AccountsTypeOK, Awaits
<1> QED BY <1>1, <1>3

(* A request goes on, and nothing else changes. *)
LEMMA GoesOn ==
    ASSUME AInv, NEW c \in AuthCalls, NEW r \in AuthRequests, Awaits(c, r),
           r.pc = "mint" => creds[r.owner] # Unclaimed /\ r.pass \in had[r.owner],
           UNCHANGED <<creds, tokens, knows, had>>
    PROVE  AInv'
<1>1. /\ authing' \in [AuthCalls -> AuthRequests]
      /\ authing'[c] = r
      /\ \A d \in AuthCalls : d # c => authing'[d] = authing[d]
      /\ tangled' \subseteq Accts
  BY AwaitsType DEF AInv
<1>2. AccountsTypeOK'
  BY <1>1 DEF AInv, AccountsTypeOK
<1>3. PasswordsSet'
  BY <1>1 DEF AInv, PasswordsSet
<1>4. TokensFromPasswords'
  BY DEF AInv, TokensFromPasswords
<1> QED BY <1>2, <1>3, <1>4 DEF AInv

(* Tokens go, or are written again for the same owner and password. *)
LEMMA FewerTokens ==
    ASSUME AInv, UNCHANGED <<creds, had>>,
           \A c \in AuthCalls : authing'[c] = authing[c] \/ authing'[c] = AtRest,
           authing' \in [AuthCalls -> AuthRequests],
           knows' \in [Accts -> CodeIds \cup {NoCode}],
           tangled' \subseteq Accts,
           \A t \in tokens' : /\ t \in Token
                              /\ \E u \in tokens : u.owner = t.owner /\ u.pass = t.pass
    PROVE  AInv'
<1>1. AccountsTypeOK'
  BY DEF AInv, AccountsTypeOK
<1>2. PasswordsSet'
  BY RestIsRequest DEF AInv, PasswordsSet
<1>3. TokensFromPasswords'
  BY DEF AInv, TokensFromPasswords
<1> QED BY <1>1, <1>2, <1>3 DEF AInv

(* A password and a code are stored, and the request goes on. *)
LEMMA CredentialSet ==
    ASSUME AInv, NEW c \in AuthCalls, NEW r \in AuthRequests, Awaits(c, r),
           NEW x \in Accts, NEW pass \in Passwords, NEW code \in CodeIds,
           r.pc = "mint" => r.owner = x /\ r.pass = pass,
           creds' = [creds EXCEPT ![x] = [pass |-> pass, code |-> code]],
           had' = [had EXCEPT ![x] = @ \cup {pass}],
           UNCHANGED <<tokens, knows>>
    PROVE  AInv'
<1> DEFINE new == [pass |-> pass, code |-> code]
<1>1. /\ authing' \in [AuthCalls -> AuthRequests]
      /\ authing'[c] = r
      /\ \A d \in AuthCalls : d # c => authing'[d] = authing[d]
      /\ tangled' \subseteq Accts
  BY AwaitsType DEF AInv
<1>2. new \in Credential /\ new # Unclaimed
  <2>1. new \in Credential
    BY DEF Credential
  <2> QED BY <2>1, UnclaimedAssumption
<1>3. /\ creds' \in [Accts -> Credential \cup {Unclaimed}]
      /\ creds'[x] = new
      /\ \A y \in Accts : y # x => creds'[y] = creds[y]
  BY <1>2 DEF AInv, AccountsTypeOK
<1>4. /\ had' \in [Accts -> SUBSET Passwords]
      /\ had'[x] = had[x] \cup {pass}
      /\ \A y \in Accts : had[y] \subseteq had'[y]
  BY DEF AInv, AccountsTypeOK
<1> HIDE DEF new
<1>5. \A y \in Accts : creds[y] # Unclaimed => creds'[y] # Unclaimed
  BY <1>2, <1>3
<1>6. AccountsTypeOK'
  BY <1>1, <1>3, <1>4 DEF AInv, AccountsTypeOK
<1>7. PasswordsSet'
  <2>1. \A y \in Accts : creds'[y] # Unclaimed => creds'[y].pass \in had'[y]
    <3>1. creds'[x].pass \in had'[x]
      BY <1>3, <1>4 DEF new
    <3>2. \A y \in Accts : y # x /\ creds'[y] # Unclaimed => creds'[y].pass \in had'[y]
      BY <1>3, <1>4 DEF AInv, PasswordsSet
    <3> QED BY <3>1, <3>2
  <2>2. ASSUME NEW d \in AuthCalls, authing'[d].pc = "mint"
        PROVE  /\ creds'[authing'[d].owner] # Unclaimed
               /\ authing'[d].pass \in had'[authing'[d].owner]
    <3>1. CASE d = c
      BY <1>1, <1>2, <1>3, <1>4, <2>2, <3>1
    <3>2. CASE d # c
      <4>1. authing'[d] = authing[d] /\ authing[d].pc = "mint"
        BY <1>1, <2>2, <3>2
      <4>2. authing[d].owner \in Accts
        BY <4>1, AuthByPc DEF AInv, AccountsTypeOK
      <4> QED BY <1>4, <1>5, <4>1, <4>2 DEF AInv, PasswordsSet
    <3> QED BY <3>1, <3>2
  <2> QED BY <2>1, <2>2 DEF PasswordsSet
<1>8. TokensFromPasswords'
  <2>1. \A t \in tokens : t.owner \in Accts
    BY DEF AInv, AccountsTypeOK, Token
  <2> QED BY <1>4, <1>5, <2>1 DEF AInv, TokensFromPasswords
<1> QED BY <1>6, <1>7, <1>8 DEF AInv

-----------------------------------------------------------------------------
LEMMA RegisterKeeps ==
    ASSUME AInv, NEW c \in AuthCalls, NEW x \in Accts, NEW pass \in Passwords,
           RegisterOrReissue(c, x, pass) \/ IssueToken(c, x, pass)
    PROVE  AInv'
<1>1. UNCHANGED <<creds, tokens, knows, had>>
  BY DEF RegisterOrReissue, IssueToken
<1>2. CASE Matches(x, pass) /\ Awaits(c, ToMint(x, pass, NoCode))
  <2>1. creds[x] # Unclaimed /\ pass \in had[x]
    BY <1>2 DEF Matches, AInv, PasswordsSet
  <2> DEFINE r == ToMint(x, pass, NoCode)
  <2>2. r \in AuthRequests /\ r.owner = x /\ r.pass = pass
    BY MintIsRequest DEF ToMint
  <2> QED BY <1>1, <1>2, <2>1, <2>2, GoesOn
<1>3. CASE \E code \in CodeIds : Awaits(c, [pc |-> "claim", owner |-> x, pass |-> pass,
                                            code |-> code])
  <2>1. PICK code \in CodeIds : Awaits(c, [pc |-> "claim", owner |-> x, pass |-> pass,
                                           code |-> code])
    BY <1>3
  <2> DEFINE r == [pc |-> "claim", owner |-> x, pass |-> pass, code |-> code]
  <2>2. r \in AuthRequests /\ r.pc # "mint"
    BY DEF AuthRequests
  <2> QED BY <1>1, <2>1, <2>2, GoesOn
<1> QED BY <1>2, <1>3 DEF RegisterOrReissue, IssueToken

LEMMA ClaimKeeps ==
    ASSUME AInv, NEW c \in AuthCalls, Claim(c)
    PROVE  AInv'
<1> DEFINE r == authing[c]
<1>1. r \in AuthRequests /\ r.pc = "claim" /\ r.owner \in Accts /\ r.pass \in Passwords
      /\ r.code \in CodeIds
  <2>1. r \in AuthRequests /\ r.pc = "claim"
    BY DEF Claim, AInv, AccountsTypeOK
  <2> QED BY <2>1, AuthByPc
<1>2. CASE ~Claimable(r.owner)
  <2> DEFINE q == [pc |-> "reread", owner |-> r.owner, pass |-> r.pass]
  <2>1. q \in AuthRequests /\ q.pc # "mint"
    BY <1>1 DEF AuthRequests
  <2>2. Awaits(c, q) /\ UNCHANGED <<creds, tokens, knows, had>>
    BY <1>2 DEF Claim
  <2> QED BY <2>1, <2>2, GoesOn
<1>3. CASE Claimable(r.owner)
  <2> DEFINE q == ToMint(r.owner, r.pass, r.code)
  <2>1. q \in AuthRequests /\ q.pc = "mint" /\ q.owner = r.owner /\ q.pass = r.pass
    BY <1>1, MintIsRequest DEF ToMint
  <2>2. /\ Awaits(c, q)
        /\ creds' = [creds EXCEPT ![r.owner] = [pass |-> r.pass, code |-> r.code]]
        /\ had' = [had EXCEPT ![r.owner] = @ \cup {r.pass}]
        /\ UNCHANGED <<tokens, knows>>
    BY <1>3 DEF Claim
  <2> QED BY <1>1, <2>1, <2>2, CredentialSet
<1> QED BY <1>2, <1>3

LEMMA RereadKeeps ==
    ASSUME AInv, NEW c \in AuthCalls, Reread(c)
    PROVE  AInv'
<1> DEFINE q == AfterReread(authing[c].owner, authing[c].pass)
<1>1. authing[c].owner \in Accts /\ authing[c].pass \in Passwords
  BY AuthByPc DEF Reread, AInv, AccountsTypeOK
<1>2. q \in AuthRequests
  BY <1>1, MintIsRequest, RestIsRequest DEF AfterReread
<1>3. q.pc = "mint" => creds[q.owner] # Unclaimed /\ q.pass \in had[q.owner]
  BY <1>1, RestIsRequest DEF AfterReread, ToMint, Matches, AInv, PasswordsSet
<1> QED BY <1>2, <1>3, GoesOn DEF Reread

LEMMA MintKeeps ==
    ASSUME AInv, NEW c \in AuthCalls, Mint(c)
    PROVE  AInv'
<1> DEFINE r == authing[c]
<1>1. r.pc = "mint" /\ r.owner \in Accts /\ r.pass \in Passwords
      /\ r.code \in CodeIds \cup {NoCode}
  BY AuthByPc DEF Mint, AInv, AccountsTypeOK
<1>2. PICK id \in TokenIds \ HeldTokens : tokens' = tokens \cup
          {[id |-> id, owner |-> r.owner, pass |-> r.pass, stale |-> FALSE]}
  BY DEF Mint
<1> DEFINE new == [id |-> id, owner |-> r.owner, pass |-> r.pass, stale |-> FALSE]
<1>3. new \in Token
  BY <1>1 DEF Token
<1>4. /\ authing' \in [AuthCalls -> AuthRequests]
      /\ authing'[c] = AtRest
      /\ \A d \in AuthCalls : d # c => authing'[d] = authing[d]
      /\ tangled' \subseteq Accts
  BY RestIsRequest, AwaitsType DEF AInv, Mint
<1>5. knows' \in [Accts -> CodeIds \cup {NoCode}]
  BY <1>1 DEF Mint, AInv, AccountsTypeOK
<1>6. UNCHANGED <<creds, had>>
  BY DEF Mint
<1>7. AccountsTypeOK'
  BY <1>2, <1>3, <1>4, <1>5, <1>6 DEF AInv, AccountsTypeOK
<1>8. PasswordsSet'
  BY <1>4, <1>6, RestIsRequest DEF AInv, PasswordsSet
<1>9. TokensFromPasswords'
  <2>1. creds[new.owner] # Unclaimed /\ new.pass \in had[new.owner]
    BY <1>1 DEF AInv, PasswordsSet
  <2> HIDE DEF new
  <2>2. tokens' = tokens \cup {new}
    BY <1>2 DEF new
  <2> QED BY <1>6, <2>1, <2>2 DEF AInv, TokensFromPasswords
<1> QED BY <1>7, <1>8, <1>9 DEF AInv

LEMMA RecoverKeeps ==
    ASSUME AInv, NEW c \in AuthCalls, NEW x \in Accts, NEW pass \in Passwords,
           Recover(c, x, pass)
    PROVE  AInv'
<1> DEFINE q == [pc |-> "reset", owner |-> x, pass |-> pass]
<1>1. q \in AuthRequests /\ q.pc # "mint"
  BY DEF AuthRequests
<1> QED BY <1>1, GoesOn DEF Recover

LEMMA ResetKeeps ==
    ASSUME AInv, NEW c \in AuthCalls, ResetPassword(c)
    PROVE  AInv'
<1> DEFINE r == authing[c]
<1>1. r.owner \in Accts /\ r.pass \in Passwords
  BY AuthByPc DEF ResetPassword, AInv, AccountsTypeOK
<1>2. PICK code \in CodeIds :
          /\ creds' = [creds EXCEPT ![r.owner] = [pass |-> r.pass, code |-> code]]
          /\ Awaits(c, [pc |-> "purge", owner |-> r.owner, code |-> code])
  BY DEF ResetPassword
<1> DEFINE q == [pc |-> "purge", owner |-> r.owner, code |-> code]
<1>3. q \in AuthRequests /\ q.pc # "mint"
  BY <1>1 DEF AuthRequests
<1> QED BY <1>1, <1>2, <1>3, CredentialSet DEF ResetPassword

LEMMA TokensGoKeeps ==
    ASSUME AInv, NEW c \in AuthCalls, PurgeTokens(c) \/ SlideToken(c) \/ DropToken(c)
    PROVE  AInv'
<1> DEFINE r == authing[c]
<1>1. Awaits(c, AtRest) /\ UNCHANGED <<creds, had>>
  BY DEF PurgeTokens, SlideToken, DropToken
<1>2. /\ authing' \in [AuthCalls -> AuthRequests]
      /\ \A d \in AuthCalls : authing'[d] = authing[d] \/ authing'[d] = AtRest
      /\ tangled' \subseteq Accts
  BY <1>1, RestIsRequest, AwaitsType DEF AInv
<1>3. knows' \in [Accts -> CodeIds \cup {NoCode}]
  <2>1. CASE PurgeTokens(c)
    <3>1. r.owner \in Accts /\ r.code \in CodeIds
      BY <2>1, AuthByPc DEF PurgeTokens, AInv, AccountsTypeOK
    <3> QED BY <2>1, <3>1 DEF PurgeTokens, AInv, AccountsTypeOK
  <2>2. CASE SlideToken(c) \/ DropToken(c)
    BY <2>2 DEF SlideToken, DropToken, AInv, AccountsTypeOK
  <2> QED BY <2>1, <2>2
<1>4. \A t \in tokens' : /\ t \in Token
                         /\ \E u \in tokens : u.owner = t.owner /\ u.pass = t.pass
  <2>1. CASE PurgeTokens(c) \/ DropToken(c)
    BY <2>1 DEF PurgeTokens, Purged, DropToken, AInv, AccountsTypeOK
  <2>2. CASE SlideToken(c)
    <3> DEFINE S(t) == IF t.id = r.id THEN [t EXCEPT !.stale = FALSE] ELSE t
    <3>1. \A t \in tokens : S(t) \in Token /\ S(t).owner = t.owner /\ S(t).pass = t.pass
      BY DEF AInv, AccountsTypeOK, Token
    <3>2. tokens' = {S(t) : t \in tokens}
      BY <2>2 DEF SlideToken, Slid
    <3> HIDE DEF S
    <3> QED BY <3>1, <3>2
  <2> QED BY <2>1, <2>2
<1> QED BY <1>1, <1>2, <1>3, <1>4, FewerTokens

LEMMA TokenStepKeeps ==
    ASSUME AInv, NEW t \in tokens, Revoke(t) \/ GoesStale(t) \/ ExpireToken(t)
    PROVE  AInv'
<1>1. UNCHANGED <<creds, authing, knows, had, tangled>>
  BY DEF Revoke, GoesStale, ExpireToken
<1>2. \A s \in tokens' : /\ s \in Token
                         /\ \E u \in tokens : u.owner = s.owner /\ u.pass = s.pass
  <2>1. CASE Revoke(t) \/ ExpireToken(t)
    BY <2>1 DEF Revoke, ExpireToken, AInv, AccountsTypeOK
  <2>2. CASE GoesStale(t)
    <3> DEFINE new == [t EXCEPT !.stale = TRUE]
    <3>1. new \in Token /\ new.owner = t.owner /\ new.pass = t.pass
      BY DEF AInv, AccountsTypeOK, Token
    <3>2. tokens' = (tokens \ {t}) \cup {new}
      BY <2>2 DEF GoesStale
    <3> HIDE DEF new
    <3> QED BY <3>1, <3>2 DEF AInv, AccountsTypeOK
  <2> QED BY <2>1, <2>2
<1> QED BY <1>1, <1>2, FewerTokens DEF AInv, AccountsTypeOK

LEMMA VerifyKeeps ==
    ASSUME AInv, NEW c \in AuthCalls, NEW t \in tokens, VerifyToken(c, t)
    PROVE  AInv'
<1> DEFINE q == [pc |-> IF t.stale THEN "drop" ELSE "slide",
                 owner |-> t.owner, id |-> t.id]
<1>1. t.owner \in Accts /\ t.id \in TokenIds
  BY DEF AInv, AccountsTypeOK, Token
<1>2. q \in AuthRequests /\ q.pc # "mint"
  BY <1>1 DEF AuthRequests
<1> QED BY <1>2, GoesOn DEF VerifyToken

LEMMA AuthFailsKeeps ==
    ASSUME AInv, NEW c \in AuthCalls, AuthFails(c)
    PROVE  AInv'
<1>1. authing' = [authing EXCEPT ![c] = AtRest] /\ UNCHANGED <<creds, tokens, knows, had>>
  BY DEF AuthFails
<1>2. /\ authing' \in [AuthCalls -> AuthRequests]
      /\ \A d \in AuthCalls : authing'[d] = authing[d] \/ authing'[d] = AtRest
  BY <1>1, RestIsRequest DEF AInv, AccountsTypeOK
<1>3. tangled' \subseteq Accts
  BY DEF AuthFails, Changing, AInv, AccountsTypeOK, AuthRequests, AtRest
<1> QED BY <1>1, <1>2, <1>3, FewerTokens DEF AInv, AccountsTypeOK

LEMMA AccountsInductive == AInv /\ [AccountsNext]_accountsVars => AInv'
<1> SUFFICES ASSUME AInv, [AccountsNext]_accountsVars
             PROVE  AInv'
  OBVIOUS
<1>1. ASSUME NEW c \in AuthCalls, NEW x \in Accts, NEW pass \in Passwords,
             \/ RegisterOrReissue(c, x, pass)
             \/ IssueToken(c, x, pass)
             \/ Recover(c, x, pass)
      PROVE  AInv'
  BY <1>1, RegisterKeeps, RecoverKeeps
<1>2. ASSUME NEW c \in AuthCalls,
             \/ Claim(c) \/ Reread(c) \/ Mint(c)
             \/ ResetPassword(c) \/ PurgeTokens(c)
             \/ SlideToken(c) \/ DropToken(c) \/ AuthFails(c)
      PROVE  AInv'
  BY <1>2, ClaimKeeps, RereadKeeps, MintKeeps, ResetKeeps, TokensGoKeeps, AuthFailsKeeps
<1>3. ASSUME NEW c \in AuthCalls, NEW t \in tokens, VerifyToken(c, t)
      PROVE  AInv'
  BY <1>3, VerifyKeeps
<1>4. ASSUME NEW t \in tokens, Revoke(t) \/ GoesStale(t) \/ ExpireToken(t)
      PROVE  AInv'
  BY <1>4, TokenStepKeeps
<1>5. CASE UNCHANGED accountsVars
  BY <1>5 DEF accountsVars, AInv, AccountsTypeOK, PasswordsSet, TokensFromPasswords
<1> QED BY <1>1, <1>2, <1>3, <1>4, <1>5 DEF AccountsNext

LEMMA AccountsStart == AccountsInit => AInv
BY RestIsRequest
   DEF AccountsInit, AInv, AccountsTypeOK, PasswordsSet, TokensFromPasswords

-----------------------------------------------------------------------------
(* Every token was minted on a password its account has had: a claim that lost
   a race gets no token on its own password. *)
THEOREM TokensTraceBack == AccountsSpec => []TokensFromPasswords
<1>1. AInv => TokensFromPasswords
  BY DEF AInv
<1> QED BY <1>1, AccountsStart, AccountsInductive, PTL DEF AccountsSpec

(* Credentials, tokens and the requests in flight keep their types. *)
THEOREM AccountsAreTyped == AccountsSpec => []AccountsTypeOK
<1>1. AInv => AccountsTypeOK
  BY DEF AInv
<1> QED BY <1>1, AccountsStart, AccountsInductive, PTL DEF AccountsSpec

(* Only a recovery changes the credential of an account that has one. *)
LEMMA OnlyRecovery ==
    ASSUME AInv, [AccountsNext]_accountsVars, NEW x \in Accts,
           creds[x] # Unclaimed, creds'[x] # creds[x]
    PROVE  \E c \in AuthCalls : ResetPassword(c) /\ authing[c].owner = x
<1>1. creds' # creds
  OBVIOUS
<1>2. PICK c \in AuthCalls : Claim(c) \/ ResetPassword(c)
  BY <1>1 DEF AccountsNext, accountsVars, RegisterOrReissue, IssueToken, Recover, Reread,
              Mint, PurgeTokens, VerifyToken, SlideToken, DropToken, AuthFails, Revoke,
              GoesStale, ExpireToken
<1>3. creds \in [Accts -> Credential \cup {Unclaimed}]
  BY DEF AInv, AccountsTypeOK
<1>4. CASE Claim(c)
  <2>1. creds[authing[c].owner] = Unclaimed
        /\ \E new : creds' = [creds EXCEPT ![authing[c].owner] = new]
    BY <1>1, <1>4 DEF Claim, Claimable
  <2>2. creds'[x] = creds[x]
    BY <1>3, <2>1
  <2> QED BY <2>2
<1>5. CASE ResetPassword(c)
  <2>1. \E new : creds' = [creds EXCEPT ![authing[c].owner] = new]
    BY <1>5 DEF ResetPassword
  <2>2. authing[c].owner = x
    BY <1>3, <2>1
  <2> QED BY <1>5, <2>2
<1> QED BY <1>2, <1>4, <1>5

(* The first console to store a claim owns the account until its owner recovers
   it. *)
THEOREM FirstClaimOwns == AccountsSpec => ClaimedOnce
<1>1. AInv /\ [AccountsNext]_accountsVars =>
          [\A x \in Accts :
              creds[x] # Unclaimed /\ creds'[x] # creds[x] =>
                  \E c \in AuthCalls : ResetPassword(c) /\ authing[c].owner = x]_accountsVars
  BY OnlyRecovery
<1> QED BY <1>1, AccountsStart, AccountsInductive, PTL DEF AccountsSpec, ClaimedOnce

-----------------------------------------------------------------------------
(* What a recovery leaves behind, in an account no two requests changed at    *)
(* the same time and of which none failed.                                    *)

\* Request c changes account x.
On(c, x) == Changing(authing[c]) /\ authing[c].owner = x

TokensCurrent(x) == \A t \in tokens : t.owner = x => t.pass = creds[x].pass

CodeKnown(x) == creds[x] # Unclaimed => knows[x] = creds[x].code

\* Between a reset and its purge there may be tokens of the password before,
\* and a new code reaches the owner with the answer.
Recovered(x) ==
    /\ \A c, d \in AuthCalls : On(c, x) /\ On(d, x) => c = d
    /\ \A c \in AuthCalls : On(c, x) /\ authing[c].pc = "mint" =>
          /\ creds[x] # Unclaimed
          /\ authing[c].pass = creds[x].pass
          /\ IF authing[c].code = NoCode THEN CodeKnown(x)
             ELSE authing[c].code = creds[x].code
    /\ \A c \in AuthCalls : On(c, x) /\ authing[c].pc = "purge" =>
          creds[x] # Unclaimed /\ authing[c].code = creds[x].code
    /\ (\A c \in AuthCalls : On(c, x) => authing[c].pc # "purge") => TokensCurrent(x)
    /\ (\A c \in AuthCalls : On(c, x) => authing[c].pc \notin {"mint", "purge"}) =>
          CodeKnown(x)

RInv == AInv /\ \A x \in Accts \ tangled : Recovered(x)

(* A step that neither is nor becomes one about the account. *)
LEMMA Elsewhere ==
    ASSUME NEW x, Recovered(x),
           \A d \in AuthCalls : On(d, x) \/ On(d, x)' => authing'[d] = authing[d],
           creds'[x] = creds[x], knows'[x] = knows[x],
           \A t \in tokens' : t.owner = x =>
               \E u \in tokens : u.owner = x /\ u.pass = t.pass
    PROVE  Recovered(x)'
<1>1. \A d \in AuthCalls : On(d, x)' <=> On(d, x)
  BY DEF On
<1>2. TokensCurrent(x) => TokensCurrent(x)'
  BY DEF TokensCurrent
<1>3. CodeKnown(x)' <=> CodeKnown(x)
  BY DEF CodeKnown
<1>4. QED
  BY <1>1, <1>2, <1>3 DEF Recovered

(* The only request about an account, after its step. *)
LEMMA Alone ==
    ASSUME NEW x, NEW c \in AuthCalls,
           \A d \in AuthCalls \ {c} : ~On(d, x)',
           \/ /\ authing'[c].pc \notin {"mint", "purge"}
              /\ TokensCurrent(x)' /\ CodeKnown(x)'
           \/ /\ authing'[c].pc = "mint" /\ TokensCurrent(x)'
              /\ creds'[x] # Unclaimed /\ authing'[c].pass = creds'[x].pass
              /\ IF authing'[c].code = NoCode THEN CodeKnown(x)'
                 ELSE authing'[c].code = creds'[x].code /\ On(c, x)'
           \/ /\ authing'[c].pc = "purge"
              /\ creds'[x] # Unclaimed /\ authing'[c].code = creds'[x].code
              /\ On(c, x)'
    PROVE  Recovered(x)'
<1>1. \A d \in AuthCalls : On(d, x)' => d = c
  OBVIOUS
<1>2. CASE authing'[c].pc \notin {"mint", "purge"} /\ TokensCurrent(x)' /\ CodeKnown(x)'
  BY <1>1, <1>2 DEF Recovered
<1>3. CASE /\ authing'[c].pc = "mint" /\ TokensCurrent(x)'
           /\ creds'[x] # Unclaimed /\ authing'[c].pass = creds'[x].pass
           /\ authing'[c].code = NoCode /\ CodeKnown(x)'
  BY <1>1, <1>3 DEF Recovered
<1>4. CASE /\ authing'[c].pc = "mint" /\ TokensCurrent(x)' /\ On(c, x)'
           /\ creds'[x] # Unclaimed /\ authing'[c].pass = creds'[x].pass
           /\ authing'[c].code # NoCode /\ authing'[c].code = creds'[x].code
  BY <1>1, <1>4 DEF Recovered
<1>5. CASE /\ authing'[c].pc = "purge" /\ On(c, x)'
           /\ creds'[x] # Unclaimed /\ authing'[c].code = creds'[x].code
  BY <1>1, <1>5 DEF Recovered
<1>6. QED
  BY <1>2, <1>3, <1>4, <1>5

(* A request about an account that stays untangled is the only one about it. *)
LEMMA AloneOn ==
    ASSUME RInv, NEW c \in AuthCalls, NEW r \in AuthRequests, Awaits(c, r),
           NEW x \in Accts \ tangled', On(c, x) \/ (Changing(r) /\ r.owner = x)
    PROVE  /\ Recovered(x)
           /\ \A d \in AuthCalls \ {c} : ~On(d, x) /\ ~On(d, x)'
           /\ authing'[c] = r
<1>1. authing'[c] = r /\ \A d \in AuthCalls \ {c} : authing'[d] = authing[d]
  BY AwaitsType DEF RInv, AInv
<1>2. Recovered(x)
  BY DEF Awaits, RInv
<1>3. \A d \in AuthCalls \ {c} : ~On(d, x)
  BY <1>2 DEF Recovered, Awaits, Overlapped, On
<1>4. QED
  BY <1>1, <1>2, <1>3 DEF On

(* A request that has only looked, and looks on or is about to mint on the
   password that is stored. *)
LEMMA LooksOn ==
    ASSUME RInv, NEW c \in AuthCalls, NEW r \in AuthRequests, Awaits(c, r),
           UNCHANGED <<creds, tokens, knows>>,
           authing[c].pc \notin {"mint", "purge"}, r.pc # "purge",
           r.pc = "mint" => /\ creds[r.owner] # Unclaimed
                            /\ r.pass = creds[r.owner].pass /\ r.code = NoCode
    PROVE  \A x \in Accts \ tangled' : Recovered(x)'
<1> SUFFICES ASSUME NEW x \in Accts \ tangled' PROVE Recovered(x)'
  OBVIOUS
<1>1. /\ authing'[c] = r /\ \A d \in AuthCalls \ {c} : authing'[d] = authing[d]
      /\ Recovered(x)
  BY AwaitsType DEF RInv, AInv, Awaits
<1>2. CASE On(c, x) \/ (Changing(r) /\ r.owner = x)
  <2>1. \A d \in AuthCalls \ {c} : ~On(d, x) /\ ~On(d, x)'
    BY <1>2, AloneOn
  <2>2. TokensCurrent(x) /\ CodeKnown(x)
    BY <1>1, <2>1 DEF Recovered
  <2>3. TokensCurrent(x)' /\ CodeKnown(x)'
    BY <2>2 DEF TokensCurrent, CodeKnown
  <2>4. CASE r.pc = "mint" /\ r.owner = x
    BY <1>1, <2>1, <2>3, <2>4, Alone
  <2>5. CASE r.pc # "mint"
    BY <1>1, <2>1, <2>3, <2>5, Alone
  <2>6. CASE r.pc = "mint" /\ r.owner # x
    <3>1. \A d \in AuthCalls : ~On(d, x)'
      BY <1>1, <2>1, <2>6 DEF On
    <3>2. QED
      BY <2>3, <3>1 DEF Recovered
  <2>7. QED
    BY <2>4, <2>5, <2>6
<1>3. CASE ~(On(c, x) \/ (Changing(r) /\ r.owner = x))
  <2>1. ~On(c, x) /\ ~On(c, x)'
    BY <1>1, <1>3 DEF On
  <2>2. \A d \in AuthCalls : On(d, x) \/ On(d, x)' => authing'[d] = authing[d]
    BY <1>1, <2>1
  <2>3. QED
    BY <1>1, <2>2, Elsewhere
<1>4. QED
  BY <1>2, <1>3

LEMMA AsksRecovered ==
    ASSUME RInv, NEW c \in AuthCalls,
           \/ \E x \in Accts, pass \in Passwords :
                 \/ RegisterOrReissue(c, x, pass)
                 \/ IssueToken(c, x, pass)
                 \/ Recover(c, x, pass)
           \/ \E t \in tokens : VerifyToken(c, t)
    PROVE  \A x \in Accts \ tangled' : Recovered(x)'
<1>0. AtRest.pc = "idle"
  BY RestIsRequest
<1>1. ASSUME NEW x \in Accts, NEW pass \in Passwords,
             Matches(x, pass), Awaits(c, ToMint(x, pass, NoCode)), authing[c] = AtRest,
             UNCHANGED <<creds, tokens, knows>>
      PROVE  \A y \in Accts \ tangled' : Recovered(y)'
  <2> DEFINE r == ToMint(x, pass, NoCode)
  <2>1. r \in AuthRequests /\ r.pc = "mint" /\ r.owner = x /\ r.pass = pass /\ r.code = NoCode
    BY MintIsRequest DEF ToMint
  <2> HIDE DEF r
  <2>2. Awaits(c, r)
    BY <1>1 DEF r
  <2>3. QED
    BY <1>0, <1>1, <2>1, <2>2, LooksOn DEF Matches
<1>2. ASSUME NEW r \in AuthRequests, Awaits(c, r), authing[c] = AtRest,
             r.pc \notin {"mint", "purge"}, UNCHANGED <<creds, tokens, knows>>
      PROVE  \A y \in Accts \ tangled' : Recovered(y)'
  BY <1>0, <1>2, LooksOn
<1>3. ASSUME NEW x \in Accts, NEW pass \in Passwords,
             RegisterOrReissue(c, x, pass) \/ IssueToken(c, x, pass) \/ Recover(c, x, pass)
      PROVE  \A y \in Accts \ tangled' : Recovered(y)'
  <2>1. \A code \in CodeIds :
            LET r == [pc |-> "claim", owner |-> x, pass |-> pass, code |-> code]
            IN  r \in AuthRequests /\ r.pc \notin {"mint", "purge"}
    BY DEF AuthRequests
  <2>2. LET r == [pc |-> "reset", owner |-> x, pass |-> pass]
        IN  r \in AuthRequests /\ r.pc \notin {"mint", "purge"}
    BY DEF AuthRequests
  <2>3. QED
    BY <1>1, <1>2, <1>3, <2>1, <2>2 DEF RegisterOrReissue, IssueToken, Recover
<1>4. ASSUME NEW t \in tokens, VerifyToken(c, t)
      PROVE  \A y \in Accts \ tangled' : Recovered(y)'
  <2> DEFINE r == [pc |-> IF t.stale THEN "drop" ELSE "slide",
                   owner |-> t.owner, id |-> t.id]
  <2>1. t.owner \in Accts /\ t.id \in TokenIds
    BY DEF RInv, AInv, AccountsTypeOK, Token
  <2>2. r \in AuthRequests /\ r.pc \notin {"mint", "purge"}
    BY <2>1 DEF AuthRequests
  <2>3. Awaits(c, r) /\ authing[c] = AtRest /\ UNCHANGED <<creds, tokens, knows>>
    BY <1>4 DEF VerifyToken
  <2> HIDE DEF r
  <2>4. QED
    BY <1>2, <2>2, <2>3
<1>5. QED
  BY <1>3, <1>4

LEMMA RereadRecovered ==
    ASSUME RInv, NEW c \in AuthCalls, Reread(c)
    PROVE  \A x \in Accts \ tangled' : Recovered(x)'
<1> DEFINE r == AfterReread(authing[c].owner, authing[c].pass)
<1>1. authing[c].owner \in Accts /\ authing[c].pass \in Passwords
  BY AuthByPc DEF Reread, RInv, AInv, AccountsTypeOK
<1>2. r \in AuthRequests
  BY <1>1, MintIsRequest, RestIsRequest DEF AfterReread
<1>3. /\ r.pc # "purge"
      /\ r.pc = "mint" => /\ creds[r.owner] # Unclaimed
                          /\ r.pass = creds[r.owner].pass /\ r.code = NoCode
  BY <1>1, RestIsRequest DEF AfterReread, ToMint, Matches
<1>4. Awaits(c, r) /\ authing[c].pc = "reread" /\ UNCHANGED <<creds, tokens, knows>>
  BY DEF Reread
<1> HIDE DEF r
<1>5. QED
  BY <1>2, <1>3, <1>4, LooksOn

(* A claim that creates the credential: the account had no token. *)
LEMMA ClaimRecovered ==
    ASSUME RInv, NEW c \in AuthCalls, Claim(c)
    PROVE  \A x \in Accts \ tangled' : Recovered(x)'
<1> DEFINE r == authing[c]
           y == r.owner
<1>1. r.pc = "claim" /\ y \in Accts /\ r.pass \in Passwords /\ r.code \in CodeIds
  BY AuthByPc DEF Claim, RInv, AInv, AccountsTypeOK
<1>2. CASE ~Claimable(y)
  <2> DEFINE q == [pc |-> "reread", owner |-> y, pass |-> r.pass]
  <2>1. q \in AuthRequests /\ q.pc = "reread"
    BY <1>1 DEF AuthRequests
  <2>2. Awaits(c, q) /\ UNCHANGED <<creds, tokens, knows>>
    BY <1>2 DEF Claim
  <2> HIDE DEF q
  <2>3. QED
    BY <1>1, <2>1, <2>2, LooksOn
<1>3. CASE Claimable(y)
  <2> DEFINE q == ToMint(y, r.pass, r.code)
             new == [pass |-> r.pass, code |-> r.code]
  <2>1. q \in AuthRequests /\ q.pc = "mint" /\ q.owner = y /\ q.pass = r.pass /\ q.code = r.code
    BY <1>1, MintIsRequest DEF ToMint
  <2>2. Awaits(c, q) /\ creds' = [creds EXCEPT ![y] = new] /\ UNCHANGED <<tokens, knows>>
    BY <1>3 DEF Claim
  <2>3. new \in Credential /\ new.pass = r.pass /\ new.code = r.code
    BY <1>1 DEF Credential
  <2> HIDE DEF q, new
  <2>4. /\ creds'[y] = new /\ new # Unclaimed
        /\ \A x \in Accts \ {y} : creds'[x] = creds[x]
    BY <1>1, <2>2, <2>3, UnclaimedAssumption DEF RInv, AInv, AccountsTypeOK
  <2>5. \A t \in tokens : t.owner # y
    BY <1>3 DEF RInv, AInv, TokensFromPasswords, Claimable
  <2>6. ASSUME NEW x \in Accts \ tangled'
        PROVE  Recovered(x)'
    <3>1. Recovered(x) /\ authing'[c] = q /\ \A d \in AuthCalls \ {c} : authing'[d] = authing[d]
      BY <2>1, <2>2, AwaitsType DEF RInv, AInv, Awaits
    <3>2. CASE x = y
      <4>1. On(c, x)
        BY <1>1, <3>2 DEF On, Changing
      <4>2. \A d \in AuthCalls \ {c} : ~On(d, x)'
        BY <2>1, <2>2, <4>1, AloneOn
      <4>3. TokensCurrent(x)'
        BY <2>2, <2>5, <3>2 DEF TokensCurrent
      <4>4. authing'[c].code # NoCode
        BY <1>1, <2>1, <3>1, AccountsAssumption
      <4>5. On(c, x)'
        BY <2>1, <3>1, <3>2 DEF On, Changing
      <4>6. QED
        BY <2>1, <2>3, <2>4, <3>1, <3>2, <4>2, <4>3, <4>4, <4>5, Alone
    <3>3. CASE x # y
      <4>1. ~On(c, x) /\ ~On(c, x)'
        BY <2>1, <3>1, <3>3 DEF On
      <4>2. QED
        BY <2>2, <2>4, <3>1, <3>3, <4>1, Elsewhere
    <3>4. QED
      BY <3>2, <3>3
  <2>7. QED
    BY <2>6
<1>4. QED
  BY <1>2, <1>3

(* A token is minted on the password that is stored. *)
LEMMA MintRecovered ==
    ASSUME RInv, NEW c \in AuthCalls, Mint(c)
    PROVE  \A x \in Accts \ tangled' : Recovered(x)'
<1> DEFINE r == authing[c]
           y == r.owner
<1>1. r.pc = "mint" /\ y \in Accts
  BY AuthByPc DEF Mint, RInv, AInv, AccountsTypeOK
<1>2. PICK id \in TokenIds :
          tokens' = tokens \cup {[id |-> id, owner |-> y, pass |-> r.pass, stale |-> FALSE]}
  BY DEF Mint
<1> DEFINE new == [id |-> id, owner |-> y, pass |-> r.pass, stale |-> FALSE]
<1>3. new.owner = y /\ new.pass = r.pass /\ tokens' = tokens \cup {new}
  BY <1>2
<1> HIDE DEF new
<1>4. /\ UNCHANGED creds /\ Awaits(c, AtRest)
      /\ knows' = IF r.code = NoCode THEN knows ELSE [knows EXCEPT ![y] = r.code]
  BY DEF Mint
<1>5. /\ knows'[y] = IF r.code = NoCode THEN knows[y] ELSE r.code
      /\ \A x \in Accts \ {y} : knows'[x] = knows[x]
  BY <1>1, <1>4 DEF RInv, AInv, AccountsTypeOK
<1>6. ASSUME NEW x \in Accts \ tangled'
      PROVE  Recovered(x)'
  <2>1. /\ Recovered(x) /\ authing'[c] = AtRest
        /\ \A d \in AuthCalls \ {c} : authing'[d] = authing[d]
    BY <1>4, RestIsRequest, AwaitsType DEF RInv, AInv, Awaits
  <2>2. CASE x = y
    <3>1. On(c, x)
      BY <1>1, <2>2 DEF On, Changing
    <3>2. \A d \in AuthCalls \ {c} : ~On(d, x) /\ ~On(d, x)'
      BY <1>4, <3>1, RestIsRequest, AloneOn
    <3>3. TokensCurrent(x)
      BY <1>1, <2>1, <3>2 DEF Recovered
    <3>4. /\ creds[x] # Unclaimed /\ r.pass = creds[x].pass
          /\ IF r.code = NoCode THEN CodeKnown(x) ELSE r.code = creds[x].code
      BY <1>1, <2>1, <3>1 DEF Recovered
    <3>5. TokensCurrent(x)'
      BY <1>3, <1>4, <3>3, <3>4 DEF TokensCurrent
    <3>6. CodeKnown(x)'
      BY <1>4, <1>5, <2>2, <3>4 DEF CodeKnown
    <3>7. authing'[c].pc = "idle"
      BY <2>1, RestIsRequest
    <3>8. QED
      BY <3>2, <3>5, <3>6, <3>7, Alone
  <2>3. CASE x # y
    <3>1. ~On(c, x) /\ ~On(c, x)'
      BY <2>1, <2>3, RestIsRequest DEF On, Changing
    <3>2. QED
      BY <1>3, <1>4, <1>5, <2>1, <2>3, <3>1, Elsewhere
  <2>4. QED
    BY <2>2, <2>3
<1>7. QED
  BY <1>6

(* A recovery stores the new password and code... *)
LEMMA ResetRecovered ==
    ASSUME RInv, NEW c \in AuthCalls, ResetPassword(c)
    PROVE  \A x \in Accts \ tangled' : Recovered(x)'
<1> DEFINE r == authing[c]
           y == r.owner
<1>1. r.pc = "reset" /\ y \in Accts /\ r.pass \in Passwords
  BY AuthByPc DEF ResetPassword, RInv, AInv, AccountsTypeOK
<1>2. PICK code \in CodeIds :
          /\ creds' = [creds EXCEPT ![y] = [pass |-> r.pass, code |-> code]]
          /\ Awaits(c, [pc |-> "purge", owner |-> y, code |-> code])
  BY DEF ResetPassword
<1> DEFINE q == [pc |-> "purge", owner |-> y, code |-> code]
           new == [pass |-> r.pass, code |-> code]
<1>3. q \in AuthRequests /\ q.pc = "purge" /\ q.owner = y /\ q.code = code
  BY <1>1 DEF AuthRequests
<1>4. new \in Credential /\ new.code = code
  BY <1>1 DEF Credential
<1> HIDE DEF q, new
<1>5. creds' = [creds EXCEPT ![y] = new] /\ Awaits(c, q) /\ UNCHANGED <<tokens, knows>>
  BY <1>2 DEF ResetPassword, q, new
<1>6. /\ creds'[y] = new /\ new # Unclaimed
      /\ \A x \in Accts \ {y} : creds'[x] = creds[x]
  BY <1>1, <1>4, <1>5, UnclaimedAssumption DEF RInv, AInv, AccountsTypeOK
<1>7. ASSUME NEW x \in Accts \ tangled'
      PROVE  Recovered(x)'
  <2>1. Recovered(x) /\ authing'[c] = q /\ \A d \in AuthCalls \ {c} : authing'[d] = authing[d]
    BY <1>3, <1>5, AwaitsType DEF RInv, AInv, Awaits
  <2>2. CASE x = y
    <3>1. \A d \in AuthCalls \ {c} : ~On(d, x)'
      BY <1>3, <1>5, <2>2, AloneOn DEF Changing
    <3>2. On(c, x)'
      BY <1>3, <2>1, <2>2 DEF On, Changing
    <3>3. QED
      BY <1>3, <1>4, <1>6, <2>1, <2>2, <3>1, <3>2, Alone
  <2>3. CASE x # y
    <3>1. ~On(c, x) /\ ~On(c, x)'
      BY <1>3, <2>1, <2>3 DEF On
    <3>2. QED
      BY <1>5, <1>6, <2>1, <2>3, <3>1, Elsewhere
  <2>4. QED
    BY <2>2, <2>3
<1>8. QED
  BY <1>7

(* ...and then deletes the tokens, whatever password they are from. *)
LEMMA PurgeRecovered ==
    ASSUME RInv, NEW c \in AuthCalls, PurgeTokens(c)
    PROVE  \A x \in Accts \ tangled' : Recovered(x)'
<1> DEFINE r == authing[c]
           y == r.owner
<1>1. r.pc = "purge" /\ y \in Accts
  BY AuthByPc DEF PurgeTokens, RInv, AInv, AccountsTypeOK
<1>2. /\ tokens' = {t \in tokens : t.owner # y} /\ UNCHANGED creds
      /\ knows' = [knows EXCEPT ![y] = r.code] /\ Awaits(c, AtRest)
  BY DEF PurgeTokens, Purged
<1>3. knows'[y] = r.code /\ \A x \in Accts \ {y} : knows'[x] = knows[x]
  BY <1>1, <1>2 DEF RInv, AInv, AccountsTypeOK
<1>4. ASSUME NEW x \in Accts \ tangled'
      PROVE  Recovered(x)'
  <2>1. /\ Recovered(x) /\ authing'[c] = AtRest
        /\ \A d \in AuthCalls \ {c} : authing'[d] = authing[d]
    BY <1>2, RestIsRequest, AwaitsType DEF RInv, AInv, Awaits
  <2>2. CASE x = y
    <3>1. On(c, x)
      BY <1>1, <2>2 DEF On, Changing
    <3>2. \A d \in AuthCalls \ {c} : ~On(d, x)'
      BY <1>2, <3>1, RestIsRequest, AloneOn
    <3>3. creds[x] # Unclaimed /\ r.code = creds[x].code
      BY <1>1, <2>1, <3>1 DEF Recovered
    <3>4. TokensCurrent(x)' /\ CodeKnown(x)'
      BY <1>2, <1>3, <2>2, <3>3 DEF TokensCurrent, CodeKnown
    <3>5. authing'[c].pc = "idle"
      BY <2>1, RestIsRequest
    <3>6. QED
      BY <3>2, <3>4, <3>5, Alone
  <2>3. CASE x # y
    <3>1. ~On(c, x) /\ ~On(c, x)'
      BY <2>1, <2>3, RestIsRequest DEF On, Changing
    <3>2. QED
      BY <1>2, <1>3, <2>1, <2>3, <3>1, Elsewhere
  <2>4. QED
    BY <2>2, <2>3
<1>5. QED
  BY <1>4

(* What happens to tokens by themselves or while they are verified touches no
   password. *)
LEMMA TokenStepRecovered ==
    ASSUME RInv,
           \/ \E c \in AuthCalls : SlideToken(c) \/ DropToken(c)
           \/ \E t \in tokens : Revoke(t) \/ GoesStale(t) \/ ExpireToken(t)
    PROVE  \A x \in Accts \ tangled' : Recovered(x)'
<1>1. \A t \in tokens' : \E u \in tokens : u.owner = t.owner /\ u.pass = t.pass
  <2>1. ASSUME NEW c \in AuthCalls, SlideToken(c)
        PROVE  \A t \in tokens' : \E u \in tokens : u.owner = t.owner /\ u.pass = t.pass
    <3> DEFINE S(t) == IF t.id = authing[c].id THEN [t EXCEPT !.stale = FALSE] ELSE t
    <3>1. \A t \in tokens : S(t).owner = t.owner /\ S(t).pass = t.pass
      BY DEF RInv, AInv, AccountsTypeOK, Token
    <3>2. tokens' = {S(t) : t \in tokens}
      BY <2>1 DEF SlideToken, Slid
    <3> HIDE DEF S
    <3>3. QED
      BY <3>1, <3>2
  <2>2. ASSUME NEW t \in tokens, GoesStale(t)
        PROVE  \A s \in tokens' : \E u \in tokens : u.owner = s.owner /\ u.pass = s.pass
    <3> DEFINE new == [t EXCEPT !.stale = TRUE]
    <3>1. new.owner = t.owner /\ new.pass = t.pass
      BY DEF RInv, AInv, AccountsTypeOK, Token
    <3>2. tokens' = (tokens \ {t}) \cup {new}
      BY <2>2 DEF GoesStale
    <3> HIDE DEF new
    <3>3. QED
      BY <3>1, <3>2
  <2>3. CASE \/ \E c \in AuthCalls : DropToken(c)
             \/ \E t \in tokens : Revoke(t) \/ ExpireToken(t)
    BY <2>3 DEF DropToken, Revoke, ExpireToken
  <2>4. QED
    BY <2>1, <2>2, <2>3
<1>2. /\ UNCHANGED <<creds, knows>> /\ tangled \subseteq tangled'
      /\ \A d \in AuthCalls :
            \/ authing'[d] = authing[d]
            \/ authing[d].pc \in {"slide", "drop"} /\ authing'[d] = AtRest
  <2>1. CASE \E c \in AuthCalls : SlideToken(c) \/ DropToken(c)
    <3>1. PICK c \in AuthCalls : SlideToken(c) \/ DropToken(c)
      BY <2>1
    <3>2. /\ UNCHANGED <<creds, knows>> /\ Awaits(c, AtRest)
          /\ authing[c].pc \in {"slide", "drop"}
      BY <3>1 DEF SlideToken, DropToken
    <3>3. QED
      BY <3>2, RestIsRequest, AwaitsType DEF RInv, AInv, Awaits
  <2>2. CASE \E t \in tokens : Revoke(t) \/ GoesStale(t) \/ ExpireToken(t)
    BY <2>2 DEF Revoke, GoesStale, ExpireToken
  <2>3. QED
    BY <2>1, <2>2
<1>3. ASSUME NEW x \in Accts \ tangled'
      PROVE  Recovered(x)'
  <2>1. Recovered(x) /\ creds'[x] = creds[x] /\ knows'[x] = knows[x]
    BY <1>2 DEF RInv
  <2>2. \A d \in AuthCalls : On(d, x) \/ On(d, x)' => authing'[d] = authing[d]
    BY <1>2, RestIsRequest DEF On, Changing
  <2>3. QED
    BY <1>1, <2>1, <2>2, Elsewhere
<1>4. QED
  BY <1>3

LEMMA FailRecovered ==
    ASSUME RInv, NEW c \in AuthCalls, AuthFails(c)
    PROVE  \A x \in Accts \ tangled' : Recovered(x)'
<1> SUFFICES ASSUME NEW x \in Accts \ tangled' PROVE Recovered(x)'
  OBVIOUS
<1>1. /\ authing'[c] = AtRest /\ \A d \in AuthCalls \ {c} : authing'[d] = authing[d]
      /\ UNCHANGED <<creds, tokens, knows>>
  BY DEF AuthFails, RInv, AInv, AccountsTypeOK
<1>2. Recovered(x) /\ ~On(c, x)
  BY DEF AuthFails, RInv, On
<1>3. ~On(c, x)'
  BY <1>1, RestIsRequest DEF On, Changing
<1>4. QED
  BY <1>1, <1>2, <1>3, Elsewhere

LEMMA RecoveredInductive == RInv /\ [AccountsNext]_accountsVars => RInv'
<1> SUFFICES ASSUME RInv, [AccountsNext]_accountsVars
             PROVE  \A x \in Accts \ tangled' : Recovered(x)'
  BY AccountsInductive DEF RInv
<1>1. ASSUME NEW c \in AuthCalls,
             \/ \E x \in Accts, pass \in Passwords :
                   \/ RegisterOrReissue(c, x, pass)
                   \/ IssueToken(c, x, pass)
                   \/ Recover(c, x, pass)
             \/ \E t \in tokens : VerifyToken(c, t)
             \/ Claim(c) \/ Reread(c) \/ Mint(c) \/ ResetPassword(c) \/ PurgeTokens(c)
             \/ SlideToken(c) \/ DropToken(c) \/ AuthFails(c)
      PROVE  \A x \in Accts \ tangled' : Recovered(x)'
  BY <1>1, AsksRecovered, ClaimRecovered, RereadRecovered, MintRecovered,
     ResetRecovered, PurgeRecovered, TokenStepRecovered, FailRecovered
<1>2. CASE \E t \in tokens : Revoke(t) \/ GoesStale(t) \/ ExpireToken(t)
  BY <1>2, TokenStepRecovered
<1>3. CASE UNCHANGED accountsVars
  BY <1>3, Elsewhere DEF accountsVars, RInv
<1> QED BY <1>1, <1>2, <1>3 DEF AccountsNext

(* Recovering an account revokes: when the recovery overlapped no other request
   of its account and none failed, no token of an earlier password is left, and
   its owner holds the code that is stored. *)
THEOREM RecoveryRevokes == AccountsSpec => []RecoveryComplete
<1>1. AccountsInit => RInv
  <2> SUFFICES ASSUME AccountsInit PROVE \A x \in Accts : Recovered(x)
    BY AccountsStart DEF RInv
  <2>1. \A c \in AuthCalls : authing[c] = AtRest
    BY DEF AccountsInit
  <2>2. \A c \in AuthCalls, x \in Accts : ~On(c, x)
    BY <2>1, RestIsRequest DEF On, Changing
  <2>3. QED
    BY <2>2 DEF AccountsInit, Recovered, TokensCurrent, CodeKnown
<1>2. RInv => RecoveryComplete
  BY DEF RInv, Recovered, On, TokensCurrent, CodeKnown, RecoveryComplete
<1> QED BY <1>1, <1>2, RecoveredInductive, PTL DEF AccountsSpec
-----------------------------------------------------------------------------
(* Friends.                                                                *)

\* The types the promise depends on: what players hear is not among them.
Typed ==
    /\ rows \in [Ties -> Row \cup {NoRow}]
    /\ asking \in [FriendCalls -> Calls]
    /\ agreed \in [Ties -> SUBSET Folk]

\* Only the two of a pair say yes to its document.
AgreedOfPair == \A t \in Ties : agreed[t] \subseteq t

\* Requests in flight are between two players.
Between ==
    \A c \in FriendCalls :
        asking[c].pc \in {"create", "save", "tellAsked", "tellFriends", "tellRemoved"} =>
            asking[c].me # asking[c].to

\* A document is asked for by one of its pair, who agreed to it.
AskerAgreed ==
    \A t \in Ties : rows[t] # NoRow => rows[t].by \in t /\ rows[t].by \in agreed[t]

\* The document a request is about to save, if it is still there, is the other
\* player's, and the caller has agreed to it.
Consents(r) ==
    LET t == Tie(r.me, r.to) IN
    (r.pc = "save" /\ SameRow(rows[t], r)) =>
        rows[t].by = r.to /\ r.me \in agreed[t]

BondInv == /\ Typed
        /\ Between
        /\ AgreedOfPair
        /\ AskerAgreed
        /\ \A c \in FriendCalls : Consents(asking[c])

-----------------------------------------------------------------------------
LEMMA TieInTies ==
    ASSUME NEW x \in Folk, NEW y \in Folk, x # y
    PROVE  /\ Tie(x, y) \in Ties
           /\ Tie(x, y) = {x, y} /\ Tie(y, x) = {x, y}
BY DEF Tie, Ties

LEMMA RowFields ==
    ASSUME NEW row \in Row
    PROVE  row.id \in RowIds /\ row.by \in Folk /\ row.accepted \in BOOLEAN
BY DEF Row

(* Requests in flight, by their step. *)
LEMMA CallByPc ==
    ASSUME NEW r \in Calls
    PROVE  /\ r.pc \in {"create", "save", "tellAsked", "tellFriends", "tellRemoved"} =>
                  r.me \in Folk /\ r.to \in Folk
           /\ r.pc = "save" => r.id \in RowIds
           /\ r.pc \in {"connect", "list", "snapshot"} => r.me \in Folk
BY DEF Calls, Quiet

\* A request that goes on leaves the others alone.
LEMMA OthersWait ==
    ASSUME Typed, NEW c \in FriendCalls, NEW r \in Calls,
           asking' = [asking EXCEPT ![c] = r]
    PROVE  /\ asking' \in [FriendCalls -> Calls]
           /\ asking'[c] = r
           /\ \A d \in FriendCalls : d # c => asking'[d] = asking[d]
BY DEF Typed

(* A step that leaves the documents and the agreements alone, in which one
   request goes on to a step other than a save. *)
LEMMA PassingStep ==
    ASSUME BondInv, NEW c \in FriendCalls, NEW r \in Calls, r.pc # "save",
           r.pc \in {"create", "tellAsked", "tellFriends", "tellRemoved"} => r.me # r.to,
           asking' = [asking EXCEPT ![c] = r],
           UNCHANGED <<rows, agreed>>
    PROVE  BondInv'
<1>1. /\ asking' \in [FriendCalls -> Calls]
      /\ asking'[c] = r
      /\ \A d \in FriendCalls : d # c => asking'[d] = asking[d]
  BY OthersWait DEF BondInv
<1>2. Typed'
  BY <1>1 DEF BondInv, Typed
<1>3. Between'
  BY <1>1 DEF BondInv, Between
<1>4. AskerAgreed' /\ AgreedOfPair'
  BY DEF BondInv, AskerAgreed, AgreedOfPair
<1>5. ASSUME NEW d \in FriendCalls
      PROVE  Consents(asking[d])'
  <2>1. Consents(asking[d])
    BY DEF BondInv
  <2>2. CASE d = c
    BY <1>1, <2>2 DEF Consents
  <2>3. CASE d # c
    BY <1>1, <2>1, <2>3 DEF Consents
  <2> QED BY <2>2, <2>3
<1> QED BY <1>2, <1>3, <1>4, <1>5 DEF BondInv

LEMMA QuietCall == Quiet \in Calls /\ Quiet.pc = "idle"
BY DEF Calls, Quiet

(* A player says yes to the document it read. *)
LEMMA YesStep ==
    ASSUME BondInv, NEW c \in FriendCalls, NEW x \in Folk, NEW y \in Folk, x # y,
           AwaitsMe(rows[Tie(x, y)], x), SaysYes(c, x, y, rows[Tie(x, y)])
    PROVE  BondInv'
<1> DEFINE t == Tie(x, y)
           r == [pc |-> "save", me |-> x, to |-> y, id |-> rows[t].id]
<1>1. t \in Ties /\ t = {x, y}
  BY TieInTies
<1>2. rows[t] \in Row /\ rows[t].by = y
  <2>1. rows[t] \in Row
    BY <1>1 DEF BondInv, Typed, AwaitsMe
  <2>2. rows[t].by \in t /\ rows[t].by # x
    BY <1>1 DEF BondInv, AskerAgreed, AwaitsMe
  <2> QED BY <1>1, <2>1, <2>2
<1>3. r \in Calls
  BY <1>2, RowFields DEF Calls
<1>4. asking' = [asking EXCEPT ![c] = r] /\ UNCHANGED rows
      /\ agreed' = [agreed EXCEPT ![t] = @ \cup {x}]
  BY DEF SaysYes, Proceeds
<1>5. /\ asking' \in [FriendCalls -> Calls]
      /\ asking'[c] = r
      /\ \A d \in FriendCalls : d # c => asking'[d] = asking[d]
  BY <1>3, <1>4, OthersWait DEF BondInv
<1>6. /\ agreed' \in [Ties -> SUBSET Folk]
      /\ agreed'[t] = agreed[t] \cup {x}
      /\ \A u \in Ties : u # t => agreed'[u] = agreed[u]
      /\ \A u \in Ties : agreed[u] \subseteq agreed'[u]
  BY <1>1, <1>4 DEF BondInv, Typed
<1>7. Typed'
  BY <1>4, <1>5, <1>6 DEF BondInv, Typed
<1>8. Between'
  BY <1>5 DEF BondInv, Between
<1>9. AskerAgreed' /\ AgreedOfPair'
  <2>1. \A u \in Ties : agreed[u] \subseteq u /\ agreed'[u] \subseteq u
    <3>1. agreed'[t] \subseteq t
      BY <1>1, <1>6 DEF BondInv, AgreedOfPair
    <3> QED BY <1>6, <3>1 DEF BondInv, AgreedOfPair
  <2>2. AgreedOfPair'
    BY <2>1 DEF AgreedOfPair
  <2>3. AskerAgreed'
    BY <1>4, <1>6 DEF BondInv, AskerAgreed
  <2> QED BY <2>2, <2>3
<1>10. ASSUME NEW d \in FriendCalls
       PROVE  Consents(asking[d])'
  <2>1. CASE d = c
    BY <1>2, <1>4, <1>5, <1>6, <2>1 DEF Consents
  <2>2. CASE d # c
    <3> DEFINE s == asking[d]
    <3>1. asking'[d] = s
      BY <1>5, <2>2
    <3>2. Consents(s)
      BY DEF BondInv
    <3>3. s \in Calls
      BY DEF BondInv, Typed
    <3>4. s.pc = "save" => Tie(s.me, s.to) \in Ties
      BY <3>3, CallByPc, TieInTies DEF BondInv, Between
    <3> QED BY <1>4, <1>6, <3>1, <3>2, <3>4 DEF Consents
  <2> QED BY <2>1, <2>2
<1> QED BY <1>7, <1>8, <1>9, <1>10 DEF BondInv

(* The first request for a pair stores a document with an _id of its own. *)
LEMMA CreateStep ==
    ASSUME BondInv, NEW c \in FriendCalls, CreateRow(c)
    PROVE  BondInv'
<1> DEFINE r == asking[c]
           t == Tie(r.me, r.to)
<1>1. r.pc = "create" /\ r \in Calls /\ r.me \in Folk /\ r.to \in Folk /\ r.me # r.to
  BY CallByPc DEF CreateRow, BondInv, Typed, Between
<1>2. t \in Ties /\ t = {r.me, r.to}
  BY <1>1, TieInTies
<1>3. CASE rows[t] # NoRow
  BY <1>3, PassingStep, QuietCall DEF CreateRow, Proceeds
<1>4. CASE rows[t] = NoRow
  <2> DEFINE q == [pc |-> "tellAsked", me |-> r.me, to |-> r.to]
  <2>1. PICK id \in RowIds \ HeldIds :
            rows' = [rows EXCEPT ![t] = [id |-> id, by |-> r.me, accepted |-> FALSE]]
    BY <1>4 DEF CreateRow
  <2>2. /\ agreed' = [agreed EXCEPT ![t] = {r.me}]
        /\ asking' = [asking EXCEPT ![c] = q]
    BY <1>4 DEF CreateRow, Proceeds
  <2>3. q \in Calls
    BY <1>1 DEF Calls
  <2>4. /\ asking' \in [FriendCalls -> Calls]
        /\ asking'[c] = q
        /\ \A d \in FriendCalls : d # c => asking'[d] = asking[d]
    BY <2>2, <2>3, OthersWait DEF BondInv
  <2>5. [id |-> id, by |-> r.me, accepted |-> FALSE] \in Row
    BY <1>1 DEF Row
  <2>6. /\ rows' \in [Ties -> Row \cup {NoRow}]
        /\ rows'[t] = [id |-> id, by |-> r.me, accepted |-> FALSE]
        /\ \A u \in Ties : u # t => rows'[u] = rows[u]
    BY <1>2, <2>1, <2>5 DEF BondInv, Typed
  <2>7. /\ agreed' \in [Ties -> SUBSET Folk]
        /\ agreed'[t] = {r.me}
        /\ \A u \in Ties : u # t => agreed'[u] = agreed[u]
    BY <1>1, <1>2, <2>2 DEF BondInv, Typed
  <2>8. Typed'
    BY <2>4, <2>6, <2>7 DEF Typed
  <2>9. Between'
    BY <1>1, <2>4 DEF BondInv, Between
  <2>10. AskerAgreed'
    <3>1. rows'[t].by \in t /\ rows'[t].by \in agreed'[t]
      BY <1>2, <2>6, <2>7
    <3>2. \A u \in Ties : u # t /\ rows'[u] # NoRow =>
              rows'[u].by \in u /\ rows'[u].by \in agreed'[u]
      BY <2>6, <2>7 DEF BondInv, AskerAgreed
    <3> HIDE DEF t
    <3> QED BY <3>1, <3>2 DEF AskerAgreed
  <2>11. AgreedOfPair'
    <3>1. agreed'[t] \subseteq t
      BY <1>2, <2>7
    <3>2. \A u \in Ties : u # t => agreed'[u] \subseteq u
      BY <2>7 DEF BondInv, AgreedOfPair
    <3> HIDE DEF t
    <3> QED BY <3>1, <3>2 DEF AgreedOfPair
  <2>12. ASSUME NEW d \in FriendCalls
         PROVE  Consents(asking[d])'
    <3>1. CASE d = c
      BY <2>4, <3>1 DEF Consents
    <3>2. CASE d # c
      <4> DEFINE s == asking[d]
      <4>1. asking'[d] = s /\ Consents(s) /\ s \in Calls
        BY <2>4, <3>2 DEF BondInv, Typed
      <4>2. s.pc = "save" => Tie(s.me, s.to) \in Ties
        BY <4>1, CallByPc, TieInTies DEF BondInv, Between
      <4>3. s.pc = "save" => s.id # id
        BY <2>1 DEF HeldIds
      <4> QED BY <2>6, <2>7, <4>1, <4>2, <4>3 DEF Consents, SameRow
    <3> QED BY <3>1, <3>2
  <2> QED BY <2>8, <2>9, <2>10, <2>11, <2>12 DEF BondInv
<1> QED BY <1>3, <1>4

(* A save writes the document that was agreed to, or fails. *)
LEMMA SaveStep ==
    ASSUME BondInv, NEW c \in FriendCalls, SaveRow(c)
    PROVE  BondInv'
<1> DEFINE r == asking[c]
           t == Tie(r.me, r.to)
<1>1. r.pc = "save" /\ r \in Calls /\ r.me \in Folk /\ r.to \in Folk /\ r.me # r.to
      /\ r.id \in RowIds
  BY CallByPc DEF SaveRow, BondInv, Typed, Between
<1>2. t \in Ties /\ t = {r.me, r.to}
  BY <1>1, TieInTies
<1>3. CASE ~SameRow(rows[t], r)
  BY <1>3, PassingStep, QuietCall DEF SaveRow, Proceeds
<1>4. CASE SameRow(rows[t], r)
  <2> DEFINE q == [pc |-> "tellFriends", me |-> r.me, to |-> r.to]
             new == [id |-> r.id, by |-> r.to, accepted |-> TRUE]
  <2>1. /\ rows' = [rows EXCEPT ![t] = new]
        /\ asking' = [asking EXCEPT ![c] = q]
        /\ agreed' = agreed
    BY <1>4 DEF SaveRow, Proceeds
  <2>2. q \in Calls /\ new \in Row
    BY <1>1 DEF Calls, Row
  <2>3. /\ asking' \in [FriendCalls -> Calls]
        /\ asking'[c] = q
        /\ \A d \in FriendCalls : d # c => asking'[d] = asking[d]
    BY <2>1, <2>2, OthersWait DEF BondInv
  <2>4. /\ rows' \in [Ties -> Row \cup {NoRow}]
        /\ rows'[t] = new
        /\ \A u \in Ties : u # t => rows'[u] = rows[u]
    BY <1>2, <2>1, <2>2 DEF BondInv, Typed
  <2>5. rows[t] # NoRow /\ rows[t].id = r.id /\ rows[t].by = r.to
    BY <1>1, <1>4 DEF BondInv, Consents, SameRow
  <2>6. Typed'
    BY <2>1, <2>3, <2>4 DEF BondInv, Typed
  <2>7. Between'
    BY <1>1, <2>3 DEF BondInv, Between
  <2>8. AskerAgreed' /\ AgreedOfPair'
    BY <1>2, <2>1, <2>4, <2>5 DEF BondInv, AskerAgreed, AgreedOfPair
  <2>9. ASSUME NEW d \in FriendCalls
        PROVE  Consents(asking[d])'
    <3>1. CASE d = c
      BY <2>3, <3>1 DEF Consents
    <3>2. CASE d # c
      <4> DEFINE s == asking[d]
      <4>1. asking'[d] = s /\ Consents(s) /\ s \in Calls
        BY <2>3, <3>2 DEF BondInv, Typed
      <4>2. s.pc = "save" => Tie(s.me, s.to) \in Ties
        BY <4>1, CallByPc, TieInTies DEF BondInv, Between
      <4>3. CASE Tie(s.me, s.to) = t
        BY <2>1, <2>4, <2>5, <4>1, <4>3 DEF Consents, SameRow
      <4>4. CASE Tie(s.me, s.to) # t
        BY <2>1, <2>4, <4>1, <4>2, <4>4 DEF Consents
      <4> QED BY <4>3, <4>4
    <3> QED BY <3>1, <3>2
  <2> QED BY <2>6, <2>7, <2>8, <2>9 DEF BondInv
<1> QED BY <1>3, <1>4

(* A removal deletes the document, whatever requests hold of it. *)
LEMMA RemoveStep ==
    ASSUME BondInv, NEW c \in FriendCalls, NEW x \in Folk, NEW y \in Folk,
           RemoveFriend(c, x, y)
    PROVE  BondInv'
<1> DEFINE t == Tie(x, y)
           q == [pc |-> "tellRemoved", me |-> x, to |-> y]
<1>1. t \in Ties /\ x # y
  BY TieInTies DEF RemoveFriend
<1>2. /\ rows' = [rows EXCEPT ![t] = NoRow]
      /\ agreed' = [agreed EXCEPT ![t] = {}]
      /\ asking' = [asking EXCEPT ![c] = q]
  BY DEF RemoveFriend, Proceeds
<1>3. q \in Calls
  BY DEF Calls
<1>4. /\ asking' \in [FriendCalls -> Calls]
      /\ asking'[c] = q
      /\ \A d \in FriendCalls : d # c => asking'[d] = asking[d]
  BY <1>2, <1>3, OthersWait DEF BondInv
<1>5. /\ Typed'
      /\ rows'[t] = NoRow
      /\ \A u \in Ties : u # t => rows'[u] = rows[u] /\ agreed'[u] = agreed[u]
  BY <1>1, <1>2, <1>4 DEF BondInv, Typed
<1>6. Between'
  BY <1>1, <1>4 DEF BondInv, Between
<1>7. AskerAgreed' /\ AgreedOfPair'
  BY <1>1, <1>2, <1>5 DEF BondInv, Typed, AskerAgreed, AgreedOfPair
<1>8. ASSUME NEW d \in FriendCalls
      PROVE  Consents(asking[d])'
  <2>1. CASE d = c
    BY <1>4, <2>1 DEF Consents
  <2>2. CASE d # c
    <3> DEFINE s == asking[d]
    <3>1. asking'[d] = s /\ Consents(s) /\ s \in Calls
      BY <1>4, <2>2 DEF BondInv, Typed
    <3>2. s.pc = "save" => Tie(s.me, s.to) \in Ties
      BY <3>1, CallByPc, TieInTies DEF BondInv, Between
    <3> QED BY <1>5, <3>1, <3>2 DEF Consents, SameRow
  <2> QED BY <2>1, <2>2
<1> QED BY <1>5, <1>6, <1>7, <1>8 DEF BondInv

(* Some requests end, and nothing is written. *)
LEMMA EndingStep ==
    ASSUME BondInv, UNCHANGED <<rows, agreed>>, asking' = [c \in FriendCalls |-> asking'[c]],
           \A c \in FriendCalls : asking'[c] \in {Quiet, asking[c]}
    PROVE  BondInv'
<1>1. \A c \in FriendCalls : asking'[c] \in Calls
  BY QuietCall DEF BondInv, Typed
<1>2. asking' \in [FriendCalls -> Calls]
  BY <1>1
<1>3. Typed'
  BY <1>2 DEF BondInv, Typed
<1>4. Between'
  BY QuietCall DEF BondInv, Between
<1>5. AskerAgreed' /\ AgreedOfPair'
  BY DEF BondInv, AskerAgreed, AgreedOfPair
<1>6. ASSUME NEW d \in FriendCalls
      PROVE  Consents(asking[d])'
  <2>1. Consents(asking[d])
    BY DEF BondInv
  <2>2. CASE asking'[d] = Quiet
    BY <2>2, QuietCall DEF Consents
  <2>3. CASE asking'[d] = asking[d]
    BY <2>1, <2>3 DEF Consents
  <2> QED BY <2>2, <2>3
<1> QED BY <1>3, <1>4, <1>5, <1>6 DEF BondInv

(* Steps that leave the documents, the agreements and the requests alone. *)
LEMMA StillStep ==
    ASSUME BondInv, UNCHANGED <<rows, agreed, asking>>
    PROVE  BondInv'
BY DEF BondInv, Typed, Between, AskerAgreed, AgreedOfPair, Consents

-----------------------------------------------------------------------------
(* Every request, by what it does to the documents. *)

LEMMA RequestStep ==
    ASSUME BondInv, NEW c \in FriendCalls, NEW x \in Folk, NEW y \in Folk,
           FriendRequest(c, x, y)
    PROVE  /\ BondInv'
           /\ \/ UNCHANGED <<rows, agreed>>
              \/ /\ AwaitsMe(rows[Tie(x, y)], x)
                 /\ SaysYes(c, x, y, rows[Tie(x, y)])
<1> DEFINE row == rows[Tie(x, y)]
           r == [pc |-> "create", me |-> x, to |-> y]
<1>1. x # y
  BY DEF FriendRequest
<1>2. CASE row = NoRow /\ Proceeds(c, r) /\ UNCHANGED <<rows, line, sees, agreed>>
  <2>1. r \in Calls
    BY DEF Calls
  <2>2. BondInv'
    BY <1>1, <1>2, <2>1, PassingStep DEF Proceeds
  <2> QED BY <1>2, <2>2
<1>3. CASE \E what : Answered(Tie(x, y), x, what)
  <2>1. UNCHANGED <<rows, agreed, asking>>
    BY <1>3 DEF Answered
  <2> QED BY <2>1, StillStep
<1>4. CASE AwaitsMe(row, x) /\ SaysYes(c, x, y, row)
  BY <1>1, <1>4, YesStep
<1> QED BY <1>2, <1>3, <1>4 DEF FriendRequest

LEMMA FindsViews ==
    ASSUME NEW x
    PROVE  /\ Finds(x) \in [Ties -> Views]
           /\ \A t \in Ties : Finds(x)[t] = Says(rows[t], x)
BY DEF Finds, Says, Views

\* The requests that only read.
Reads(c) ==
    \/ \E x \in Folk : ListRead(c, x) \/ Connect(c, x)
    \/ SnapshotRead(c)

LEMMA ReadStep ==
    ASSUME BondInv, NEW c \in FriendCalls, Reads(c)
    PROVE  /\ BondInv' /\ UNCHANGED <<rows, sees, agreed>>
           /\ asking[c].pc \in {"idle", "connect"}
           /\ \E r \in Calls :
                 /\ r.pc \in {"connect", "list", "snapshot"}
                 /\ Proceeds(c, r)
                 /\ r.pc \in {"list", "snapshot"} => r.found = Finds(r.me)
<1>1. ASSUME NEW r \in Calls, r.pc \in {"connect", "list", "snapshot"}, Proceeds(c, r),
             UNCHANGED <<rows, agreed>>
      PROVE  BondInv'
  BY <1>1, PassingStep DEF Proceeds
<1>2. ASSUME NEW x \in Folk, ListRead(c, x)
      PROVE  \E r \in Calls : r.pc = "list" /\ Proceeds(c, r) /\ r.found = Finds(r.me)
  <2> DEFINE f == Finds(x)
             r == [pc |-> "list", me |-> x, found |-> f]
  <2>1. f \in [Ties -> Views]
    BY FindsViews
  <2> HIDE DEF f
  <2>2. r \in Calls /\ r.pc = "list" /\ r.found = f /\ r.me = x
    BY <2>1 DEF Calls
  <2>3. Proceeds(c, r)
    BY <1>2 DEF ListRead, f
  <2> QED BY <2>2, <2>3 DEF f
<1>3. ASSUME NEW x \in Folk, Connect(c, x)
      PROVE  \E r \in Calls : r.pc = "connect" /\ Proceeds(c, r)
  BY <1>3 DEF Connect, Calls
<1>4. ASSUME SnapshotRead(c)
      PROVE  \E r \in Calls : r.pc = "snapshot" /\ Proceeds(c, r) /\ r.found = Finds(r.me)
  <2> DEFINE x == asking[c].me
             f == Finds(x)
             r == [pc |-> "snapshot", me |-> x, found |-> f]
  <2>1. f \in [Ties -> Views]
    BY FindsViews
  <2>2. x \in Folk
    BY <1>4, CallByPc DEF SnapshotRead, BondInv, Typed
  <2> HIDE DEF f, x
  <2>3. r \in Calls /\ r.pc = "snapshot" /\ r.found = f /\ r.me = x
    BY <2>1, <2>2 DEF Calls
  <2>4. Proceeds(c, r)
    BY <1>4 DEF SnapshotRead, f, x
  <2> QED BY <2>3, <2>4 DEF f
<1>5. UNCHANGED <<rows, sees, agreed>> /\ asking[c].pc \in {"idle", "connect"}
  BY QuietCall DEF Reads, ListRead, Connect, SnapshotRead
<1>6. \E r \in Calls :
          /\ r.pc \in {"connect", "list", "snapshot"}
          /\ Proceeds(c, r)
          /\ r.pc \in {"list", "snapshot"} => r.found = Finds(r.me)
  BY <1>2, <1>3, <1>4 DEF Reads
<1> QED BY <1>1, <1>5, <1>6

LEMMA QuietsDown ==
    ASSUME BondInv, NEW c \in FriendCalls, Tell(c) \/ ListAnswer(c) \/ CallFails(c)
    PROVE  BondInv'
<1>1. asking' = [asking EXCEPT ![c] = Quiet] /\ UNCHANGED <<rows, agreed>>
  BY DEF Tell, ListAnswer, CallFails, Proceeds
<1> QED BY <1>1, QuietCall, PassingStep

LEMMA BreaksOff ==
    ASSUME BondInv, (\E x \in Folk : Disconnect(x)) \/ ServerStops
    PROVE  BondInv'
<1>1. /\ UNCHANGED <<rows, agreed>>
      /\ asking' = [c \in FriendCalls |-> asking'[c]]
      /\ \A c \in FriendCalls : asking'[c] \in {Quiet, asking[c]}
  BY DEF Disconnect, ServerStops
<1> QED BY <1>1, EndingStep

LEMMA BondInductive == BondInv /\ [FriendsNext]_friendsVars => BondInv'
<1> SUFFICES ASSUME BondInv, [FriendsNext]_friendsVars
             PROVE  BondInv'
  OBVIOUS
<1>1. ASSUME NEW c \in FriendCalls, NEW x \in Folk, NEW y \in Folk,
             FriendRequest(c, x, y) \/ FriendAccept(c, x, y) \/ RemoveFriend(c, x, y)
      PROVE  BondInv'
  BY <1>1, RequestStep, YesStep, RemoveStep DEF FriendAccept
<1>2. ASSUME NEW c \in FriendCalls, Reads(c)
      PROVE  BondInv'
  BY <1>2, ReadStep
<1>3. ASSUME NEW c \in FriendCalls,
             CreateRow(c) \/ SaveRow(c) \/ Tell(c) \/ ListAnswer(c) \/ CallFails(c)
      PROVE  BondInv'
  BY <1>3, CreateStep, SaveStep, QuietsDown
<1>4. CASE (\E x \in Folk : Disconnect(x)) \/ ServerStops
  BY <1>4, BreaksOff
<1>5. CASE UNCHANGED friendsVars
  BY <1>5, StillStep DEF friendsVars
<1> QED BY <1>1, <1>2, <1>3, <1>4, <1>5 DEF FriendsNext, Reads

LEMMA BondStart == FriendsInit => BondInv
<1> SUFFICES ASSUME FriendsInit
             PROVE  BondInv
  OBVIOUS
<1>1. Typed
  BY QuietCall DEF FriendsInit, Typed
<1>2. \A c \in FriendCalls : asking[c].pc = "idle"
  BY QuietCall DEF FriendsInit
<1> QED BY <1>1, <1>2 DEF BondInv, Between, AskerAgreed, AgreedOfPair, Consents, FriendsInit

-----------------------------------------------------------------------------
(* The refinement.                                                          *)

LEMMA BondOf ==
    /\ Bond \in [Ties -> Folk \cup {NoBond, Friendly}] \/ ~Typed
    /\ \A t \in Ties : Bond[t] = IF rows[t] = NoRow THEN NoBond
                                 ELSE IF rows[t].accepted THEN Friendly
                                 ELSE rows[t].by
<1>1. \A t \in Ties : Bond[t] = IF rows[t] = NoRow THEN NoBond
                                 ELSE IF rows[t].accepted THEN Friendly
                                 ELSE rows[t].by
  BY DEF Bond
<1>2. Typed => \A t \in Ties : rows[t] = NoRow \/ rows[t].by \in Folk
  BY DEF Typed, Row
<1> QED BY <1>1, <1>2 DEF Bond

LEMMA SameTies == Promised!Ties = Ties
BY DEF Promised!Ties, Ties

\* A step that changes one document changes one bond.
LEMMA OneBond ==
    ASSUME Typed, NEW t \in Ties, NEW row, rows' = [rows EXCEPT ![t] = row]
    PROVE  Bond' = [Bond EXCEPT ![t] = IF row = NoRow THEN NoBond
                                       ELSE IF row.accepted THEN Friendly
                                       ELSE row.by]
BY DEF Typed, Bond

LEMMA Stutters ==
    ASSUME UNCHANGED <<rows, agreed>>
    PROVE  UNCHANGED <<Bond, agreed>>
BY DEF Bond

LEMMA YesAgrees ==
    ASSUME BondInv, NEW c \in FriendCalls, NEW x \in Folk, NEW y \in Folk, x # y,
           AwaitsMe(rows[Tie(x, y)], x), SaysYes(c, x, y, rows[Tie(x, y)])
    PROVE  Promised!FriendshipNext
<1> DEFINE t == Tie(x, y)
<1>1. t \in Ties /\ t = {x, y}
  BY TieInTies
<1>2. Bond[t] \in t \ {x}
  BY <1>1, BondOf DEF BondInv, AskerAgreed, AwaitsMe
<1>3. Promised!Agree(t, x)
  BY <1>1, <1>2, Stutters DEF Promised!Agree, SaysYes, Bond
<1> QED BY <1>1, <1>3, SameTies DEF Promised!FriendshipNext

LEMMA CreateAsks ==
    ASSUME BondInv, NEW c \in FriendCalls, CreateRow(c)
    PROVE  Promised!FriendshipNext \/ UNCHANGED <<Bond, agreed>>
<1> DEFINE r == asking[c]
           t == Tie(r.me, r.to)
<1>1. r.me \in Folk /\ r.to \in Folk /\ r.me # r.to
  BY CallByPc DEF CreateRow, BondInv, Typed, Between
<1>2. t \in Ties /\ t = {r.me, r.to}
  BY <1>1, TieInTies
<1>3. CASE rows[t] # NoRow
  BY <1>3, Stutters DEF CreateRow
<1>4. CASE rows[t] = NoRow
  <2>1. PICK id \in RowIds \ HeldIds :
            rows' = [rows EXCEPT ![t] = [id |-> id, by |-> r.me, accepted |-> FALSE]]
    BY <1>4 DEF CreateRow
  <2>2. [id |-> id, by |-> r.me, accepted |-> FALSE] # NoRow
    <3>1. [id |-> id, by |-> r.me, accepted |-> FALSE] \in Row
      BY <1>1 DEF Row
    <3> QED BY <3>1, NoRowAssumption
  <2>3. Bond' = [Bond EXCEPT ![t] = r.me]
    BY <1>2, <2>1, <2>2, OneBond DEF BondInv
  <2>4. agreed' = [agreed EXCEPT ![t] = {r.me}]
    BY <1>4 DEF CreateRow
  <2>5. Bond[t] = NoBond
    BY <1>2, <1>4, BondOf
  <2>6. Promised!Ask(t, r.me)
    BY <1>2, <2>3, <2>4, <2>5 DEF Promised!Ask
  <2> QED BY <1>2, <2>6, SameTies DEF Promised!FriendshipNext
<1> QED BY <1>3, <1>4

LEMMA SaveBefriends ==
    ASSUME BondInv, NEW c \in FriendCalls, SaveRow(c)
    PROVE  Promised!FriendshipNext \/ UNCHANGED <<Bond, agreed>>
<1> DEFINE r == asking[c]
           t == Tie(r.me, r.to)
           new == [id |-> r.id, by |-> r.to, accepted |-> TRUE]
<1>1. r.pc = "save" /\ r.me \in Folk /\ r.to \in Folk /\ r.me # r.to /\ r.id \in RowIds
  BY CallByPc DEF SaveRow, BondInv, Typed, Between
<1>2. t \in Ties /\ t = {r.me, r.to}
  BY <1>1, TieInTies
<1>3. CASE ~SameRow(rows[t], r)
  BY <1>3, Stutters DEF SaveRow
<1>4. CASE SameRow(rows[t], r)
  <2>1. rows' = [rows EXCEPT ![t] = new] /\ agreed' = agreed
    BY <1>4 DEF SaveRow
  <2>2. new # NoRow /\ new.accepted
    <3>1. new \in Row
      BY <1>1 DEF Row
    <3> QED BY <3>1, NoRowAssumption
  <2>3. Bond' = [Bond EXCEPT ![t] = Friendly]
    BY <1>2, <2>1, <2>2, OneBond DEF BondInv
  <2>4. rows[t] # NoRow /\ rows[t].by = r.to /\ r.me \in agreed[t]
    BY <1>1, <1>4 DEF BondInv, Consents, SameRow
  <2>5. CASE rows[t].accepted
    <3>1. Bond[t] = Friendly
      BY <1>2, <2>4, <2>5, BondOf
    <3>2. Bond \in [Ties -> Folk \cup {NoBond, Friendly}]
      BY BondOf DEF BondInv
    <3>3. Bond' = Bond
      BY <1>2, <2>3, <3>1, <3>2
    <3> QED BY <2>1, <3>3
  <2>6. CASE ~rows[t].accepted
    <3>1. Bond[t] = r.to
      BY <1>2, <2>4, <2>6, BondOf
    <3>2. agreed[t] = t
      <4>1. r.to \in agreed[t]
        BY <1>2, <2>4 DEF BondInv, AskerAgreed
      <4>2. agreed[t] \subseteq t
        BY <1>2 DEF BondInv, AgreedOfPair
      <4> QED BY <1>2, <2>4, <4>1, <4>2
    <3>3. Promised!Befriend(t)
      BY <1>2, <2>1, <2>3, <3>1, <3>2 DEF Promised!Befriend
    <3> QED BY <1>2, <3>3, SameTies DEF Promised!FriendshipNext
  <2> QED BY <2>5, <2>6
<1> QED BY <1>3, <1>4

LEMMA RemoveEnds ==
    ASSUME BondInv, NEW c \in FriendCalls, NEW x \in Folk, NEW y \in Folk,
           RemoveFriend(c, x, y)
    PROVE  Promised!FriendshipNext
<1> DEFINE t == Tie(x, y)
<1>1. t \in Ties
  BY TieInTies DEF RemoveFriend
<1>2. Bond' = [Bond EXCEPT ![t] = NoBond]
  BY <1>1, OneBond DEF BondInv, RemoveFriend
<1>3. Promised!End(t)
  BY <1>2 DEF RemoveFriend, Promised!End
<1> QED BY <1>1, <1>3, SameTies DEF Promised!FriendshipNext

LEMMA StepRefines ==
    BondInv /\ [FriendsNext]_friendsVars => [Promised!FriendshipNext]_<<Bond, agreed>>
<1> SUFFICES ASSUME BondInv, [FriendsNext]_friendsVars
             PROVE  Promised!FriendshipNext \/ UNCHANGED <<Bond, agreed>>
  OBVIOUS
<1>1. ASSUME NEW c \in FriendCalls, NEW x \in Folk, NEW y \in Folk,
             FriendRequest(c, x, y)
      PROVE  Promised!FriendshipNext \/ UNCHANGED <<Bond, agreed>>
  <2>1. x # y
    BY <1>1 DEF FriendRequest
  <2> QED BY <1>1, <2>1, RequestStep, YesAgrees, Stutters
<1>2. ASSUME NEW c \in FriendCalls, NEW x \in Folk, NEW y \in Folk,
             FriendAccept(c, x, y)
      PROVE  Promised!FriendshipNext \/ UNCHANGED <<Bond, agreed>>
  BY <1>2, YesAgrees DEF FriendAccept
<1>3. ASSUME NEW c \in FriendCalls,
             Reads(c) \/ Tell(c) \/ ListAnswer(c) \/ CallFails(c)
      PROVE  UNCHANGED <<Bond, agreed>>
  BY <1>3, ReadStep, Stutters DEF Tell, ListAnswer, CallFails
<1>4. ASSUME NEW c \in FriendCalls, CreateRow(c) \/ SaveRow(c)
      PROVE  Promised!FriendshipNext \/ UNCHANGED <<Bond, agreed>>
  BY <1>4, CreateAsks, SaveBefriends
<1>5. ASSUME NEW c \in FriendCalls, NEW x \in Folk, NEW y \in Folk,
             RemoveFriend(c, x, y)
      PROVE  Promised!FriendshipNext
  BY <1>5, RemoveEnds
<1>6. CASE UNCHANGED friendsVars
  BY <1>6, Stutters DEF friendsVars
<1>7. CASE (\E x \in Folk : Disconnect(x)) \/ ServerStops
  BY <1>7, Stutters DEF Disconnect, ServerStops
<1> QED BY <1>1, <1>2, <1>3, <1>4, <1>5, <1>6, <1>7 DEF FriendsNext, Reads

LEMMA StartRefines == FriendsInit => Promised!FriendshipInit
BY SameTies DEF FriendsInit, Promised!FriendshipInit, Bond

(* The friends service implements module Friendship: whatever requests overlap
   or fail, a bond begins with one player asking and becomes a friendship only
   when both have said yes to it as it stands. *)
THEOREM FriendshipPromised == FriendsSpec => FriendshipKept
<1>1. FriendsInit => BondInv
  BY BondStart
<1>2. BondInv /\ [FriendsNext]_friendsVars => BondInv'
  BY BondInductive
<1>3. FriendsInit => Promised!FriendshipInit
  BY StartRefines
<1>4. BondInv /\ [FriendsNext]_friendsVars => [Promised!FriendshipNext]_<<Bond, agreed>>
  BY StepRefines
<1> QED BY <1>1, <1>2, <1>3, <1>4, PTL
        DEF FriendsSpec, FriendshipKept, Promised!FriendshipSpec

-----------------------------------------------------------------------------
(* What the two of a pair have heard of it.  For a pair that is not overlapped *)
(* there is at most one request, and what it will tell is what the document   *)
(* says; whoever is connected and not astray is behind only while a request   *)
(* that wrote has not told.                                                   *)

SeesTyped ==
    /\ sees = [t \in Ties |-> sees[t]]
    /\ \A t \in Ties : sees[t] \in [t -> Views]

LineTyped == line \in [Folk -> {"off", "opening", "open"}]

InStep(t) ==
    \A x \in t \ astray[t] : line[x] = "open" => sees[t][x] = Says(rows[t], x)

Telling(r) == r.pc \in DOMAIN News

\* What a request is about to tell of the pair is what the document says.
Truthful(r, t) ==
    /\ r.pc = "tellAsked" => rows[t] # NoRow /\ ~rows[t].accepted /\ rows[t].by = r.me
    /\ r.pc = "tellFriends" => rows[t] # NoRow /\ rows[t].accepted
    /\ r.pc = "tellRemoved" => rows[t] = NoRow
    /\ r.pc \in {"list", "snapshot"} => r.found[t] = Says(rows[t], r.me)

\* Between a write and what is told of it the two may be behind.
Heard(t) ==
    /\ \A c, d \in FriendCalls : t \in About(asking[c]) /\ t \in About(asking[d]) => c = d
    /\ \A c \in FriendCalls : t \in About(asking[c]) => Truthful(asking[c], t)
    /\ (\A c \in FriendCalls : t \in About(asking[c]) => ~Telling(asking[c])) => InStep(t)

\* Nothing is claimed of the players of an overlapped pair.
Attuned ==
    \A t \in Ties :
        /\ t \in overlapped => astray[t] = t
        /\ t \notin overlapped => Heard(t)

HInv == BondInv /\ SeesTyped /\ LineTyped /\ Attuned

-----------------------------------------------------------------------------
LEMMA TiesOfFolk == \A t \in Ties : t \subseteq Folk
BY DEF Ties

LEMMA NewsTold ==
    /\ DOMAIN News = {"tellAsked", "tellFriends", "tellRemoved"}
    /\ News["tellAsked"].me = "asked" /\ News["tellAsked"].to = "asks me"
    /\ News["tellFriends"].me = "friends" /\ News["tellFriends"].to = "friends"
    /\ News["tellRemoved"].me = "nothing" /\ News["tellRemoved"].to = "nothing"
BY DEF News

(* A pair at rest is as one that is not overlapped. *)
LEMMA HeardBefore ==
    ASSUME HInv, NEW t \in Ties, t \notin overlapped \/ ~Busy(t)
    PROVE  Heard(t)
<1>1. CASE t \notin overlapped
  BY <1>1 DEF HInv, Attuned
<1>2. CASE t \in overlapped /\ ~Busy(t)
  <2>1. astray[t] = t
    BY <1>2 DEF HInv, Attuned
  <2>2. InStep(t)
    BY <2>1 DEF InStep
  <2> QED BY <1>2, <2>2 DEF Heard, Busy
<1> QED BY <1>1, <1>2

(* The pairs that are overlapped now are those of before, but for pairs at rest,
   and the given ones. *)
LEMMA CrossesTo ==
    ASSUME HInv, NEW pairs, Crosses(pairs)
    PROVE  /\ \A t \in Ties : t \in overlapped' => astray'[t] = t
           /\ \A t \in Ties \ overlapped' :
                 t \notin pairs /\ Heard(t) /\ astray'[t] = astray[t]
<1>1. \A t \in Ties : astray'[t] = IF t \in pairs THEN t ELSE astray[t]
  BY DEF Crosses, Astray
<1>2. \A t \in Ties \ overlapped' : t \notin pairs /\ (t \notin overlapped \/ ~Busy(t))
  BY DEF Crosses
<1>3. \A t \in Ties : t \in overlapped' => astray'[t] = t
  BY <1>1 DEF Crosses, HInv, Attuned
<1> QED BY <1>1, <1>2, <1>3, HeardBefore

LEMMA SaysAView == \A row, x : Says(row, x) \in Views
BY DEF Says, Views

(* The pairs a request is about. *)
LEMMA AboutByPc ==
    ASSUME NEW r \in Calls
    PROVE  /\ r.pc \in {"create", "save", "tellAsked", "tellFriends", "tellRemoved"} =>
                  About(r) = {Tie(r.me, r.to)}
           /\ r.pc \in {"idle", "connect"} => About(r) = {}
           /\ r.pc \in {"list", "snapshot"} =>
                  /\ r.me \in Folk /\ r.found \in [Ties -> Views]
                  /\ About(r) = {t \in Ties : r.me \in t}
BY DEF About, Calls, Quiet

LEMMA PairByPc ==
    ASSUME BondInv, NEW c \in FriendCalls,
           asking[c].pc \in {"create", "save", "tellAsked", "tellFriends", "tellRemoved"}
    PROVE  LET r == asking[c] IN
           /\ r \in Calls /\ r.me \in Folk /\ r.to \in Folk /\ r.me # r.to
           /\ Tie(r.me, r.to) \in Ties /\ Tie(r.me, r.to) = {r.me, r.to}
<1>1. asking[c] \in Calls
  BY DEF BondInv, Typed
<1>2. asking[c].me # asking[c].to
  BY DEF BondInv, Between
<1>3. QED
  BY <1>1, <1>2, CallByPc, TieInTies

LEMMA ProceedsTo ==
    ASSUME BondInv, NEW c \in FriendCalls, NEW r \in Calls, Proceeds(c, r)
    PROVE  asking'[c] = r /\ \A d \in FriendCalls \ {c} : asking'[d] = asking[d]
BY OthersWait DEF BondInv, Proceeds

(* A step that is not about the pair, or ends requests about it that have
   nothing to tell. *)
LEMMA Aside ==
    ASSUME NEW t \in Ties, Heard(t),
           \A d \in FriendCalls :
               \/ asking'[d] = asking[d]
               \/ /\ t \notin About(asking'[d])
                  /\ t \in About(asking[d]) => ~Telling(asking[d]),
           \A x \in t \ astray'[t] :
               /\ x \notin astray[t]
               /\ line'[x] = "open" => line[x] = "open"
               /\ sees'[t][x] = sees[t][x],
           rows'[t] = rows[t]
    PROVE  Heard(t)'
<1>1. \A d \in FriendCalls : (t \in About(asking[d]))' <=> t \in About(asking'[d])
  BY DEF About
<1>2. \A d \in FriendCalls : Telling(asking[d])' <=> Telling(asking'[d])
  BY DEF Telling, News
<1>3. \A d \in FriendCalls :
          t \in About(asking'[d]) => asking'[d] = asking[d] /\ t \in About(asking[d])
  OBVIOUS
<1>4. \A d \in FriendCalls : t \in About(asking'[d]) => Truthful(asking[d], t)'
  BY <1>3 DEF Truthful, Heard
<1>5. ASSUME \A d \in FriendCalls : t \in About(asking'[d]) => ~Telling(asking'[d])
      PROVE  InStep(t)'
  <2>1. \A d \in FriendCalls : t \in About(asking[d]) => ~Telling(asking[d])
    BY <1>5
  <2>2. InStep(t)
    BY <2>1 DEF Heard
  <2> QED BY <2>2 DEF InStep
<1>6. \A c, d \in FriendCalls : t \in About(asking'[c]) /\ t \in About(asking'[d]) => c = d
  BY <1>3 DEF Heard
<1>7. QED
  BY <1>1, <1>2, <1>4, <1>5, <1>6 DEF Heard

(* The only request about a pair, after its step. *)
LEMMA AloneHeard ==
    ASSUME NEW t \in Ties, NEW c \in FriendCalls,
           \A d \in FriendCalls \ {c} : t \notin About(asking'[d]),
           t \in About(asking'[c]) => Truthful(asking[c], t)',
           InStep(t)' \/ (t \in About(asking'[c]) /\ Telling(asking'[c]))
    PROVE  Heard(t)'
<1>1. \A d \in FriendCalls : t \in About(asking'[d]) => d = c
  OBVIOUS
<1>2. \A d \in FriendCalls : (t \in About(asking[d]))' <=> t \in About(asking'[d])
  BY DEF About
<1>3. \A d \in FriendCalls : Telling(asking[d])' <=> Telling(asking'[d])
  BY DEF Telling, News
<1>4. \A d \in FriendCalls : t \in About(asking'[d]) => Truthful(asking[d], t)'
  BY <1>1
<1>5. (\A d \in FriendCalls : t \in About(asking'[d]) => ~Telling(asking'[d])) => InStep(t)'
  OBVIOUS
<1>6. QED
  BY <1>1, <1>2, <1>3, <1>4, <1>5 DEF Heard

(* A request about a pair that is not overlapped is the only one about it. *)
LEMMA AloneAbout ==
    ASSUME HInv, NEW c \in FriendCalls, NEW r \in Calls, Proceeds(c, r),
           NEW t \in Ties \ overlapped', t \in About(asking[c]) \/ t \in About(r)
    PROVE  /\ Heard(t) /\ asking'[c] = r /\ astray'[t] = astray[t]
           /\ \A d \in FriendCalls \ {c} : t \notin About(asking[d]) /\ t \notin About(asking'[d])
<1>1. asking'[c] = r /\ \A d \in FriendCalls \ {c} : asking'[d] = asking[d]
  BY ProceedsTo DEF HInv
<1>2. Heard(t) /\ astray'[t] = astray[t] /\ t \notin Rivals(c, r)
  BY CrossesTo DEF Proceeds
<1>3. \A d \in FriendCalls \ {c} : t \notin About(asking[d])
  BY <1>2 DEF Heard, Rivals
<1>4. QED
  BY <1>1, <1>2, <1>3

(* A pair a proceeding request is not about. *)
LEMMA AsideOf ==
    ASSUME HInv, NEW c \in FriendCalls, NEW r \in Calls, Proceeds(c, r),
           NEW t \in Ties \ overlapped', t \notin About(asking[c]), t \notin About(r),
           rows'[t] = rows[t], sees'[t] = sees[t],
           \A x \in Folk : line'[x] = "open" => line[x] = "open"
    PROVE  Heard(t)'
<1>1. asking'[c] = r /\ \A d \in FriendCalls \ {c} : asking'[d] = asking[d]
  BY ProceedsTo DEF HInv
<1>2. Heard(t) /\ astray'[t] = astray[t]
  BY CrossesTo DEF Proceeds
<1>3. \A d \in FriendCalls :
          \/ asking'[d] = asking[d]
          \/ /\ t \notin About(asking'[d])
             /\ t \in About(asking[d]) => ~Telling(asking[d])
  BY <1>1
<1>4. QED
  BY <1>2, <1>3, TiesOfFolk, Aside

(* A request that has written nothing goes on, or ends. *)
LEMMA ReadsOn ==
    ASSUME HInv, NEW c \in FriendCalls, NEW r \in Calls, Proceeds(c, r),
           UNCHANGED <<rows, sees>>, ~Telling(asking[c]), ~Telling(r),
           r.pc \in {"list", "snapshot"} => \A t \in Ties : r.found[t] = Says(rows[t], r.me),
           \A x \in Folk : line'[x] = "open" => line[x] = "open"
    PROVE  \A t \in Ties \ overlapped' : Heard(t)'
<1> SUFFICES ASSUME NEW t \in Ties \ overlapped' PROVE Heard(t)'
  OBVIOUS
<1>1. CASE t \in About(asking[c]) \/ t \in About(r)
  <2>1. /\ Heard(t) /\ asking'[c] = r /\ astray'[t] = astray[t]
        /\ \A d \in FriendCalls \ {c} : t \notin About(asking[d]) /\ t \notin About(asking'[d])
    BY <1>1, AloneAbout
  <2>2. InStep(t)
    BY <2>1 DEF Heard
  <2>3. InStep(t)'
    BY <2>1, <2>2, TiesOfFolk DEF InStep
  <2>4. Truthful(asking[c], t)'
    BY <2>1, NewsTold DEF Truthful, Telling
  <2>5. QED
    BY <2>1, <2>3, <2>4, AloneHeard
<1>2. CASE t \notin About(asking[c]) /\ t \notin About(r)
  BY <1>2, AsideOf
<1>3. QED
  BY <1>1, <1>2

LEMMA HearsTyped ==
    ASSUME SeesTyped, NEW t \in Ties, NEW x \in t, NEW what \in Views,
           sees' = [sees EXCEPT ![t][x] = what]
    PROVE  /\ SeesTyped' /\ sees'[t][x] = what
           /\ \A z \in t \ {x} : sees'[t][z] = sees[t][z]
           /\ \A u \in Ties \ {t} : sees'[u] = sees[u]
BY DEF SeesTyped

(* An answer given right after the read says what was read. *)
LEMMA AnsweredHeard ==
    ASSUME HInv, NEW t \in Ties, NEW x \in t, Answered(t, x, Says(rows[t], x))
    PROVE  \A u \in Ties \ overlapped' : Heard(u)'
<1>1. UNCHANGED <<rows, asking, line>> /\ sees' = [sees EXCEPT ![t][x] = Says(rows[t], x)]
  BY DEF Answered
<1>2. /\ sees'[t][x] = Says(rows[t], x)
      /\ \A z \in t \ {x} : sees'[t][z] = sees[t][z]
      /\ \A u \in Ties \ {t} : sees'[u] = sees[u]
  <2> DEFINE what == Says(rows[t], x)
  <2>1. what \in Views /\ SeesTyped /\ sees' = [sees EXCEPT ![t][x] = what]
    BY <1>1, SaysAView DEF HInv
  <2> HIDE DEF what
  <2>2. /\ sees'[t][x] = what
        /\ \A z \in t \ {x} : sees'[t][z] = sees[t][z]
        /\ \A u \in Ties \ {t} : sees'[u] = sees[u]
    BY <2>1, HearsTyped
  <2> QED BY <2>2 DEF what
<1>3. ASSUME NEW u \in Ties \ overlapped'
      PROVE  Heard(u)'
  <2>1. Heard(u) /\ astray'[u] = astray[u] /\ u \notin {w \in {t} : Busy(w)}
    BY CrossesTo DEF Answered
  <2>2. CASE u = t
    <3>1. \A d \in FriendCalls : t \notin About(asking'[d])
      BY <1>1, <2>1, <2>2 DEF Busy
    <3>2. InStep(t)
      BY <1>1, <2>1, <2>2, <3>1 DEF Heard
    <3>3. InStep(t)'
      BY <1>1, <1>2, <2>1, <2>2, <3>2 DEF InStep
    <3>4. \A d \in FriendCalls : (t \in About(asking[d]))' <=> t \in About(asking'[d])
      BY DEF About
    <3> QED BY <2>2, <3>1, <3>3, <3>4 DEF Heard
  <2>3. CASE u # t
    BY <1>1, <1>2, <2>1, <2>3, Aside
  <2> QED BY <2>2, <2>3
<1>4. QED
  BY <1>3

(* Requests that read. *)
LEMMA YesHeard ==
    ASSUME HInv, NEW c \in FriendCalls, NEW x \in Folk, NEW y \in Folk, x # y,
           asking[c] = Quiet,
           AwaitsMe(rows[Tie(x, y)], x), SaysYes(c, x, y, rows[Tie(x, y)])
    PROVE  \A t \in Ties \ overlapped' : Heard(t)'
<1> DEFINE r == [pc |-> "save", me |-> x, to |-> y, id |-> rows[Tie(x, y)].id]
<1>1. rows[Tie(x, y)] \in Row
  BY TieInTies DEF HInv, BondInv, Typed, AwaitsMe
<1>2. r \in Calls /\ r.pc = "save"
  BY <1>1, RowFields DEF Calls
<1>3. Proceeds(c, r) /\ UNCHANGED <<rows, line, sees>>
  BY DEF SaysYes
<1> HIDE DEF r
<1>4. QED
  BY <1>2, <1>3, QuietCall, NewsTold, ReadsOn DEF Telling

LEMMA RequestHeard ==
    ASSUME HInv, NEW c \in FriendCalls, NEW x \in Folk, NEW y \in Folk,
           FriendRequest(c, x, y) \/ FriendAccept(c, x, y)
    PROVE  \A t \in Ties \ overlapped' : Heard(t)'
<1> DEFINE t == Tie(x, y)
<1>1. asking[c] = Quiet /\ x # y /\ t \in Ties /\ x \in t
  BY TieInTies DEF FriendRequest, FriendAccept
<1>2. CASE AwaitsMe(rows[t], x) /\ SaysYes(c, x, y, rows[t])
  BY <1>1, <1>2, YesHeard
<1>3. CASE rows[t] = NoRow /\ Proceeds(c, [pc |-> "create", me |-> x, to |-> y])
           /\ UNCHANGED <<rows, line, sees>>
  <2> DEFINE r == [pc |-> "create", me |-> x, to |-> y]
  <2>1. r \in Calls /\ r.pc = "create" /\ Proceeds(c, r)
    BY <1>3 DEF Calls
  <2> HIDE DEF r
  <2>2. QED
    BY <1>1, <1>3, <2>1, QuietCall, NewsTold, ReadsOn DEF Telling
<1>4. CASE rows[t] # NoRow /\ rows[t].accepted /\ Answered(t, x, "friends")
  <2>1. Says(rows[t], x) = "friends"
    BY <1>4 DEF Says
  <2>2. QED
    BY <1>1, <1>4, <2>1, AnsweredHeard
<1>5. CASE rows[t] # NoRow /\ ~rows[t].accepted /\ rows[t].by = x /\ Answered(t, x, "asked")
  <2>1. Says(rows[t], x) = "asked"
    BY <1>5 DEF Says
  <2>2. QED
    BY <1>1, <1>5, <2>1, AnsweredHeard
<1>6. QED
  BY <1>2, <1>3, <1>4, <1>5 DEF FriendRequest, FriendAccept

LEMMA ReadHeard ==
    ASSUME HInv, NEW c \in FriendCalls, Reads(c)
    PROVE  \A t \in Ties \ overlapped' : Heard(t)'
<1>1. PICK r \in Calls :
          /\ r.pc \in {"connect", "list", "snapshot"}
          /\ Proceeds(c, r)
          /\ r.pc \in {"list", "snapshot"} => r.found = Finds(r.me)
  BY ReadStep DEF HInv
<1>2. UNCHANGED <<rows, sees>> /\ asking[c].pc \in {"idle", "connect"}
  BY ReadStep DEF HInv
<1>3. \A x \in Folk : line'[x] = "open" => line[x] = "open"
  BY DEF Reads, ListRead, Connect, SnapshotRead, HInv, LineTyped
<1>4. r.pc \in {"list", "snapshot"} => \A t \in Ties : r.found[t] = Says(rows[t], r.me)
  BY <1>1, FindsViews
<1>5. ~Telling(asking[c]) /\ ~Telling(r)
  BY <1>1, <1>2, NewsTold DEF Telling
<1>6. QED
  BY <1>1, <1>2, <1>3, <1>4, <1>5, ReadsOn

(* The document is written; the two are told later. *)
LEMMA WrittenHeard ==
    ASSUME HInv, NEW c \in FriendCalls, NEW t \in Ties, NEW q \in Calls, Proceeds(c, q),
           About(asking[c]) \subseteq {t}, About(q) = {t}, Telling(q),
           q.pc = "tellAsked" =>
               rows'[t] # NoRow /\ ~rows'[t].accepted /\ rows'[t].by = q.me,
           q.pc = "tellFriends" => rows'[t] # NoRow /\ rows'[t].accepted,
           q.pc = "tellRemoved" => rows'[t] = NoRow,
           \A u \in Ties \ {t} : rows'[u] = rows[u], UNCHANGED <<line, sees>>
    PROVE  \A u \in Ties \ overlapped' : Heard(u)'
<1> SUFFICES ASSUME NEW u \in Ties \ overlapped' PROVE Heard(u)'
  OBVIOUS
<1>1. CASE u = t
  <2>1. /\ asking'[c] = q
        /\ \A d \in FriendCalls \ {c} : u \notin About(asking'[d])
    BY <1>1, AloneAbout
  <2>2. Truthful(asking[c], u)'
    BY <1>1, <2>1, NewsTold DEF Truthful, Telling
  <2>3. QED
    BY <1>1, <2>1, <2>2, AloneHeard
<1>2. CASE u # t
  BY <1>2, AsideOf
<1>3. QED
  BY <1>1, <1>2

LEMMA CreateHeard ==
    ASSUME HInv, NEW c \in FriendCalls, CreateRow(c)
    PROVE  \A t \in Ties \ overlapped' : Heard(t)'
<1> DEFINE r == asking[c]
           t == Tie(r.me, r.to)
<1>1. r.pc = "create" /\ r \in Calls /\ r.me \in Folk /\ r.to \in Folk /\ t \in Ties
  BY PairByPc DEF CreateRow, HInv
<1>2. CASE rows[t] # NoRow
  <2>1. Proceeds(c, Quiet) /\ UNCHANGED <<rows, line, sees>>
    BY <1>2 DEF CreateRow
  <2>2. QED
    BY <1>1, <2>1, QuietCall, NewsTold, ReadsOn DEF Telling
<1>3. CASE rows[t] = NoRow
  <2> DEFINE q == [pc |-> "tellAsked", me |-> r.me, to |-> r.to]
  <2>1. PICK id \in RowIds :
            rows' = [rows EXCEPT ![t] = [id |-> id, by |-> r.me, accepted |-> FALSE]]
    BY <1>3 DEF CreateRow
  <2> DEFINE new == [id |-> id, by |-> r.me, accepted |-> FALSE]
  <2>2. new \in Row /\ new.by = r.me /\ ~new.accepted
    BY <1>1 DEF Row
  <2>3. q \in Calls /\ q.pc = "tellAsked" /\ q.me = r.me /\ q.to = r.to
    BY <1>1 DEF Calls
  <2>4. Proceeds(c, q) /\ UNCHANGED <<line, sees>>
    BY <1>3 DEF CreateRow
  <2> HIDE DEF q, new
  <2>5. rows' = [rows EXCEPT ![t] = new]
    BY <2>1 DEF new
  <2>6. rows'[t] = new /\ \A u \in Ties \ {t} : rows'[u] = rows[u]
    BY <1>1, <2>5 DEF HInv, BondInv, Typed
  <2>7. About(r) = {t} /\ About(q) = {t}
    BY <1>1, <2>3, AboutByPc
  <2>8. rows'[t] # NoRow /\ ~rows'[t].accepted /\ rows'[t].by = q.me
    BY <2>2, <2>3, <2>6, NoRowAssumption
  <2> HIDE DEF t
  <2>9. QED
    BY <1>1, <2>3, <2>4, <2>6, <2>7, <2>8, NewsTold, WrittenHeard DEF Telling
<1>4. QED
  BY <1>2, <1>3

LEMMA SaveHeard ==
    ASSUME HInv, NEW c \in FriendCalls, SaveRow(c)
    PROVE  \A t \in Ties \ overlapped' : Heard(t)'
<1> DEFINE r == asking[c]
           t == Tie(r.me, r.to)
<1>1. r.pc = "save" /\ r \in Calls /\ r.me \in Folk /\ r.to \in Folk /\ t \in Ties
      /\ r.id \in RowIds
  BY PairByPc, CallByPc DEF SaveRow, HInv
<1>2. CASE ~SameRow(rows[t], r)
  <2>1. Proceeds(c, Quiet) /\ UNCHANGED <<rows, line, sees>>
    BY <1>2 DEF SaveRow
  <2>2. QED
    BY <1>1, <2>1, QuietCall, NewsTold, ReadsOn DEF Telling
<1>3. CASE SameRow(rows[t], r)
  <2> DEFINE q == [pc |-> "tellFriends", me |-> r.me, to |-> r.to]
             new == [id |-> r.id, by |-> r.to, accepted |-> TRUE]
  <2>1. new \in Row /\ new.accepted
    BY <1>1 DEF Row
  <2>2. q \in Calls /\ q.pc = "tellFriends" /\ q.me = r.me /\ q.to = r.to
    BY <1>1 DEF Calls
  <2>3. Proceeds(c, q) /\ UNCHANGED <<line, sees>> /\ rows' = [rows EXCEPT ![t] = new]
    BY <1>3 DEF SaveRow
  <2> HIDE DEF q, new
  <2>4. rows'[t] = new /\ \A u \in Ties \ {t} : rows'[u] = rows[u]
    BY <1>1, <2>3 DEF HInv, BondInv, Typed
  <2>5. About(r) = {t} /\ About(q) = {t}
    BY <1>1, <2>2, AboutByPc
  <2>6. rows'[t] # NoRow /\ rows'[t].accepted
    BY <2>1, <2>4, NoRowAssumption
  <2> HIDE DEF t
  <2>7. QED
    BY <1>1, <2>2, <2>3, <2>4, <2>5, <2>6, NewsTold, WrittenHeard DEF Telling
<1>4. QED
  BY <1>2, <1>3

(* The document is gone; the two are told later. *)
LEMMA RemoveHeard ==
    ASSUME HInv, NEW c \in FriendCalls, NEW x \in Folk, NEW y \in Folk,
           RemoveFriend(c, x, y)
    PROVE  \A t \in Ties \ overlapped' : Heard(t)'
<1> DEFINE t == Tie(x, y)
           q == [pc |-> "tellRemoved", me |-> x, to |-> y]
<1>1. t \in Ties
  BY TieInTies DEF RemoveFriend
<1>2. q \in Calls /\ q.pc = "tellRemoved" /\ q.me = x /\ q.to = y
  BY DEF Calls
<1>3. /\ Proceeds(c, q) /\ UNCHANGED <<line, sees>> /\ asking[c] = Quiet
      /\ rows' = [rows EXCEPT ![t] = NoRow]
  BY DEF RemoveFriend
<1> HIDE DEF q
<1>4. rows'[t] = NoRow /\ \A u \in Ties \ {t} : rows'[u] = rows[u]
  BY <1>1, <1>3 DEF HInv, BondInv, Typed
<1>5. About(asking[c]) \subseteq {t} /\ About(q) = {t}
  BY <1>2, <1>3, QuietCall, AboutByPc
<1> HIDE DEF t
<1>6. QED
  BY <1>1, <1>2, <1>3, <1>4, <1>5, NewsTold, WrittenHeard DEF Telling

(* The answer and the event bring both of a pair up to date, if they hear it. *)
LEMMA TellHeard ==
    ASSUME HInv, NEW c \in FriendCalls, Tell(c)
    PROVE  SeesTyped' /\ \A t \in Ties \ overlapped' : Heard(t)'
<1> DEFINE r == asking[c]
           t == Tie(r.me, r.to)
<1>1. r.pc \in {"tellAsked", "tellFriends", "tellRemoved"}
      /\ Proceeds(c, Quiet) /\ UNCHANGED <<rows, line>>
  BY NewsTold DEF Tell
<1>2. r \in Calls /\ r.me \in Folk /\ r.to \in Folk /\ r.me # r.to
      /\ t \in Ties /\ t = {r.me, r.to} /\ About(r) = {t}
  BY <1>1, PairByPc, AboutByPc DEF HInv
<1>3. /\ SeesTyped' /\ \A u \in Ties \ {t} : sees'[u] = sees[u]
      /\ sees'[t][r.me] = News[r.pc].me
      /\ line[r.to] # "off" => sees'[t][r.to] = News[r.pc].to
  <2> DEFINE told == Pushed(r.to, News[r.pc].to, sees[t][r.to])
             s == [sees[t] EXCEPT ![r.me] = News[r.pc].me, ![r.to] = told]
  <2>1. News[r.pc].me \in Views /\ News[r.pc].to \in Views
    BY <1>1, NewsTold DEF Views
  <2>2. told \in Views /\ (line[r.to] # "off" => told = News[r.pc].to)
    BY <1>2, <2>1 DEF HInv, SeesTyped, Pushed
  <2>3. sees' = [sees EXCEPT ![t] = s]
    BY <1>2 DEF Tell, HInv, SeesTyped
  <2> HIDE DEF told
  <2>4. s \in [t -> Views] /\ s[r.me] = News[r.pc].me /\ s[r.to] = told
    BY <1>2, <2>1, <2>2 DEF HInv, SeesTyped
  <2> HIDE DEF s
  <2>5. /\ sees'[t] = s /\ \A u \in Ties \ {t} : sees'[u] = sees[u]
        /\ sees' = [u \in Ties |-> sees'[u]]
    BY <1>2, <2>3 DEF HInv, SeesTyped
  <2>6. SeesTyped'
    BY <2>4, <2>5 DEF HInv, SeesTyped
  <2>7. QED
    BY <2>2, <2>4, <2>5, <2>6
<1>4. ASSUME NEW u \in Ties \ overlapped'
      PROVE  Heard(u)'
  <2>0. About(Quiet) = {}
    BY QuietCall, AboutByPc
  <2>1. CASE u = t
    <3>0. u \in About(asking[c])
      BY <1>2, <2>1
    <3> HIDE DEF t
    <3>1. /\ Heard(u) /\ asking'[c] = Quiet
          /\ \A d \in FriendCalls \ {c} : u \notin About(asking'[d])
      BY <1>1, <3>0, QuietCall, AloneAbout
    <3>2. Truthful(r, u)
      BY <1>2, <2>1, <3>1 DEF Heard
    <3>3. News[r.pc].me = Says(rows[u], r.me) /\ News[r.pc].to = Says(rows[u], r.to)
      BY <1>1, <1>2, <3>2, NewsTold DEF Truthful, Says
    <3>4. InStep(u)'
      BY <1>1, <1>2, <1>3, <2>1, <3>3 DEF InStep
    <3>5. QED
      BY <2>0, <3>1, <3>4, AloneHeard
  <2>2. CASE u # t
    BY <1>1, <1>2, <1>3, <2>0, <2>2, QuietCall, AsideOf
  <2>3. QED
    BY <2>1, <2>2
<1>5. QED
  BY <1>3, <1>4

(* A list brings its player up to date with every pair it is of, but for those
   that other requests overlapped; with a snapshot its connection is open. *)
LEMMA ListHeard ==
    ASSUME HInv, NEW c \in FriendCalls, ListAnswer(c)
    PROVE  SeesTyped' /\ LineTyped' /\ Attuned'
<1> DEFINE r == asking[c]
<1>1. /\ r.pc \in {"list", "snapshot"} /\ r \in Calls /\ r.me \in Folk
      /\ r.found \in [Ties -> Views] /\ About(r) = {t \in Ties : r.me \in t}
  BY AboutByPc DEF ListAnswer, HInv, BondInv, Typed
<1>2. /\ UNCHANGED rows
      /\ sees' = [t \in Ties |-> IF r.me \in t THEN [sees[t] EXCEPT ![r.me] = r.found[t]]
                                 ELSE sees[t]]
      /\ line' = IF r.pc = "snapshot" THEN [line EXCEPT ![r.me] = "open"] ELSE line
      /\ overlapped' = {t \in overlapped : Busy(t)}
      /\ \A t \in Ties : astray'[t] = IF t \in overlapped THEN astray[t] ELSE astray[t] \ {r.me}
  BY DEF ListAnswer
<1>3. asking'[c] = Quiet /\ \A d \in FriendCalls : d # c => asking'[d] = asking[d]
  BY QuietCall, OthersWait DEF ListAnswer, HInv, BondInv
<1>4. \A t \in Ties :
          /\ sees'[t] \in [t -> Views]
          /\ r.me \notin t => sees'[t] = sees[t]
          /\ r.me \in t => /\ sees'[t][r.me] = r.found[t]
                           /\ \A x \in t \ {r.me} : sees'[t][x] = sees[t][x]
  BY <1>1, <1>2 DEF HInv, SeesTyped
<1>5. sees' = [t \in Ties |-> sees'[t]]
  BY <1>2
<1>6. SeesTyped'
  BY <1>4, <1>5 DEF SeesTyped
<1>7. LineTyped' /\ \A x \in Folk \ {r.me} : line'[x] = line[x]
  BY <1>1, <1>2 DEF HInv, LineTyped
<1>8. About(Quiet) = {}
  BY QuietCall, AboutByPc
<1>9. ASSUME NEW t \in Ties, t \notin overlapped'
      PROVE  Heard(t)'
  <2>1. Heard(t)
    BY <1>2, <1>9, HeardBefore
  <2>2. \A x \in t \ {r.me} : line'[x] = line[x]
    BY <1>7, TiesOfFolk
  <2>3. \A x \in t \ astray'[t] : x = r.me \/ x \notin astray[t]
    BY <1>2
  <2>4. CASE r.me \in t
    <3>1. \A d \in FriendCalls \ {c} : t \notin About(asking'[d])
      BY <1>1, <1>3, <2>1, <2>4 DEF Heard
    <3>2. \A d \in FriendCalls : t \in About(asking[d]) => ~Telling(asking[d])
      BY <1>1, <2>1, <2>4, NewsTold DEF Heard, Telling
    <3>3. InStep(t) /\ Truthful(r, t)
      BY <1>1, <2>1, <2>4, <3>2 DEF Heard
    <3>4. InStep(t)'
      BY <1>1, <1>2, <1>4, <2>2, <2>3, <2>4, <3>3 DEF InStep, Truthful
    <3>5. QED
      BY <1>3, <1>8, <3>1, <3>4, AloneHeard
  <2>5. CASE r.me \notin t
    <3>1. \A d \in FriendCalls :
              \/ asking'[d] = asking[d]
              \/ /\ t \notin About(asking'[d])
                 /\ t \in About(asking[d]) => ~Telling(asking[d])
      BY <1>1, <1>3, <1>8, <2>5
    <3>2. \A x \in t \ astray'[t] :
              /\ x \notin astray[t]
              /\ line'[x] = "open" => line[x] = "open"
              /\ sees'[t][x] = sees[t][x]
      BY <1>4, <2>2, <2>3, <2>5
    <3>3. QED
      BY <1>2, <2>1, <3>1, <3>2, Aside
  <2>6. QED
    BY <2>4, <2>5
<1>10. \A t \in Ties : t \in overlapped' => astray'[t] = t
  BY <1>2 DEF HInv, Attuned
<1>11. QED
  BY <1>6, <1>7, <1>9, <1>10 DEF Attuned

(* A request that fails after its write leaves both players astray. *)
LEMMA FailHeard ==
    ASSUME HInv, NEW c \in FriendCalls, CallFails(c)
    PROVE  Attuned'
<1> DEFINE r == asking[c]
           pairs == IF r.pc \in DOMAIN News THEN About(r) ELSE {}
<1>1. /\ asking'[c] = Quiet /\ \A d \in FriendCalls \ {c} : asking'[d] = asking[d]
      /\ UNCHANGED <<rows, sees, line>> /\ overlapped' = {t \in overlapped : Busy(t)}
  BY QuietCall, OthersWait DEF CallFails, HInv, BondInv
<1>2. \A t \in Ties : astray'[t] = IF t \in pairs THEN t ELSE astray[t]
  BY DEF CallFails, Astray
<1>3. About(Quiet) = {}
  BY QuietCall, AboutByPc
<1>4. ASSUME NEW t \in Ties, t \notin overlapped'
      PROVE  Heard(t)'
  <2>1. Heard(t)
    BY <1>1, <1>4, HeardBefore
  <2>2. CASE t \in pairs
    <3>1. \A d \in FriendCalls \ {c} : t \notin About(asking'[d])
      BY <1>1, <2>1, <2>2 DEF Heard
    <3>2. InStep(t)'
      BY <1>2, <2>2 DEF InStep
    <3>3. QED
      BY <1>1, <1>3, <3>1, <3>2, AloneHeard
  <2>3. CASE t \notin pairs
    <3>1. \A d \in FriendCalls :
              \/ asking'[d] = asking[d]
              \/ /\ t \notin About(asking'[d])
                 /\ t \in About(asking[d]) => ~Telling(asking[d])
      BY <1>1, <1>3, <2>3 DEF Telling
    <3>2. astray'[t] = astray[t]
      BY <1>2, <2>3
    <3>3. QED
      BY <1>1, <2>1, <3>1, <3>2, Aside
  <2>4. QED
    BY <2>2, <2>3
<1>5. \A t \in Ties : t \in overlapped' => astray'[t] = t
  BY <1>1, <1>2 DEF HInv, Attuned
<1>6. QED
  BY <1>4, <1>5 DEF Attuned

(* Of who is not connected nothing is claimed. *)
LEMMA DisconnectHeard ==
    ASSUME HInv, NEW x \in Folk, Disconnect(x)
    PROVE  SeesTyped' /\ LineTyped' /\ Attuned'
<1>1. /\ UNCHANGED <<rows, sees, astray>> /\ overlapped' = {t \in overlapped : Busy(t)}
      /\ line' = [line EXCEPT ![x] = "off"]
      /\ \A d \in FriendCalls :
            \/ asking'[d] = asking[d]
            \/ asking'[d] = Quiet /\ asking[d].pc \in {"connect", "snapshot"}
  BY DEF Disconnect
<1>2. LineTyped' /\ \A z \in Folk : line'[z] = "open" => line[z] = "open"
  BY <1>1 DEF HInv, LineTyped
<1>3. SeesTyped'
  BY <1>1 DEF HInv, SeesTyped
<1>4. About(Quiet) = {}
  BY QuietCall, AboutByPc
<1>5. ASSUME NEW t \in Ties, t \notin overlapped'
      PROVE  Heard(t)'
  <2>1. Heard(t)
    BY <1>1, <1>5, HeardBefore
  <2>2. \A d \in FriendCalls :
            \/ asking'[d] = asking[d]
            \/ /\ t \notin About(asking'[d])
               /\ t \in About(asking[d]) => ~Telling(asking[d])
    BY <1>1, <1>4, NewsTold DEF Telling
  <2>3. QED
    BY <1>1, <1>2, <2>1, <2>2, TiesOfFolk, Aside
<1>6. \A t \in Ties : t \in overlapped' => astray'[t] = t
  BY <1>1 DEF HInv, Attuned
<1>7. QED
  BY <1>2, <1>3, <1>5, <1>6 DEF Attuned

LEMMA StopHeard ==
    ASSUME HInv, ServerStops
    PROVE  SeesTyped' /\ LineTyped' /\ Attuned'
<1>1. /\ overlapped' = {} /\ sees' = sees
      /\ \A d \in FriendCalls : asking'[d] = Quiet
      /\ line' = [x \in Folk |-> "off"]
  BY DEF ServerStops
<1>2. SeesTyped' /\ LineTyped'
  BY <1>1 DEF HInv, SeesTyped, LineTyped
<1>3. \A d \in FriendCalls, t \in Ties : ~(t \in About(asking[d]))'
  BY <1>1, QuietCall, AboutByPc
<1>4. \A t \in Ties : InStep(t)'
  BY <1>1, TiesOfFolk DEF InStep
<1>5. QED
  BY <1>1, <1>2, <1>3, <1>4 DEF Attuned, Heard

LEMMA HeardInductive == HInv /\ [FriendsNext]_friendsVars => HInv'
<1> SUFFICES ASSUME HInv, [FriendsNext]_friendsVars
             PROVE  SeesTyped' /\ LineTyped' /\ Attuned'
  BY BondInductive DEF HInv
<1>1. ASSUME NEW pairs, Crosses(pairs), \A t \in Ties \ overlapped' : Heard(t)'
      PROVE  Attuned'
  BY <1>1, CrossesTo DEF Attuned
<1>2. ASSUME NEW c \in FriendCalls, NEW x \in Folk, NEW y \in Folk,
             FriendRequest(c, x, y) \/ FriendAccept(c, x, y)
      PROVE  SeesTyped'
  <2>1. CASE UNCHANGED sees
    BY <2>1 DEF HInv, SeesTyped
  <2>2. CASE \E what \in {"friends", "asked"} : Answered(Tie(x, y), x, what)
    <3>1. PICK what \in {"friends", "asked"} : Answered(Tie(x, y), x, what)
      BY <2>2
    <3>2. Tie(x, y) \in Ties /\ x \in Tie(x, y) /\ what \in Views
      BY <1>2, TieInTies DEF FriendRequest, FriendAccept, Views
    <3>3. QED
      BY <3>1, <3>2, HearsTyped DEF Answered, HInv
  <2>3. QED
    BY <1>2, <2>1, <2>2 DEF FriendRequest, FriendAccept, SaysYes
<1>3. ASSUME NEW c \in FriendCalls, NEW x \in Folk, NEW y \in Folk,
             FriendRequest(c, x, y) \/ FriendAccept(c, x, y)
      PROVE  SeesTyped' /\ LineTyped' /\ Attuned'
  <2>1. \E pairs : Crosses(pairs)
    BY <1>3 DEF FriendRequest, FriendAccept, SaysYes, Answered, Proceeds
  <2>2. line' = line
    BY <1>3 DEF FriendRequest, FriendAccept, SaysYes, Answered
  <2>3. LineTyped'
    BY <2>2 DEF HInv, LineTyped
  <2>4. QED
    BY <1>1, <1>2, <1>3, <2>1, <2>3, RequestHeard
<1>4. ASSUME NEW c \in FriendCalls,
             \/ \E x, y \in Folk : RemoveFriend(c, x, y)
             \/ Reads(c) \/ CreateRow(c) \/ SaveRow(c)
      PROVE  SeesTyped' /\ LineTyped' /\ Attuned'
  <2>1. \E pairs : Crosses(pairs)
    BY <1>4 DEF RemoveFriend, Reads, ListRead, Connect, SnapshotRead, CreateRow, SaveRow,
                Proceeds
  <2>2. UNCHANGED sees
    BY <1>4 DEF RemoveFriend, Reads, ListRead, Connect, SnapshotRead, CreateRow, SaveRow
  <2>3. SeesTyped'
    BY <2>2 DEF HInv, SeesTyped
  <2>4. LineTyped'
    BY <1>4 DEF RemoveFriend, Reads, ListRead, Connect, SnapshotRead, CreateRow, SaveRow,
                HInv, LineTyped
  <2>5. \A t \in Ties \ overlapped' : Heard(t)'
    BY <1>4, RemoveHeard, ReadHeard, CreateHeard, SaveHeard
  <2>6. QED
    BY <1>1, <2>1, <2>3, <2>4, <2>5
<1>5. ASSUME NEW c \in FriendCalls, Tell(c)
      PROVE  SeesTyped' /\ LineTyped' /\ Attuned'
  <2>1. (\E pairs : Crosses(pairs)) /\ line' = line
    BY <1>5 DEF Tell, Proceeds
  <2>2. LineTyped'
    BY <2>1 DEF HInv, LineTyped
  <2>3. QED
    BY <1>1, <1>5, <2>1, <2>2, TellHeard
<1>6. ASSUME NEW c \in FriendCalls, CallFails(c)
      PROVE  SeesTyped' /\ LineTyped' /\ Attuned'
  <2>1. UNCHANGED <<sees, line>>
    BY <1>6 DEF CallFails
  <2>2. SeesTyped' /\ LineTyped'
    BY <2>1 DEF HInv, SeesTyped, LineTyped
  <2>3. QED
    BY <1>6, <2>2, FailHeard
<1>7. CASE UNCHANGED friendsVars
  <2>1. SeesTyped' /\ LineTyped'
    BY <1>7 DEF friendsVars, HInv, SeesTyped, LineTyped
  <2>2. ASSUME NEW t \in Ties, t \notin overlapped
        PROVE  Heard(t)'
    <3>1. Heard(t)
      BY <2>2 DEF HInv, Attuned
    <3>2. QED
      BY <1>7, <3>1, Aside DEF friendsVars
  <2>3. QED
    BY <1>7, <2>1, <2>2 DEF friendsVars, HInv, Attuned
<1>8. QED
  BY <1>3, <1>4, <1>5, <1>6, <1>7, ListHeard, DisconnectHeard, StopHeard
     DEF FriendsNext, Reads

LEMMA HeardStart == FriendsInit => HInv
<1> SUFFICES ASSUME FriendsInit PROVE SeesTyped /\ LineTyped /\ Attuned
  BY BondStart DEF HInv
<1>1. SeesTyped /\ LineTyped
  BY DEF FriendsInit, SeesTyped, LineTyped, Views
<1>2. \A c \in FriendCalls, t \in Ties : t \notin About(asking[c])
  BY QuietCall, AboutByPc DEF FriendsInit
<1>3. \A t \in Ties : InStep(t)
  BY TiesOfFolk DEF FriendsInit, InStep
<1>4. QED
  BY <1>1, <1>2, <1>3 DEF Heard, Attuned, FriendsInit

(* Who is connected is in step with the documents whenever no request about the
   pair is in flight: a snapshot makes up for the events that were lost while
   there was no socket, and who was misled by overlapping requests or by a
   failed one is right again after the next list or snapshot. *)
THEOREM FriendsStayInStep == FriendsSpec => []SeesTheRow
<1>1. HInv => SeesTheRow
  <2> SUFFICES ASSUME HInv, NEW t \in Ties, ~Busy(t)
               PROVE  InStep(t)
    BY DEF SeesTheRow, InStep
  <2> QED BY HeardBefore DEF Heard, Busy
<1>2. QED
  BY <1>1, HeardStart, HeardInductive, PTL DEF FriendsSpec

AboutKnown == \A c \in FriendCalls : About(asking[c]) \subseteq Ties

LEMMA AboutTies == BondInv => AboutKnown
<1> SUFFICES ASSUME BondInv, NEW c \in FriendCalls
             PROVE  About(asking[c]) \subseteq Ties
  BY DEF AboutKnown
<1>1. asking[c] \in Calls
  BY DEF BondInv, Typed
<1>2. CASE asking[c].pc \in {"create", "save", "tellAsked", "tellFriends", "tellRemoved"}
  BY <1>1, <1>2, PairByPc, AboutByPc
<1>3. CASE asking[c].pc \in {"idle", "connect", "list", "snapshot"}
  BY <1>1, <1>3, AboutByPc
<1>4. QED
  BY <1>1, <1>2, <1>3 DEF Calls, Quiet

LEMMA AboutTiesNext == BondInv' => AboutKnown'
BY AboutTies, PTL

\* Only pairs that some request is or was about are marked, and of a pair only
\* its two players.
Marked == overlapped \subseteq Ties /\ \A t \in Ties : astray[t] \subseteq t

LEMMA MarkedStep ==
    ASSUME BondInv, BondInv', [FriendsNext]_friendsVars, Marked
    PROVE  Marked'
<1>1. AboutKnown /\ AboutKnown'
  BY AboutTies, AboutTiesNext
<1>2. ASSUME NEW pairs, Crosses(pairs), pairs \subseteq Ties
      PROVE  Marked'
  BY <1>2 DEF Crosses, Astray, Marked
<1>3. ASSUME NEW c \in FriendCalls, NEW r, Proceeds(c, r)
      PROVE  Marked'
  <2>1. asking'[c] = r
    BY <1>3 DEF Proceeds, BondInv, Typed
  <2>2. Rivals(c, r) \subseteq Ties
    BY <1>1, <2>1 DEF Rivals, AboutKnown
  <2>3. QED
    BY <1>2, <1>3, <2>2 DEF Proceeds
<1>4. ASSUME NEW c \in FriendCalls, NEW x \in Folk, NEW y \in Folk,
             FriendRequest(c, x, y) \/ FriendAccept(c, x, y)
      PROVE  Marked'
  <2>1. CASE \E what : Answered(Tie(x, y), x, what)
    <3>1. {u \in {Tie(x, y)} : Busy(u)} \subseteq Ties
      BY <1>4, TieInTies DEF FriendRequest, FriendAccept
    <3>2. Crosses({u \in {Tie(x, y)} : Busy(u)})
      BY <2>1 DEF Answered
    <3>3. QED
      BY <1>2, <3>1, <3>2
  <2>2. CASE \E r : Proceeds(c, r)
    BY <1>3, <2>2
  <2>3. QED
    BY <1>4, <2>1, <2>2 DEF FriendRequest, FriendAccept, SaysYes
<1>5. ASSUME NEW c \in FriendCalls,
             \/ \E x, y \in Folk : RemoveFriend(c, x, y)
             \/ Reads(c) \/ CreateRow(c) \/ SaveRow(c) \/ Tell(c)
      PROVE  Marked'
  <2>1. \E r : Proceeds(c, r)
    BY <1>5 DEF RemoveFriend, Reads, ListRead, Connect, SnapshotRead, CreateRow, SaveRow, Tell
  <2>2. QED
    BY <1>3, <2>1
<1>6. ASSUME NEW c \in FriendCalls, ListAnswer(c) \/ CallFails(c)
      PROVE  Marked'
  BY <1>6 DEF ListAnswer, CallFails, Astray, Marked
<1>7. CASE (\E x \in Folk : Disconnect(x)) \/ ServerStops
  BY <1>7 DEF Disconnect, ServerStops, Marked
<1>8. CASE UNCHANGED friendsVars
  BY <1>8 DEF friendsVars, Marked
<1>9. QED
  BY <1>4, <1>5, <1>6, <1>7, <1>8 DEF FriendsNext, Reads

(* The documents, the requests in flight, the connections, what players hear and
   the histories keep their types: nobody but the two of a pair ever agrees to its
   document. *)
THEOREM FriendsAreTyped == FriendsSpec => []FriendsTypeOK
<1>1. FriendsInit => Marked
  BY DEF FriendsInit, Marked
<1>2. HInv /\ HInv' /\ Marked /\ [FriendsNext]_friendsVars => Marked'
  BY MarkedStep DEF HInv
<1>3. HInv /\ Marked => FriendsTypeOK
  BY DEF HInv, BondInv, Typed, AgreedOfPair, SeesTyped, LineTyped, Marked, FriendsTypeOK
<1>4. QED
  BY <1>1, <1>2, <1>3, HeardStart, HeardInductive, PTL DEF FriendsSpec

-----------------------------------------------------------------------------
(* The recent-players feed.  A capture owes a list a trim until the trim has  *)
(* found what to delete; from then on what the list holds beyond the cap is   *)
(* what that trim is about to delete, and edges that are deleted in the       *)
(* meantime are of no account.                                                *)

HasFound(r, o) == r.pc = "trim" /\ o \in DOMAIN r.trims /\ r.trims[o].found

OwesTrim(r, o) ==
    \/ r.pc = "upsert" /\ o \in r.owners
    \/ r.pc = "trim" /\ o \in DOMAIN r.trims /\ ~r.trims[o].found

Within(s) == Cardinality(s) <= RecentCap

CapInSight(o) ==
    \/ Within(List(o))
    \/ \E c \in CaptureSlots : /\ HasFound(capturing[c], o)
                               /\ Within(List(o) \ capturing[c].trims[o].stale)

\* Nobody about to be deleted was met later than somebody who stays.
OldestGo(o, stale) ==
    \A x \in List(o) \cap stale, y \in List(o) \ stale : met[o][x] <= met[o][y]

ListKept(o) ==
    /\ o \notin untrimmed /\ (\A c \in CaptureSlots : ~OwesTrim(capturing[c], o)) =>
          CapInSight(o)
    /\ o \notin remet => \A c \in CaptureSlots :
          HasFound(capturing[c], o) => OldestGo(o, capturing[c].trims[o].stale)

\* How far a capture is.
Shaped(r) ==
    \/ r.pc \in {"idle", "tags"}
    \/ /\ r.pc = "upsert"
       /\ r = [pc |-> "upsert", now |-> r.now, owners |-> r.owners,
               left |-> r.left, failed |-> r.failed]
       /\ \A e \in r.left : e[1] \in r.owners
    \/ /\ r.pc = "trim"
       /\ r = [pc |-> "trim", trims |-> r.trims]
       /\ r.trims = [o \in DOMAIN r.trims |-> r.trims[o]]
       /\ \A o \in DOMAIN r.trims :
             r.trims[o] = [found |-> r.trims[o].found, stale |-> r.trims[o].stale]

MetTyped == met = [o \in Gamers |-> [x \in Gamers |-> met[o][x]]]

RecentInv ==
    /\ MetTyped
    /\ capturing = [c \in CaptureSlots |-> capturing[c]]
    /\ \A c \in CaptureSlots : Shaped(capturing[c])
    /\ \A o \in Gamers : ListKept(o)

-----------------------------------------------------------------------------
LEMMA FewerWithin ==
    ASSUME NEW S, NEW T \in SUBSET Gamers, S \subseteq T, Within(T)
    PROVE  Within(S)
<1>1. IsFiniteSet(T)
  BY FS_Subset, RecentAssumption
<1>2. IsFiniteSet(S) /\ Cardinality(S) <= Cardinality(T)
  BY <1>1, FS_Subset
<1>3. Cardinality(S) \in Nat /\ Cardinality(T) \in Nat
  BY <1>1, <1>2, FS_CardinalityType
<1>4. QED
  BY <1>2, <1>3, RecentAssumption DEF Within

(* A step that at most deletes edges of a list, forgets them in the trims of
   the list, and drops a trim only when it did its work or failed. *)
LEMMA Shrinks ==
    ASSUME NEW o \in Gamers, ListKept(o), NEW gone,
           \A x \in Gamers : met'[o][x] = IF x \in gone THEN 0 ELSE met[o][x],
           \A d \in CaptureSlots : HasFound(capturing'[d], o) =>
               /\ HasFound(capturing[d], o)
               /\ capturing'[d].trims[o].stale = capturing[d].trims[o].stale \ gone,
           \A d \in CaptureSlots : HasFound(capturing[d], o) =>
               \/ HasFound(capturing'[d], o)
               \/ capturing[d].trims[o].stale \subseteq gone
               \/ o \in untrimmed',
           \A d \in CaptureSlots : OwesTrim(capturing[d], o) =>
               OwesTrim(capturing'[d], o) \/ o \in untrimmed',
           o \in untrimmed => o \in untrimmed', o \in remet => o \in remet'
    PROVE  ListKept(o)'
<1>1. List(o)' = List(o) \ gone /\ List(o) \subseteq Gamers
  BY DEF List
<1>2. ASSUME o \notin untrimmed', \A d \in CaptureSlots : ~OwesTrim(capturing'[d], o)
      PROVE  \/ Within(List(o)')
             \/ \E c \in CaptureSlots : /\ HasFound(capturing'[c], o)
                                        /\ Within(List(o)' \ capturing'[c].trims[o].stale)
  <2>1. CapInSight(o)
    BY <1>2 DEF ListKept
  <2>2. CASE Within(List(o))
    BY <1>1, <2>2, FewerWithin
  <2>3. CASE \E c \in CaptureSlots : /\ HasFound(capturing[c], o)
                                     /\ Within(List(o) \ capturing[c].trims[o].stale)
    <3>1. PICK c \in CaptureSlots : /\ HasFound(capturing[c], o)
                                    /\ Within(List(o) \ capturing[c].trims[o].stale)
      BY <2>3
    <3> DEFINE stale == capturing[c].trims[o].stale
    <3>2. List(o) \ stale \in SUBSET Gamers
      BY <1>1
    <3>3. CASE HasFound(capturing'[c], o)
      <4>1. capturing'[c].trims[o].stale = stale \ gone
        BY <3>3
      <4>2. List(o)' \ (stale \ gone) \subseteq List(o) \ stale
        BY <1>1
      <4>3. Within(List(o)' \ (stale \ gone))
        BY <3>1, <3>2, <4>2, FewerWithin
      <4>4. QED
        BY <3>3, <4>1, <4>3
    <3>4. CASE stale \subseteq gone
      <4>1. List(o)' \subseteq List(o) \ stale
        BY <1>1, <3>4
      <4>2. QED
        BY <3>1, <3>2, <4>1, FewerWithin
    <3>5. QED
      BY <1>2, <3>1, <3>3, <3>4
  <2>4. QED
    BY <2>1, <2>2, <2>3 DEF CapInSight
<1>3. ASSUME o \notin remet', NEW c \in CaptureSlots, HasFound(capturing'[c], o),
             NEW x \in List(o)' \cap capturing'[c].trims[o].stale,
             NEW y \in List(o)' \ capturing'[c].trims[o].stale
      PROVE  met'[o][x] <= met'[o][y]
  <2> DEFINE stale == capturing[c].trims[o].stale
  <2>1. HasFound(capturing[c], o) /\ capturing'[c].trims[o].stale = stale \ gone
    BY <1>3
  <2>2. OldestGo(o, stale)
    BY <1>3, <2>1 DEF ListKept
  <2>3. x \in List(o) \cap stale /\ y \in List(o) \ stale /\ x \notin gone /\ y \notin gone
    BY <1>1, <1>3, <2>1
  <2>4. met'[o][x] = met[o][x] /\ met'[o][y] = met[o][y]
    BY <1>1, <2>3
  <2>5. QED
    BY <2>2, <2>3, <2>4 DEF OldestGo
<1>4. (o \notin untrimmed /\ (\A c \in CaptureSlots : ~OwesTrim(capturing[c], o)) =>
          CapInSight(o))'
  BY <1>2 DEF CapInSight, HasFound, OwesTrim
<1>5. (o \notin remet => \A c \in CaptureSlots :
          HasFound(capturing[c], o) => OldestGo(o, capturing[c].trims[o].stale))'
  BY <1>3 DEF OldestGo, HasFound
<1>6. QED
  BY <1>4, <1>5 DEF ListKept

(* A capture goes on, and no edge is touched. *)
LEMMA MovesOn ==
    ASSUME RecentInv, NEW c \in CaptureSlots, NEW q, Shaped(q),
           capturing' = [capturing EXCEPT ![c] = q], UNCHANGED <<met, remet>>,
           untrimmed \subseteq untrimmed',
           \A o \in Gamers : HasFound(q, o) =>
               HasFound(capturing[c], o) /\ q.trims[o].stale = capturing[c].trims[o].stale,
           \A o \in Gamers : HasFound(capturing[c], o) => HasFound(q, o) \/ o \in untrimmed',
           \A o \in Gamers : OwesTrim(capturing[c], o) => OwesTrim(q, o) \/ o \in untrimmed'
    PROVE  RecentInv'
<1>1. /\ capturing'[c] = q /\ \A d \in CaptureSlots \ {c} : capturing'[d] = capturing[d]
      /\ capturing' = [d \in CaptureSlots |-> capturing'[d]]
  BY DEF RecentInv
<1>2. \A d \in CaptureSlots : Shaped(capturing'[d])
  BY <1>1 DEF RecentInv
<1>3. ASSUME NEW o \in Gamers
      PROVE  ListKept(o)'
  <2>1. ListKept(o)
    BY DEF RecentInv
  <2>2. \A x \in Gamers : met'[o][x] = IF x \in {} THEN 0 ELSE met[o][x]
    OBVIOUS
  <2>3. \A d \in CaptureSlots : HasFound(capturing'[d], o) =>
               /\ HasFound(capturing[d], o)
               /\ capturing'[d].trims[o].stale = capturing[d].trims[o].stale \ {}
    BY <1>1
  <2>4. \A d \in CaptureSlots :
            /\ HasFound(capturing[d], o) => HasFound(capturing'[d], o) \/ o \in untrimmed'
            /\ OwesTrim(capturing[d], o) => OwesTrim(capturing'[d], o) \/ o \in untrimmed'
    BY <1>1
  <2>5. QED
    BY <2>1, <2>2, <2>3, <2>4, Shrinks
<1>4. MetTyped'
  BY DEF RecentInv, MetTyped
<1>5. (\A d \in CaptureSlots : Shaped(capturing[d]))'
  BY <1>2
<1>6. QED
  BY <1>1, <1>3, <1>4, <1>5 DEF RecentInv

LEMMA CaptureMoves ==
    ASSUME RecentInv, NEW c \in CaptureSlots,
           (\E j \in Joins : CaptureJoin(c, j[1], j[2])) \/ TagsRead(c) \/ TagsFail(c)
    PROVE  RecentInv'
<1>1. CASE \E j \in Joins : CaptureJoin(c, j[1], j[2])
  <2>1. PICK j \in Joins : CaptureJoin(c, j[1], j[2])
    BY <1>1
  <2> DEFINE q == [pc |-> "tags", pairs |-> PairsForJoin(j[1], j[2])]
  <2>2. q.pc = "tags"
    OBVIOUS
  <2>3. /\ capturing[c].pc = "idle" /\ capturing' = [capturing EXCEPT ![c] = q]
        /\ UNCHANGED <<met, remet, untrimmed>>
    BY <2>1 DEF CaptureJoin, NoCapture
  <2> HIDE DEF q
  <2>4. QED
    BY <2>2, <2>3, MovesOn DEF Shaped, HasFound, OwesTrim
<1>2. CASE TagsRead(c)
  <2> DEFINE r == capturing[c]
             q == [pc |-> "upsert", now |-> joins, owners |-> Owners(r),
                   left |-> r.pairs, failed |-> FALSE]
  <2>1. /\ r.pc = "tags" /\ UNCHANGED <<met, remet, untrimmed>>
        /\ capturing' = [capturing EXCEPT ![c] = q]
    BY <1>2 DEF TagsRead, RecentInv
  <2>2. \A e \in r.pairs : e[1] \in Owners(r)
    BY <2>1 DEF Owners
  <2>3. Shaped(q) /\ q.pc = "upsert"
    BY <2>2 DEF Shaped
  <2> HIDE DEF q
  <2>4. QED
    BY <2>1, <2>3, MovesOn DEF HasFound, OwesTrim
<1>3. CASE TagsFail(c)
  <2>1. /\ capturing[c].pc = "tags" /\ capturing' = [capturing EXCEPT ![c] = NoCapture]
        /\ UNCHANGED <<met, remet, untrimmed>> /\ NoCapture.pc = "idle"
    BY <1>3 DEF TagsFail, NoCapture
  <2>2. QED
    BY <2>1, MovesOn DEF Shaped, HasFound, OwesTrim
<1>4. QED
  BY <1>1, <1>2, <1>3

(* After an upsert the capture still owes its lists their trims, or gave up. *)
LEMMA SettledOwes ==
    ASSUME NEW r, Shaped(r), r.pc = "upsert", NEW edge, NEW rejected \in BOOLEAN,
           NEW q, q = Settled(r, edge, rejected)
    PROVE  /\ Shaped(q)
           /\ \A o : ~HasFound(q, o)
           /\ q # NoCapture => \A o \in r.owners : OwesTrim(q, o)
<1> DEFINE left == r.left \ {edge}
           failed == r.failed \/ rejected
<1>1. /\ r = [pc |-> "upsert", now |-> r.now, owners |-> r.owners,
              left |-> r.left, failed |-> r.failed]
      /\ \A e \in r.left : e[1] \in r.owners
  BY DEF Shaped
<1>2. CASE left # {}
  <2>1. q = [r EXCEPT !.left = left, !.failed = failed]
    BY <1>2 DEF Settled
  <2>2. q = [pc |-> "upsert", now |-> r.now, owners |-> r.owners,
             left |-> left, failed |-> failed]
    BY <1>1, <2>1
  <2> HIDE DEF failed
  <2>3. /\ q.pc = "upsert" /\ q.owners = r.owners /\ q.left = left
        /\ q = [pc |-> "upsert", now |-> q.now, owners |-> q.owners,
                left |-> q.left, failed |-> q.failed]
    BY <2>2
  <2>4. Shaped(q)
    BY <1>1, <2>3 DEF Shaped
  <2>5. (\A o : ~HasFound(q, o)) /\ \A o \in r.owners : OwesTrim(q, o)
    BY <2>3 DEF HasFound, OwesTrim
  <2>6. QED
    BY <2>4, <2>5
<1>3. CASE left = {} /\ failed
  <2>1. q = NoCapture /\ NoCapture.pc = "idle"
    BY <1>3 DEF Settled, NoCapture
  <2>2. QED
    BY <2>1 DEF Shaped, HasFound
<1>4. CASE left = {} /\ ~failed
  <2> DEFINE trims == [o \in r.owners |-> Finding]
  <2>1. q = [pc |-> "trim", trims |-> trims]
    BY <1>4 DEF Settled, Owners
  <2>2. /\ DOMAIN trims = r.owners /\ \A o \in r.owners : trims[o] = Finding
        /\ trims = [o \in DOMAIN trims |-> trims[o]]
    OBVIOUS
  <2> HIDE DEF trims
  <2>3. q.pc = "trim" /\ q.trims = trims
    BY <2>1
  <2>4. Finding = [found |-> Finding.found, stale |-> Finding.stale] /\ ~Finding.found
    BY DEF Finding
  <2>5. Shaped(q)
    BY <2>1, <2>2, <2>3, <2>4 DEF Shaped
  <2>6. (\A o : ~HasFound(q, o)) /\ \A o \in r.owners : OwesTrim(q, o)
    BY <2>2, <2>3, <2>4 DEF HasFound, OwesTrim
  <2>7. QED
    BY <2>5, <2>6
<1>5. QED
  BY <1>2, <1>3, <1>4

(* An upsert of an edge: its list is owed a trim, or the capture failed. *)
LEMMA UpsertKeeps ==
    ASSUME RecentInv, NEW c \in CaptureSlots, NEW p \in Gamers, NEW z \in Gamers,
           Upsert(c, <<p, z>>)
    PROVE  RecentInv'
<1> DEFINE r == capturing[c]
           q == Settled(r, <<p, z>>, FALSE)
<1>1. /\ Shaped(r) /\ r.pc = "upsert" /\ <<p, z>> \in r.left
      /\ met' = [met EXCEPT ![p][z] = r.now]
      /\ remet' = IF InTrim(p) THEN remet \cup {p} ELSE remet
      /\ capturing' = [capturing EXCEPT ![c] = q]
      /\ untrimmed' = IF q = NoCapture THEN untrimmed \cup r.owners ELSE untrimmed
  BY DEF Upsert, RecentInv, Owners
<1>2. p \in r.owners
  <2>1. <<p, z>>[1] \in r.owners
    BY <1>1 DEF Shaped
  <2>2. QED
    BY <2>1
<1>3. /\ Shaped(q) /\ \A o : ~HasFound(q, o)
      /\ q # NoCapture => \A o \in r.owners : OwesTrim(q, o)
  BY <1>1, SettledOwes
<1> HIDE DEF q
<1>4. /\ capturing'[c] = q /\ \A d \in CaptureSlots \ {c} : capturing'[d] = capturing[d]
      /\ capturing' = [d \in CaptureSlots |-> capturing'[d]]
  BY <1>1 DEF RecentInv
<1>5. /\ met' = [o \in Gamers |-> [x \in Gamers |-> met'[o][x]]]
      /\ \A o \in Gamers \ {p} : met'[o] = met[o]
  <2>1. met' = [o \in Gamers |-> IF o = p THEN [met[p] EXCEPT ![z] = r.now] ELSE met[o]]
    BY <1>1 DEF RecentInv, MetTyped
  <2>2. \A o \in Gamers : met[o] = [x \in Gamers |-> met[o][x]]
    BY DEF RecentInv, MetTyped
  <2>3. \A o \in Gamers : met'[o] = [x \in Gamers |-> met'[o][x]]
    BY <2>1, <2>2
  <2>4. QED
    BY <2>1, <2>3
<1>6. \A o : ~HasFound(r, o)
  BY <1>1 DEF HasFound
<1>7. \A d \in CaptureSlots, o \in Gamers :
          OwesTrim(capturing[d], o) => OwesTrim(capturing'[d], o) \/ o \in untrimmed'
  <2>1. \A o \in Gamers : OwesTrim(r, o) => o \in r.owners
    BY <1>1 DEF OwesTrim
  <2>2. QED
    BY <1>1, <1>3, <1>4, <2>1
<1>8. ASSUME NEW o \in Gamers \ {p}
      PROVE  ListKept(o)'
  <2>1. ListKept(o)
    BY DEF RecentInv
  <2>2. \A x \in Gamers : met'[o][x] = IF x \in {} THEN 0 ELSE met[o][x]
    BY <1>5
  <2>3. \A d \in CaptureSlots : HasFound(capturing'[d], o) =>
               /\ HasFound(capturing[d], o)
               /\ capturing'[d].trims[o].stale = capturing[d].trims[o].stale \ {}
    BY <1>3, <1>4
  <2>4. \A d \in CaptureSlots : HasFound(capturing[d], o) => HasFound(capturing'[d], o)
    BY <1>4, <1>6
  <2>5. (o \in untrimmed => o \in untrimmed') /\ (o \in remet => o \in remet')
    BY <1>1
  <2>6. QED
    BY <1>7, <2>1, <2>2, <2>3, <2>4, <2>5, Shrinks
<1>9. ListKept(p)'
  <2>1. OwesTrim(capturing'[c], p) \/ p \in untrimmed'
    BY <1>1, <1>2, <1>3, <1>4
  <2>2. (p \notin untrimmed /\ (\A d \in CaptureSlots : ~OwesTrim(capturing[d], p)) =>
             CapInSight(p))'
    BY <2>1 DEF OwesTrim
  <2>3. p \notin remet' => \A d \in CaptureSlots : ~HasFound(capturing'[d], p)
    BY <1>1, <1>3, <1>4 DEF InTrim, HasFound
  <2>4. (p \notin remet => \A d \in CaptureSlots :
             HasFound(capturing[d], p) => OldestGo(p, capturing[d].trims[p].stale))'
    BY <2>3 DEF HasFound
  <2>5. QED
    BY <2>2, <2>4 DEF ListKept
<1>10. \A d \in CaptureSlots : Shaped(capturing'[d])
  BY <1>3, <1>4 DEF RecentInv
<1>11. QED
  BY <1>4, <1>5, <1>8, <1>9, <1>10 DEF RecentInv, MetTyped, Shaped

LEMMA UpsertFailsKeeps ==
    ASSUME RecentInv, NEW c \in CaptureSlots, NEW edge, UpsertFails(c, edge)
    PROVE  RecentInv'
<1> DEFINE r == capturing[c]
           q == Settled(r, edge, TRUE)
<1>1. /\ Shaped(r) /\ r.pc = "upsert" /\ UNCHANGED <<met, remet>>
      /\ capturing' = [capturing EXCEPT ![c] = q]
      /\ untrimmed' = IF q = NoCapture THEN untrimmed \cup r.owners ELSE untrimmed
  BY DEF UpsertFails, RecentInv, Owners
<1>2. /\ Shaped(q) /\ \A o : ~HasFound(q, o)
      /\ q # NoCapture => \A o \in r.owners : OwesTrim(q, o)
  BY <1>1, SettledOwes
<1> HIDE DEF q
<1>3. \A o \in Gamers : ~HasFound(r, o) /\ (OwesTrim(r, o) => o \in r.owners)
  BY <1>1 DEF HasFound, OwesTrim
<1>4. QED
  BY <1>1, <1>2, <1>3, MovesOn

(* A trim that ends leaves the capture's others as they are. *)
LEMMA TrimmedRest ==
    ASSUME NEW r, Shaped(r), r.pc = "trim", NEW o \in DOMAIN r.trims,
           NEW q, q = Trimmed(r, o)
    PROVE  /\ Shaped(q) /\ ~HasFound(q, o) /\ ~OwesTrim(q, o)
           /\ \A p : p # o =>
                 /\ HasFound(q, p) <=> HasFound(r, p)
                 /\ OwesTrim(q, p) <=> OwesTrim(r, p)
                 /\ HasFound(q, p) => q.trims[p] = r.trims[p]
<1>1. /\ r = [pc |-> "trim", trims |-> r.trims]
      /\ \A p \in DOMAIN r.trims :
             r.trims[p] = [found |-> r.trims[p].found, stale |-> r.trims[p].stale]
  BY DEF Shaped
<1>2. CASE DOMAIN r.trims = {o}
  <2>1. q.pc = "idle"
    BY <1>2 DEF Trimmed, NoCapture
  <2>2. QED
    BY <1>2, <2>1 DEF Shaped, HasFound, OwesTrim
<1>3. CASE DOMAIN r.trims # {o}
  <2> DEFINE rest == [p \in DOMAIN r.trims \ {o} |-> r.trims[p]]
  <2>1. q = [r EXCEPT !.trims = rest]
    BY <1>3 DEF Trimmed
  <2>2. /\ DOMAIN rest = DOMAIN r.trims \ {o}
        /\ \A p \in DOMAIN rest : rest[p] = r.trims[p]
        /\ rest = [p \in DOMAIN rest |-> rest[p]]
    OBVIOUS
  <2> HIDE DEF rest
  <2>3. q = [pc |-> "trim", trims |-> rest]
    BY <1>1, <2>1
  <2>4. q.pc = "trim" /\ q.trims = rest /\ q = [pc |-> "trim", trims |-> q.trims]
    BY <2>3
  <2>5. Shaped(q)
    BY <1>1, <2>2, <2>4 DEF Shaped
  <2>6. QED
    BY <2>2, <2>4, <2>5 DEF HasFound, OwesTrim
<1>4. QED
  BY <1>2, <1>3

LEMMA TrimFailsKeeps ==
    ASSUME RecentInv, NEW c \in CaptureSlots, NEW o \in Gamers, TrimFails(c, o)
    PROVE  RecentInv'
<1> DEFINE r == capturing[c]
           q == Trimmed(r, o)
<1>1. /\ Shaped(r) /\ r.pc = "trim" /\ o \in DOMAIN r.trims /\ UNCHANGED <<met, remet>>
      /\ capturing' = [capturing EXCEPT ![c] = q] /\ untrimmed' = untrimmed \cup {o}
  BY DEF TrimFails, RecentInv
<1>2. /\ Shaped(q) /\ ~HasFound(q, o) /\ ~OwesTrim(q, o)
      /\ \A p : p # o =>
             /\ HasFound(q, p) <=> HasFound(r, p)
             /\ OwesTrim(q, p) <=> OwesTrim(r, p)
             /\ HasFound(q, p) => q.trims[p] = r.trims[p]
  BY <1>1, TrimmedRest
<1> HIDE DEF q
<1>3. QED
  BY <1>1, <1>2, MovesOn

(* The record of a trim, written anew. *)
LEMMA Rewritten ==
    ASSUME NEW r, Shaped(r), r.pc = "trim", NEW o \in DOMAIN r.trims, NEW found, NEW stale,
           NEW q, q = [r EXCEPT !.trims = [r.trims EXCEPT ![o] = [found |-> found, stale |-> stale]]]
    PROVE  /\ Shaped(q) /\ q.pc = "trim" /\ DOMAIN q.trims = DOMAIN r.trims
           /\ q.trims[o].found = found /\ q.trims[o].stale = stale
           /\ \A p \in DOMAIN r.trims : p # o => q.trims[p] = r.trims[p]
<1> DEFINE new == [found |-> found, stale |-> stale]
           ts == [r.trims EXCEPT ![o] = new]
<1>1. /\ r = [pc |-> "trim", trims |-> r.trims] /\ r.trims = [p \in DOMAIN r.trims |-> r.trims[p]]
      /\ \A p \in DOMAIN r.trims :
             r.trims[p] = [found |-> r.trims[p].found, stale |-> r.trims[p].stale]
  BY DEF Shaped
<1>2. /\ DOMAIN ts = DOMAIN r.trims /\ ts[o] = new
      /\ \A p \in DOMAIN r.trims : p # o => ts[p] = r.trims[p]
      /\ ts = [p \in DOMAIN ts |-> ts[p]]
  OBVIOUS
<1>3. new.found = found /\ new.stale = stale /\ new = [found |-> new.found, stale |-> new.stale]
  OBVIOUS
<1> HIDE DEF new, ts
<1>4. q = [r EXCEPT !.trims = ts]
  BY DEF ts, new
<1>5. q = [pc |-> "trim", trims |-> ts]
  BY <1>1, <1>4
<1>6. q.pc = "trim" /\ q.trims = ts
  BY <1>5
<1>7. Shaped(q)
  BY <1>1, <1>2, <1>3, <1>5, <1>6 DEF Shaped
<1>8. QED
  BY <1>2, <1>3, <1>6, <1>7

(* The query of a trim finds what is beyond the cap, the oldest. *)
LEMMA TrimFindKeeps ==
    ASSUME RecentInv, NEW c \in CaptureSlots, NEW o \in Gamers, TrimFind(c, o)
    PROVE  RecentInv'
<1> DEFINE r == capturing[c]
<1>1. PICK stale \in SUBSET List(o) :
          /\ Beyond(o, stale)
          /\ capturing' = [capturing EXCEPT ![c].trims[o] = [found |-> TRUE, stale |-> stale]]
  BY DEF TrimFind
<1> DEFINE q == [r EXCEPT !.trims = [r.trims EXCEPT ![o] = [found |-> TRUE, stale |-> stale]]]
<1>2. /\ Shaped(r) /\ r.pc = "trim" /\ o \in DOMAIN r.trims /\ ~r.trims[o].found
      /\ UNCHANGED <<met, remet>> /\ untrimmed' = untrimmed \ {o}
  BY DEF TrimFind, RecentInv
<1>3. capturing' = [capturing EXCEPT ![c] = q]
  BY <1>1
<1>4. /\ Shaped(q) /\ q.pc = "trim" /\ DOMAIN q.trims = DOMAIN r.trims
      /\ q.trims[o].found /\ q.trims[o].stale = stale
      /\ \A p \in DOMAIN r.trims : p # o => q.trims[p] = r.trims[p]
  BY <1>2, Rewritten
<1> HIDE DEF q
<1>9. /\ HasFound(q, o) /\ q.trims[o].stale = stale /\ ~OwesTrim(q, o)
      /\ \A p : p # o =>
             /\ HasFound(q, p) <=> HasFound(r, p)
             /\ OwesTrim(q, p) <=> OwesTrim(r, p)
             /\ HasFound(q, p) => q.trims[p] = r.trims[p]
  BY <1>2, <1>4 DEF HasFound, OwesTrim
<1>10. /\ capturing'[c] = q /\ \A d \in CaptureSlots \ {c} : capturing'[d] = capturing[d]
       /\ capturing' = [d \in CaptureSlots |-> capturing'[d]]
  BY <1>3 DEF RecentInv
<1>11. ASSUME NEW p \in Gamers \ {o}
       PROVE  ListKept(p)'
  <2>1. ListKept(p) /\ \A x \in Gamers : met'[p][x] = IF x \in {} THEN 0 ELSE met[p][x]
    BY <1>2 DEF RecentInv
  <2>2. \A d \in CaptureSlots :
            /\ HasFound(capturing'[d], p) =>
                  /\ HasFound(capturing[d], p)
                  /\ capturing'[d].trims[p].stale = capturing[d].trims[p].stale \ {}
            /\ HasFound(capturing[d], p) => HasFound(capturing'[d], p)
            /\ OwesTrim(capturing[d], p) => OwesTrim(capturing'[d], p)
    BY <1>9, <1>10
  <2>3. (p \in untrimmed => p \in untrimmed') /\ (p \in remet => p \in remet')
    BY <1>2
  <2>4. QED
    BY <2>1, <2>2, <2>3, Shrinks
<1>12. ListKept(o)'
  <2>1. List(o)' = List(o) /\ met' = met
    BY <1>2 DEF List
  <2>2. Within(List(o) \ stale)
    <3>1. IsFiniteSet(List(o))
      <4>1. List(o) \subseteq Gamers
        BY DEF List
      <4>2. QED
        BY <4>1, RecentAssumption, FS_Subset
    <3>2. Cardinality(List(o)) \in Nat
      BY <3>1, FS_CardinalityType
    <3>3. QED
      BY <1>1, <3>2, RecentAssumption DEF Beyond, Within
  <2>3. HasFound(capturing'[c], o) /\ Within(List(o)' \ capturing'[c].trims[o].stale)
    BY <1>9, <1>10, <2>1, <2>2
  <2>4. (o \notin untrimmed /\ (\A d \in CaptureSlots : ~OwesTrim(capturing[d], o)) =>
             CapInSight(o))'
    BY <2>3 DEF CapInSight, HasFound
  <2>5. ASSUME o \notin remet', NEW d \in CaptureSlots, HasFound(capturing'[d], o),
               NEW x \in List(o)' \cap capturing'[d].trims[o].stale,
               NEW y \in List(o)' \ capturing'[d].trims[o].stale
        PROVE  met'[o][x] <= met'[o][y]
    <3>1. CASE d = c
      BY <1>1, <1>9, <1>10, <2>1, <2>5, <3>1 DEF Beyond
    <3>2. CASE d # c
      BY <1>2, <1>10, <2>1, <2>5, <3>2 DEF RecentInv, ListKept, OldestGo
    <3>3. QED
      BY <3>1, <3>2
  <2>6. (o \notin remet => \A d \in CaptureSlots :
             HasFound(capturing[d], o) => OldestGo(o, capturing[d].trims[o].stale))'
    BY <2>5 DEF OldestGo, HasFound
  <2>7. QED
    BY <2>4, <2>6 DEF ListKept
<1>13. \A d \in CaptureSlots : Shaped(capturing'[d])
  BY <1>4, <1>10 DEF RecentInv
<1>14. MetTyped'
  BY <1>2 DEF RecentInv, MetTyped
<1>15. \A d \in CaptureSlots : Shaped(capturing[d])'
  BY <1>13 DEF Shaped
<1>16. \A p \in Gamers : ListKept(p)'
  BY <1>11, <1>12
<1>17. QED
  BY <1>10, <1>14, <1>15, <1>16 DEF RecentInv

LEMMA StaleAnew ==
    ASSUME NEW t, t = [found |-> t.found, stale |-> t.stale], NEW stale
    PROVE  [t EXCEPT !.stale = stale] = [found |-> t.found, stale |-> stale]
OBVIOUS

(* Edges that are deleted are forgotten in the trims of their list. *)
LEMMA Forgot ==
    ASSUME RecentInv, NEW o \in Gamers, NEW gone, NEW f, f = Forgetting(o, gone)
    PROVE  /\ f = [c \in CaptureSlots |-> f[c]]
           /\ \A c \in CaptureSlots :
                 /\ Shaped(f[c])
                 /\ \A p : /\ HasFound(f[c], p) <=> HasFound(capturing[c], p)
                           /\ OwesTrim(f[c], p) <=> OwesTrim(capturing[c], p)
                           /\ HasFound(f[c], p) => f[c].trims[p].stale =
                                  IF p = o THEN capturing[c].trims[p].stale \ gone
                                  ELSE capturing[c].trims[p].stale
<1>1. f = [c \in CaptureSlots |-> f[c]]
  BY DEF Forgetting
<1>2. ASSUME NEW c \in CaptureSlots
      PROVE  /\ Shaped(f[c])
             /\ \A p : /\ HasFound(f[c], p) <=> HasFound(capturing[c], p)
                       /\ OwesTrim(f[c], p) <=> OwesTrim(capturing[c], p)
                       /\ HasFound(f[c], p) => f[c].trims[p].stale =
                              IF p = o THEN capturing[c].trims[p].stale \ gone
                              ELSE capturing[c].trims[p].stale
  <2>1. Shaped(capturing[c])
    BY DEF RecentInv
  <2>2. CASE capturing[c].pc = "trim" /\ o \in DOMAIN capturing[c].trims
    <3> DEFINE r == capturing[c]
               t == r.trims[o]
               q == f[c]
    <3>1. t = [found |-> t.found, stale |-> t.stale]
      BY <2>1, <2>2 DEF Shaped
    <3>2. [t EXCEPT !.stale = t.stale \ gone] = [found |-> t.found, stale |-> t.stale \ gone]
      <4> HIDE DEF t
      <4>1. QED
        BY <3>1, StaleAnew
    <3>3. q = [r EXCEPT !.trims = [r.trims EXCEPT ![o] = [t EXCEPT !.stale = t.stale \ gone]]]
      BY <2>2 DEF Forgetting
    <3>4. q = [r EXCEPT !.trims = [r.trims EXCEPT ![o] =
                                       [found |-> t.found, stale |-> t.stale \ gone]]]
      BY <3>2, <3>3
    <3>5. /\ Shaped(q) /\ q.pc = "trim" /\ DOMAIN q.trims = DOMAIN r.trims
          /\ q.trims[o].found = t.found /\ q.trims[o].stale = t.stale \ gone
          /\ \A p \in DOMAIN r.trims : p # o => q.trims[p] = r.trims[p]
      BY <2>1, <2>2, <3>4, Rewritten
    <3> HIDE DEF q
    <3>6. ASSUME NEW p
          PROVE  /\ HasFound(q, p) <=> HasFound(r, p)
                 /\ OwesTrim(q, p) <=> OwesTrim(r, p)
                 /\ HasFound(q, p) => q.trims[p].stale =
                        IF p = o THEN r.trims[p].stale \ gone ELSE r.trims[p].stale
      <4>1. CASE p = o
        BY <2>2, <3>5, <4>1 DEF HasFound, OwesTrim
      <4>2. CASE p # o
        BY <2>2, <3>5, <4>2 DEF HasFound, OwesTrim
      <4>3. QED
        BY <4>1, <4>2
    <3>7. QED
      BY <3>5, <3>6 DEF q
  <2>3. CASE ~(capturing[c].pc = "trim" /\ o \in DOMAIN capturing[c].trims)
    <3>1. f[c] = capturing[c] /\ ~HasFound(capturing[c], o)
      BY <2>3 DEF Forgetting, HasFound
    <3>2. QED
      BY <2>1, <3>1
  <2>4. QED
    BY <2>2, <2>3
<1>3. QED
  BY <1>1, <1>2

\* A capture after the trim of `o` deleted what it had found.
DoneWith(q, r, o, gone) ==
    /\ HasFound(r, o) /\ r.trims[o].stale \subseteq gone
    /\ Shaped(q) /\ ~HasFound(q, o)
    /\ \A p : p # o =>
          /\ HasFound(q, p) <=> HasFound(r, p)
          /\ OwesTrim(q, p) <=> OwesTrim(r, p)
          /\ HasFound(q, p) => q.trims[p] = r.trims[p]

(* Edges go; a trim may be done with them. *)
LEMMA GoneKeeps ==
    ASSUME RecentInv, NEW o \in Gamers, NEW gone, NEW f, f = Forgetting(o, gone),
           \A p \in Gamers, x \in Gamers :
               met'[p][x] = IF p = o /\ x \in gone THEN 0 ELSE met[p][x],
           MetTyped', UNCHANGED <<untrimmed, remet>>,
           capturing' = [d \in CaptureSlots |-> capturing'[d]],
           \A d \in CaptureSlots :
               \/ capturing'[d] = f[d]
               \/ DoneWith(capturing'[d], capturing[d], o, gone)
    PROVE  RecentInv'
<1>1. \A d \in CaptureSlots :
          /\ Shaped(f[d])
          /\ \A p : /\ HasFound(f[d], p) <=> HasFound(capturing[d], p)
                    /\ OwesTrim(f[d], p) <=> OwesTrim(capturing[d], p)
                    /\ HasFound(f[d], p) => f[d].trims[p].stale =
                           IF p = o THEN capturing[d].trims[p].stale \ gone
                           ELSE capturing[d].trims[p].stale
  BY Forgot, SMTT(30)
<1>2. \A d \in CaptureSlots : Shaped(capturing'[d])
  BY <1>1 DEF DoneWith
<1>3. \A d \in CaptureSlots : HasFound(capturing[d], o) => ~OwesTrim(capturing[d], o)
  BY DEF HasFound, OwesTrim
<1>4. ListKept(o)'
  <2>1. ListKept(o) /\ \A x \in Gamers : met'[o][x] = IF x \in gone THEN 0 ELSE met[o][x]
    BY DEF RecentInv
  <2>2. \A d \in CaptureSlots :
            /\ HasFound(capturing'[d], o) =>
                  /\ HasFound(capturing[d], o)
                  /\ capturing'[d].trims[o].stale = capturing[d].trims[o].stale \ gone
            /\ HasFound(capturing[d], o) =>
                  HasFound(capturing'[d], o) \/ capturing[d].trims[o].stale \subseteq gone
            /\ OwesTrim(capturing[d], o) => OwesTrim(capturing'[d], o)
    BY <1>1, <1>3 DEF DoneWith
  <2>3. QED
    BY <2>1, <2>2, Shrinks
<1>5. ASSUME NEW p \in Gamers \ {o}
      PROVE  ListKept(p)'
  <2>1. ListKept(p) /\ \A x \in Gamers : met'[p][x] = IF x \in {} THEN 0 ELSE met[p][x]
    BY DEF RecentInv
  <2>2. \A d \in CaptureSlots :
            /\ HasFound(capturing'[d], p) =>
                  /\ HasFound(capturing[d], p)
                  /\ capturing'[d].trims[p].stale = capturing[d].trims[p].stale \ {}
            /\ HasFound(capturing[d], p) => HasFound(capturing'[d], p)
            /\ OwesTrim(capturing[d], p) => OwesTrim(capturing'[d], p)
    <3> SUFFICES ASSUME NEW d \in CaptureSlots
                 PROVE  /\ HasFound(capturing'[d], p) =>
                              /\ HasFound(capturing[d], p)
                              /\ capturing'[d].trims[p].stale = capturing[d].trims[p].stale
                        /\ HasFound(capturing[d], p) => HasFound(capturing'[d], p)
                        /\ OwesTrim(capturing[d], p) => OwesTrim(capturing'[d], p)
      OBVIOUS
    <3>1. CASE capturing'[d] = f[d]
      <4>1. /\ HasFound(f[d], p) <=> HasFound(capturing[d], p)
            /\ OwesTrim(f[d], p) <=> OwesTrim(capturing[d], p)
            /\ HasFound(f[d], p) => f[d].trims[p].stale = capturing[d].trims[p].stale
        BY <1>1
      <4>2. QED
        BY <3>1, <4>1
    <3>2. CASE DoneWith(capturing'[d], capturing[d], o, gone)
      BY <3>2 DEF DoneWith
    <3>3. QED
      BY <3>1, <3>2
  <2>3. QED
    BY <2>1, <2>2, Shrinks
<1>6. \A p \in Gamers : ListKept(p)'
  BY <1>4, <1>5
<1>7. \A d \in CaptureSlots : Shaped(capturing[d])'
  BY <1>2 DEF Shaped
<1>8. QED
  BY <1>6, <1>7 DEF RecentInv

LEMMA TrimDeleteKeeps ==
    ASSUME RecentInv, NEW c \in CaptureSlots, NEW o \in Gamers, TrimDelete(c, o)
    PROVE  RecentInv'
<1> DEFINE r == capturing[c]
           gone == r.trims[o].stale
           q == Trimmed(r, o)
           f == Forgetting(o, gone)
<1>1. /\ Shaped(r) /\ r.pc = "trim" /\ o \in DOMAIN r.trims /\ HasFound(r, o)
      /\ met' = [met EXCEPT ![o] = [x \in Gamers |-> IF x \in gone THEN 0 ELSE met[o][x]]]
      /\ capturing' = [f EXCEPT ![c] = q] /\ UNCHANGED <<untrimmed, remet>>
  BY DEF TrimDelete, RecentInv, HasFound
<1>2. /\ Shaped(q) /\ ~HasFound(q, o)
      /\ \A p : p # o =>
             /\ HasFound(q, p) <=> HasFound(r, p)
             /\ OwesTrim(q, p) <=> OwesTrim(r, p)
             /\ HasFound(q, p) => q.trims[p] = r.trims[p]
  BY <1>1, TrimmedRest
<1>3. f = [d \in CaptureSlots |-> f[d]]
  BY Forgot
<1> HIDE DEF q, f, gone
<1>4. /\ capturing'[c] = q /\ \A d \in CaptureSlots \ {c} : capturing'[d] = f[d]
      /\ capturing' = [d \in CaptureSlots |-> capturing'[d]]
  BY <1>1, <1>3
<1> DEFINE list == [x \in Gamers |-> IF x \in gone THEN 0 ELSE met[o][x]]
<1>5. \A p \in Gamers : met'[p] = IF p = o THEN list ELSE met[p]
  BY <1>1 DEF RecentInv, MetTyped
<1>6. \A p \in Gamers : met[p] = [x \in Gamers |-> met[p][x]]
  BY DEF RecentInv, MetTyped
<1>7. \A p \in Gamers, x \in Gamers :
          met'[p][x] = IF p = o /\ x \in gone THEN 0 ELSE met[p][x]
  BY <1>5
<1>8. MetTyped'
  <2>1. met' = [p \in Gamers |-> IF p = o THEN list ELSE met[p]]
    BY <1>1 DEF RecentInv, MetTyped
  <2>2. \A p \in Gamers : met'[p] = [x \in Gamers |-> met'[p][x]]
    BY <1>5, <1>6
  <2>3. QED
    BY <2>1, <2>2 DEF MetTyped
<1>9. r.trims[o].stale \subseteq gone
  BY DEF gone
<1>10. f = Forgetting(o, gone)
  BY DEF f
<1>11. DoneWith(capturing'[c], r, o, gone)
  BY <1>1, <1>2, <1>4, <1>9 DEF DoneWith
<1> HIDE DEF list
<1>12. QED
  BY <1>1, <1>4, <1>7, <1>8, <1>10, <1>11, GoneKeeps

LEMMA RemoveKeeps ==
    ASSUME RecentInv, NEW o \in Gamers,
           (\E x \in Gamers : RemoveRecent(o, x)) \/ ClearRecent(o)
    PROVE  RecentInv'
<1>1. PICK gone :
          /\ met' = [met EXCEPT ![o] = [x \in Gamers |-> IF x \in gone THEN 0 ELSE met[o][x]]]
          /\ capturing' = Forgetting(o, gone) /\ UNCHANGED <<untrimmed, remet>>
  <2>1. CASE \E x \in Gamers : RemoveRecent(o, x)
    <3>1. PICK z \in Gamers : RemoveRecent(o, z)
      BY <2>1
    <3>2. met[o] = [x \in Gamers |-> met[o][x]]
      BY DEF RecentInv, MetTyped
    <3>3. [met[o] EXCEPT ![z] = 0] = [x \in Gamers |-> IF x \in {z} THEN 0 ELSE met[o][x]]
      BY <3>2
    <3>4. met' = [met EXCEPT ![o] = [met[o] EXCEPT ![z] = 0]]
      BY <3>1 DEF RemoveRecent
    <3>5. met' = [met EXCEPT ![o] = [x \in Gamers |-> IF x \in {z} THEN 0 ELSE met[o][x]]]
      BY <3>3, <3>4
    <3>6. capturing' = Forgetting(o, {z}) /\ UNCHANGED <<untrimmed, remet>>
      BY <3>1 DEF RemoveRecent
    <3>7. QED
      BY <3>5, <3>6
  <2>2. CASE ClearRecent(o)
    <3>1. [x \in Gamers |-> 0] = [x \in Gamers |-> IF x \in Gamers THEN 0 ELSE met[o][x]]
      OBVIOUS
    <3>2. met' = [met EXCEPT ![o] = [x \in Gamers |-> 0]]
      BY <2>2 DEF ClearRecent
    <3>3. met' = [met EXCEPT ![o] = [x \in Gamers |-> IF x \in Gamers THEN 0 ELSE met[o][x]]]
      BY <3>1, <3>2
    <3>4. capturing' = Forgetting(o, Gamers) /\ UNCHANGED <<untrimmed, remet>>
      BY <2>2 DEF ClearRecent
    <3>5. QED
      BY <3>3, <3>4
  <2>3. QED
    BY <2>1, <2>2
<1> DEFINE list == [x \in Gamers |-> IF x \in gone THEN 0 ELSE met[o][x]]
<1>2. \A p \in Gamers : met'[p] = IF p = o THEN list ELSE met[p]
  BY <1>1 DEF RecentInv, MetTyped
<1>3. \A p \in Gamers : met[p] = [x \in Gamers |-> met[p][x]]
  BY DEF RecentInv, MetTyped
<1>4. \A p \in Gamers, x \in Gamers :
          met'[p][x] = IF p = o /\ x \in gone THEN 0 ELSE met[p][x]
  BY <1>2
<1>5. MetTyped'
  <2>1. met' = [p \in Gamers |-> IF p = o THEN list ELSE met[p]]
    BY <1>1 DEF RecentInv, MetTyped
  <2>2. \A p \in Gamers : met'[p] = [x \in Gamers |-> met'[p][x]]
    BY <1>2, <1>3
  <2>3. QED
    BY <2>1, <2>2 DEF MetTyped
<1>6. capturing' = [d \in CaptureSlots |-> capturing'[d]]
  BY <1>1 DEF Forgetting
<1>7. QED
  BY <1>1, <1>4, <1>5, <1>6, GoneKeeps

LEMMA RecentInductive == RecentInv /\ [RecentNext]_recentVars => RecentInv'
<1> SUFFICES ASSUME RecentInv, [RecentNext]_recentVars
             PROVE  RecentInv'
  OBVIOUS
<1>1. ASSUME NEW c \in CaptureSlots,
             \/ \E j \in Joins : CaptureJoin(c, j[1], j[2])
             \/ TagsRead(c) \/ TagsFail(c)
             \/ \E o, x \in Gamers : Upsert(c, <<o, x>>) \/ UpsertFails(c, <<o, x>>)
             \/ \E o \in Gamers : TrimFind(c, o) \/ TrimDelete(c, o) \/ TrimFails(c, o)
      PROVE  RecentInv'
  BY <1>1, CaptureMoves, UpsertKeeps, UpsertFailsKeeps, TrimFindKeeps, TrimDeleteKeeps,
     TrimFailsKeeps
<1>2. ASSUME NEW o \in Gamers, (\E x \in Gamers : RemoveRecent(o, x)) \/ ClearRecent(o)
      PROVE  RecentInv'
  BY <1>2, RemoveKeeps
<1>3. CASE UNCHANGED recentVars
  <2>1. MetTyped'
    BY <1>3 DEF recentVars, RecentInv, MetTyped
  <2>2. /\ capturing' = [c \in CaptureSlots |-> capturing'[c]]
        /\ \A c \in CaptureSlots : Shaped(capturing'[c])
    BY <1>3 DEF recentVars, RecentInv
  <2>3. \A o \in Gamers : ListKept(o)'
    BY <1>3 DEF recentVars, RecentInv, ListKept, CapInSight, OldestGo, List
  <2>4. QED
    BY <2>1, <2>2, <2>3 DEF RecentInv
<1> QED BY <1>1, <1>2, <1>3 DEF RecentNext

LEMMA RecentStart == RecentInit => RecentInv
<1> SUFFICES ASSUME RecentInit PROVE RecentInv
  OBVIOUS
<1>1. NoCapture.pc = "idle"
  BY DEF NoCapture
<1>2. \A c \in CaptureSlots : capturing[c] = NoCapture
  BY DEF RecentInit
<1>3. \A c \in CaptureSlots : Shaped(capturing[c]) /\ \A o : ~HasFound(capturing[c], o)
  BY <1>1, <1>2 DEF Shaped, HasFound
<1>4. \A o \in Gamers : List(o) = {}
  BY DEF RecentInit, List
<1>5. Within({})
  BY FS_EmptySet, RecentAssumption DEF Within
<1>6. MetTyped /\ capturing = [c \in CaptureSlots |-> capturing[c]]
  BY DEF RecentInit, MetTyped
<1>7. \A o \in Gamers : ListKept(o)
  BY <1>3, <1>4, <1>5 DEF ListKept, CapInSight
<1>8. \A c \in CaptureSlots : Shaped(capturing[c])
  BY <1>3
<1>9. QED
  BY <1>6, <1>7, <1>8 DEF RecentInv

(* However captures overlap, a list whose captures are over, the last of them
   without a failure, holds no more than the cap. *)
THEOREM ListsAreCapped == RecentSpec => []RecentCapped
<1>1. RecentInv => RecentCapped
  <2> SUFFICES ASSUME RecentInv, NEW o \in Gamers \ untrimmed, ~TrimPending(o)
               PROVE  Cardinality(List(o)) <= RecentCap
    BY DEF RecentCapped
  <2>1. \A c \in CaptureSlots : ~OwesTrim(capturing[c], o) /\ ~HasFound(capturing[c], o)
    BY DEF TrimPending, Owners, OwesTrim, HasFound
  <2>2. ListKept(o)
    BY DEF RecentInv
  <2>3. QED
    BY <2>1, <2>2 DEF ListKept, CapInSight, Within
<1>2. QED
  BY <1>1, RecentStart, RecentInductive, PTL DEF RecentSpec

(* "The newest N survive": who a trim deletes was not met later than anybody it
   keeps, unless the owner met somebody between its query and its delete. *)
THEOREM TheNewestSurvive == RecentSpec => NewestSurvive
<1>1. ASSUME RecentInv, NEW c \in CaptureSlots, NEW o \in Gamers \ remet, TrimDelete(c, o),
             NEW x \in List(o), NEW y \in List(o), met'[o][x] = 0, met'[o][y] # 0
      PROVE  met[o][x] <= met[o][y]
  <2> DEFINE stale == capturing[c].trims[o].stale
  <2>1. HasFound(capturing[c], o) /\ ListKept(o)
    BY <1>1 DEF TrimDelete, HasFound, RecentInv
  <2>2. OldestGo(o, stale)
    BY <2>1 DEF ListKept
  <2>3. met'[o] = [z \in Gamers |-> IF z \in stale THEN 0 ELSE met[o][z]]
    BY <1>1 DEF TrimDelete, RecentInv, MetTyped
  <2>4. x \in stale /\ y \notin stale
    BY <1>1, <2>3 DEF List
  <2>5. QED
    BY <2>2, <2>4 DEF OldestGo
<1>2. RecentInv /\ [RecentNext]_recentVars =>
          [\A c \in CaptureSlots, o \in Gamers \ remet :
              TrimDelete(c, o) =>
                  \A x, y \in List(o) : met'[o][x] = 0 /\ met'[o][y] # 0 =>
                      met[o][x] <= met[o][y]]_recentVars
  BY <1>1
<1>3. QED
  BY <1>2, RecentStart, RecentInductive, PTL DEF RecentSpec, NewestSurvive

-----------------------------------------------------------------------------
(* The types of the feed: a capture in flight only holds edges between two    *)
(* different gamers, so nobody ever meets himself.                            *)

Edges == {e \in Gamers \X Gamers : e[1] # e[2]}

CaptureTyped(r) ==
    /\ r.pc = "tags" => r.pairs \subseteq Edges
    /\ r.pc = "upsert" => /\ r.left \subseteq Edges /\ r.owners \subseteq Gamers
                          /\ r.now \in 0 .. MaxJoins
    /\ r.pc = "trim" => DOMAIN r.trims \subseteq Gamers

MetSomebodyElse ==
    met \in [Gamers -> [Gamers -> 0 .. MaxJoins]] /\ \A o \in Gamers : met[o][o] = 0

FeedTyped ==
    /\ MetSomebodyElse
    /\ \A c \in CaptureSlots : CaptureTyped(capturing[c])
    /\ joins \in 0 .. MaxJoins
    /\ untrimmed \subseteq Gamers /\ remet \subseteq Gamers

(* pairsForJoin pairs a joiner with somebody else among the players. *)
LEMMA PairsAreEdges ==
    ASSUME NEW members \in Seq(Gamers), NEW joining \in Seq(Gamers)
    PROVE  PairsForJoin(members, joining) \subseteq Edges
<1>1. ToSet(members) \subseteq Gamers
  BY DEF ToSet
<1>2. ASSUME NEW j \in ToSet(members), NEW m \in ToSet(members) \ {j}
      PROVE  <<j, m>> \in Edges /\ <<m, j>> \in Edges
  BY <1>1, <1>2 DEF Edges
<1>3. \A j \in ToSet(members) : Meets(ToSet(members), j) \subseteq Edges
  BY <1>2 DEF Meets
<1>4. QED
  BY <1>3 DEF PairsForJoin

LEMMA OwnersAreGamers ==
    ASSUME NEW r, CaptureTyped(r)
    PROVE  Owners(r) \subseteq Gamers
BY DEF CaptureTyped, Owners, Edges

LEMMA SettledTyped ==
    ASSUME NEW r, Shaped(r), r.pc = "upsert", CaptureTyped(r), NEW edge,
           NEW rejected \in BOOLEAN, NEW q, q = Settled(r, edge, rejected)
    PROVE  CaptureTyped(q)
<1> DEFINE left == r.left \ {edge}
           failed == r.failed \/ rejected
<1>1. r.left \subseteq Edges /\ r.owners \subseteq Gamers /\ r.now \in 0 .. MaxJoins
  BY DEF CaptureTyped
<1>2. CASE left # {}
  <2>1. r = [pc |-> "upsert", now |-> r.now, owners |-> r.owners,
             left |-> r.left, failed |-> r.failed]
    BY DEF Shaped
  <2>2. q = [pc |-> "upsert", now |-> r.now, owners |-> r.owners,
             left |-> left, failed |-> failed]
    BY <1>2, <2>1 DEF Settled
  <2> HIDE DEF failed
  <2>3. q.pc = "upsert" /\ q.left = left /\ q.owners = r.owners /\ q.now = r.now
    BY <2>2
  <2>4. QED
    BY <1>1, <2>3 DEF CaptureTyped
<1>3. CASE left = {} /\ failed
  <2>1. q.pc = "idle"
    BY <1>3 DEF Settled, NoCapture
  <2>2. QED
    BY <2>1 DEF CaptureTyped
<1>4. CASE left = {} /\ ~failed
  <2>1. q.pc = "trim" /\ DOMAIN q.trims = r.owners
    BY <1>4 DEF Settled, Owners
  <2>2. QED
    BY <1>1, <2>1 DEF CaptureTyped
<1>5. QED
  BY <1>2, <1>3, <1>4

LEMMA TrimmedTyped ==
    ASSUME NEW r, Shaped(r), r.pc = "trim", CaptureTyped(r), NEW o
    PROVE  CaptureTyped(Trimmed(r, o))
<1>1. CASE DOMAIN r.trims = {o}
  BY <1>1 DEF Trimmed, NoCapture, CaptureTyped
<1>2. CASE DOMAIN r.trims # {o}
  <2> DEFINE rest == [p \in DOMAIN r.trims \ {o} |-> r.trims[p]]
             q == Trimmed(r, o)
  <2>1. r = [pc |-> "trim", trims |-> r.trims] /\ q = [r EXCEPT !.trims = rest]
    BY <1>2 DEF Shaped, Trimmed
  <2>2. DOMAIN rest \subseteq DOMAIN r.trims
    OBVIOUS
  <2> HIDE DEF rest, q
  <2>3. q.pc = "trim" /\ q.trims = rest
    BY <2>1
  <2>4. CaptureTyped(q)
    BY <2>2, <2>3 DEF CaptureTyped
  <2>5. QED
    BY <2>4 DEF q
<1>3. QED
  BY <1>1, <1>2

(* Forgetting edges leaves a capture as far as it was. *)
LEMMA ForgetsTyped ==
    ASSUME RecentInv, FeedTyped, NEW o, NEW gone, NEW c \in CaptureSlots
    PROVE  CaptureTyped(Forgetting(o, gone)[c])
<1> DEFINE r == capturing[c]
           q == Forgetting(o, gone)[c]
<1>1. Shaped(r) /\ CaptureTyped(r)
  BY DEF RecentInv, FeedTyped
<1>2. CASE r.pc = "trim" /\ o \in DOMAIN r.trims
  <2> DEFINE t == [r.trims EXCEPT ![o].stale = r.trims[o].stale \ gone]
  <2>1. r = [pc |-> "trim", trims |-> r.trims] /\ q = [r EXCEPT !.trims = t]
    BY <1>1, <1>2 DEF Shaped, Forgetting
  <2>2. DOMAIN t = DOMAIN r.trims
    OBVIOUS
  <2> HIDE DEF t
  <2>3. q.pc = "trim" /\ q.trims = t
    BY <2>1
  <2>4. QED
    BY <1>1, <1>2, <2>2, <2>3 DEF CaptureTyped
<1>3. CASE ~(r.pc = "trim" /\ o \in DOMAIN r.trims)
  <2>1. q = r
    BY <1>3 DEF Forgetting
  <2>2. QED
    BY <1>1, <2>1
<1>4. QED
  BY <1>2, <1>3

(* A capture starts, goes on or fails without touching the collection. *)
LEMMA CaptureStaysTyped ==
    ASSUME RecentInv, FeedTyped, NEW c \in CaptureSlots,
           \/ (\E j \in Joins : CaptureJoin(c, j[1], j[2])) \/ TagsRead(c) \/ TagsFail(c)
           \/ \E o, x \in Gamers : UpsertFails(c, <<o, x>>)
           \/ \E o \in Gamers : TrimFind(c, o) \/ TrimFails(c, o)
    PROVE  FeedTyped'
<1> DEFINE r == capturing[c]
<1>1. ASSUME NEW q, CaptureTyped(q), capturing' = [capturing EXCEPT ![c] = q],
             UNCHANGED <<met, remet>>, joins' \in 0 .. MaxJoins, untrimmed' \subseteq Gamers
      PROVE  FeedTyped'
  <2>1. \A d \in CaptureSlots : capturing'[d] = IF d = c THEN q ELSE capturing[d]
    BY <1>1 DEF RecentInv
  <2>2. \A d \in CaptureSlots : CaptureTyped(capturing'[d])
    BY <1>1, <2>1 DEF FeedTyped
  <2>3. MetSomebodyElse'
    BY <1>1 DEF FeedTyped, MetSomebodyElse
  <2>4. QED
    BY <1>1, <2>2, <2>3 DEF FeedTyped, CaptureTyped
<1>2. /\ Shaped(r) /\ CaptureTyped(r) /\ Owners(r) \subseteq Gamers
      /\ joins \in 0 .. MaxJoins /\ untrimmed \subseteq Gamers
  BY OwnersAreGamers DEF RecentInv, FeedTyped
<1>3. CASE \E j \in Joins : CaptureJoin(c, j[1], j[2])
  <2>1. PICK j \in Joins : CaptureJoin(c, j[1], j[2])
    BY <1>3
  <2> DEFINE pairs == PairsForJoin(j[1], j[2])
             q == [pc |-> "tags", pairs |-> pairs]
  <2>2. pairs \subseteq Edges
    BY PairsAreEdges, RecentAssumption
  <2>3. /\ capturing' = [capturing EXCEPT ![c] = q]
        /\ UNCHANGED <<met, remet, untrimmed>> /\ joins' \in 0 .. MaxJoins
    BY <1>2, <2>1, RecentAssumption DEF CaptureJoin
  <2> HIDE DEF pairs
  <2>4. CaptureTyped(q)
    BY <2>2 DEF CaptureTyped
  <2> HIDE DEF q
  <2>5. QED
    BY <1>1, <1>2, <2>3, <2>4
<1>4. CASE TagsRead(c)
  <2> DEFINE q == [pc |-> "upsert", now |-> joins, owners |-> Owners(r),
                   left |-> r.pairs, failed |-> FALSE]
  <2>1. /\ r.pc = "tags" /\ UNCHANGED <<met, remet, untrimmed, joins>>
        /\ capturing' = [capturing EXCEPT ![c] = q]
    BY <1>4 DEF TagsRead, RecentInv
  <2>2. r.pairs \subseteq Edges
    BY <1>2, <2>1 DEF CaptureTyped
  <2>3. CaptureTyped(q)
    BY <1>2, <2>2 DEF CaptureTyped
  <2> HIDE DEF q
  <2>4. QED
    BY <1>1, <1>2, <2>1, <2>3
<1>5. CASE TagsFail(c)
  <2>1. CaptureTyped(NoCapture)
    BY DEF NoCapture, CaptureTyped
  <2>2. QED
    BY <1>1, <1>2, <1>5, <2>1 DEF TagsFail
<1>6. ASSUME NEW o \in Gamers, NEW x \in Gamers, UpsertFails(c, <<o, x>>)
      PROVE  FeedTyped'
  <2> DEFINE q == Settled(r, <<o, x>>, TRUE)
  <2>1. /\ r.pc = "upsert" /\ capturing' = [capturing EXCEPT ![c] = q]
        /\ UNCHANGED <<met, remet, joins>>
        /\ untrimmed' = IF q = NoCapture THEN untrimmed \cup Owners(r) ELSE untrimmed
    BY <1>6 DEF UpsertFails
  <2>2. CaptureTyped(q)
    BY <1>2, <2>1, SettledTyped
  <2> HIDE DEF q
  <2>3. QED
    BY <1>1, <1>2, <2>1, <2>2
<1>7. ASSUME NEW o \in Gamers, TrimFind(c, o)
      PROVE  FeedTyped'
  <2>1. PICK stale \in SUBSET List(o) :
            capturing' = [capturing EXCEPT ![c].trims[o] = [found |-> TRUE, stale |-> stale]]
    BY <1>7 DEF TrimFind
  <2> DEFINE t == [r.trims EXCEPT ![o] = [found |-> TRUE, stale |-> stale]]
             q == [r EXCEPT !.trims = t]
  <2>2. /\ r.pc = "trim" /\ UNCHANGED <<met, remet, joins>> /\ untrimmed' \subseteq Gamers
        /\ capturing' = [capturing EXCEPT ![c] = q]
    BY <1>2, <1>7, <2>1 DEF TrimFind, RecentInv
  <2>3. r = [pc |-> "trim", trims |-> r.trims] /\ DOMAIN t = DOMAIN r.trims
    BY <1>2, <2>2 DEF Shaped
  <2> HIDE DEF t
  <2>4. q.pc = "trim" /\ q.trims = t
    BY <2>3
  <2> HIDE DEF q
  <2>5. CaptureTyped(q)
    BY <1>2, <2>2, <2>3, <2>4 DEF CaptureTyped
  <2>6. QED
    BY <1>1, <1>2, <2>2, <2>5
<1>8. ASSUME NEW o \in Gamers, TrimFails(c, o)
      PROVE  FeedTyped'
  <2> DEFINE q == Trimmed(r, o)
  <2>1. /\ r.pc = "trim" /\ capturing' = [capturing EXCEPT ![c] = q]
        /\ UNCHANGED <<met, remet, joins>> /\ untrimmed' \subseteq Gamers
    BY <1>2, <1>8 DEF TrimFails
  <2>2. CaptureTyped(q)
    BY <1>2, <2>1, TrimmedTyped
  <2> HIDE DEF q
  <2>3. QED
    BY <1>1, <1>2, <2>1, <2>2
<1>9. QED
  BY <1>3, <1>4, <1>5, <1>6, <1>7, <1>8

(* An upsert writes the time of a join into an edge between two gamers. *)
LEMMA UpsertStaysTyped ==
    ASSUME RecentInv, FeedTyped, NEW c \in CaptureSlots,
           NEW o \in Gamers, NEW x \in Gamers, Upsert(c, <<o, x>>)
    PROVE  FeedTyped'
<1> DEFINE r == capturing[c]
           q == Settled(r, <<o, x>>, FALSE)
<1>1. /\ r.pc = "upsert" /\ <<o, x>> \in r.left
      /\ met' = [met EXCEPT ![o][x] = r.now]
      /\ remet' = IF InTrim(o) THEN remet \cup {o} ELSE remet
      /\ capturing' = [capturing EXCEPT ![c] = q]
      /\ untrimmed' = IF q = NoCapture THEN untrimmed \cup Owners(r) ELSE untrimmed
      /\ joins' = joins
  BY DEF Upsert
<1>2. /\ Shaped(r) /\ CaptureTyped(r) /\ Owners(r) \subseteq Gamers
      /\ joins \in 0 .. MaxJoins /\ untrimmed \subseteq Gamers /\ remet \subseteq Gamers
  BY OwnersAreGamers DEF RecentInv, FeedTyped
<1>3. o # x /\ r.now \in 0 .. MaxJoins
  BY <1>1, <1>2 DEF CaptureTyped, Edges
<1>4. CaptureTyped(q)
  BY <1>1, <1>2, SettledTyped
<1> HIDE DEF q
<1>5. MetSomebodyElse'
  BY <1>1, <1>3 DEF FeedTyped, MetSomebodyElse
<1>6. \A d \in CaptureSlots : capturing'[d] = IF d = c THEN q ELSE capturing[d]
  BY <1>1 DEF RecentInv
<1>7. \A d \in CaptureSlots : CaptureTyped(capturing'[d])
  BY <1>4, <1>6 DEF FeedTyped
<1>8. untrimmed' \subseteq Gamers /\ remet' \subseteq Gamers
  BY <1>1, <1>2
<1>9. QED
  BY <1>1, <1>2, <1>5, <1>7, <1>8 DEF FeedTyped, CaptureTyped

(* A trim deletes, a player removes an edge or clears the list. *)
LEMMA DeletesStayTyped ==
    ASSUME RecentInv, FeedTyped, NEW o \in Gamers,
           \/ \E c \in CaptureSlots : TrimDelete(c, o)
           \/ (\E x \in Gamers : RemoveRecent(o, x)) \/ ClearRecent(o)
    PROVE  FeedTyped'
<1>1. \A d \in CaptureSlots : Shaped(capturing[d]) /\ CaptureTyped(capturing[d])
  BY DEF RecentInv, FeedTyped
<1>2. MetSomebodyElse
  BY DEF FeedTyped
<1>3. ASSUME NEW c \in CaptureSlots, TrimDelete(c, o)
      PROVE  MetSomebodyElse' /\ \A d \in CaptureSlots : CaptureTyped(capturing'[d])
  <2> DEFINE r == capturing[c]
             gone == r.trims[o].stale
             q == Trimmed(r, o)
             f == Forgetting(o, gone)
  <2>1. /\ r.pc = "trim" /\ capturing' = [f EXCEPT ![c] = q]
        /\ met' = [met EXCEPT ![o] = [x \in Gamers |-> IF x \in gone THEN 0 ELSE met[o][x]]]
    BY <1>3 DEF TrimDelete
  <2>2. f = [d \in CaptureSlots |-> f[d]]
    BY DEF Forgetting
  <2>3. CaptureTyped(q) /\ \A d \in CaptureSlots : CaptureTyped(f[d])
    BY <1>1, <2>1, TrimmedTyped, ForgetsTyped
  <2> HIDE DEF q, f, gone
  <2>4. \A d \in CaptureSlots : capturing'[d] = IF d = c THEN q ELSE f[d]
    BY <2>1, <2>2
  <2>5. MetSomebodyElse'
    BY <1>2, <2>1, RecentAssumption DEF MetSomebodyElse
  <2>6. QED
    BY <2>3, <2>4, <2>5
<1>4. ASSUME NEW x \in Gamers, RemoveRecent(o, x)
      PROVE  MetSomebodyElse' /\ \A d \in CaptureSlots : CaptureTyped(capturing'[d])
  <2>1. MetSomebodyElse'
    BY <1>2, <1>4, RecentAssumption DEF RemoveRecent, MetSomebodyElse
  <2>2. capturing' = Forgetting(o, {x})
    BY <1>4 DEF RemoveRecent
  <2>3. QED
    BY <2>1, <2>2, ForgetsTyped
<1>5. ASSUME ClearRecent(o)
      PROVE  MetSomebodyElse' /\ \A d \in CaptureSlots : CaptureTyped(capturing'[d])
  <2>1. MetSomebodyElse'
    BY <1>2, <1>5, RecentAssumption DEF ClearRecent, MetSomebodyElse
  <2>2. capturing' = Forgetting(o, Gamers)
    BY <1>5 DEF ClearRecent
  <2>3. QED
    BY <2>1, <2>2, ForgetsTyped
<1>6. MetSomebodyElse' /\ \A d \in CaptureSlots : CaptureTyped(capturing'[d])
  BY <1>3, <1>4, <1>5
<1>7. UNCHANGED <<joins, untrimmed, remet>>
  BY DEF TrimDelete, RemoveRecent, ClearRecent
<1>8. QED
  BY <1>6, <1>7 DEF FeedTyped, CaptureTyped

LEMMA FeedStaysTyped ==
    RecentInv /\ FeedTyped /\ [RecentNext]_recentVars => FeedTyped'
<1> SUFFICES ASSUME RecentInv, FeedTyped, [RecentNext]_recentVars
             PROVE  FeedTyped'
  OBVIOUS
<1>1. ASSUME NEW c \in CaptureSlots, NEW o \in Gamers, NEW x \in Gamers,
             Upsert(c, <<o, x>>)
      PROVE  FeedTyped'
  BY <1>1, UpsertStaysTyped
<1>2. ASSUME NEW c \in CaptureSlots,
             \/ (\E j \in Joins : CaptureJoin(c, j[1], j[2])) \/ TagsRead(c) \/ TagsFail(c)
             \/ \E o, x \in Gamers : UpsertFails(c, <<o, x>>)
             \/ \E o \in Gamers : TrimFind(c, o) \/ TrimFails(c, o)
      PROVE  FeedTyped'
  BY <1>2, CaptureStaysTyped
<1>3. ASSUME NEW o \in Gamers,
             \/ \E c \in CaptureSlots : TrimDelete(c, o)
             \/ (\E x \in Gamers : RemoveRecent(o, x)) \/ ClearRecent(o)
      PROVE  FeedTyped'
  BY <1>3, DeletesStayTyped
<1>4. CASE UNCHANGED recentVars
  <2>1. MetSomebodyElse'
    BY <1>4 DEF recentVars, FeedTyped, MetSomebodyElse
  <2>2. QED
    BY <1>4, <2>1 DEF recentVars, FeedTyped, CaptureTyped
<1>5. QED
  BY <1>1, <1>2, <1>3, <1>4 DEF RecentNext

(* The feed keeps its types: nobody is on his own list, every time is that of a
   join, and captures touch the lists of gamers only. *)
THEOREM RecentIsTyped == RecentSpec => []RecentTypeOK
<1>1. RecentInit => FeedTyped
  BY RecentAssumption DEF RecentInit, FeedTyped, MetSomebodyElse, NoCapture, CaptureTyped
<1>2. FeedTyped => RecentTypeOK
  BY OwnersAreGamers DEF FeedTyped, MetSomebodyElse, RecentTypeOK
<1>3. QED
  BY <1>1, <1>2, FeedStaysTyped, RecentStart, RecentInductive, PTL DEF RecentSpec

=============================================================================
