------------------------------- MODULE Players -------------------------------
(***************************************************************************)
(* Player records, and the request handlers that write them.               *)
(*                                                                         *)
(* A record is one document of the `players` collection.  The handlers of  *)
(* player.controller, session.controller, xnet.controller and the          *)
(* teardown all follow one pattern: read a Player, change some fields of   *)
(* the copy, and execute UpdatePlayerCommand, which looks the player up    *)
(* again, overwrites EVERY field with the copy's and saves with an upsert. *)
(* The three database calls are three steps here, and other requests run   *)
(* in between.                                                             *)
(*                                                                         *)
(* A session command (create, leave, modify, migrate, delete) is one step: *)
(* module Sessions models its own find and save.  Of a session only what   *)
(* these handlers look at is kept.  Left out: gamertag, addresses and      *)
(* ports, which only registration writes; the title id, which is written   *)
(* where the session id is; the answers of read-only requests.             *)
(***************************************************************************)
EXTENDS Naturals, FiniteSets

CONSTANTS
    Xuids,
    Consoles,
    ConsoleOf,    \* the console a profile registers from
    SessionIds,
    ChosenIds,    \* the ids hosts choose; migrations draw the others
    Servers,      \* requests that may be in flight at the same time
    Phrases,      \* rich presence texts; 0 is the empty one
    SettingIds,   \* the settings a SetSettings request carries
    Uploads,      \* the sets of settings a registration may upload
    SettingValues,\* their values; 0 is what registration uploads
    MaxRequests,  \* bound: requests that may be started
    NoPlayer, NoSession, Gone

ASSUME PlayersAssumption ==
    /\ ConsoleOf \in [Xuids -> Consoles]
    /\ 0 \in Phrases /\ 0 \in SettingValues
    /\ NoSession \notin SessionIds
    /\ ChosenIds \subseteq SessionIds
    /\ Uploads \subseteq SUBSET SettingIds
    /\ MaxRequests \in Nat

Player == [session     : SessionIds \cup {NoSession},
           friendsOnly : BOOLEAN,
           rich        : Phrases,
           settings    : UNION {[K -> SettingValues] : K \in SUBSET SettingIds}]

ASSUME NoPlayerAssumption == NoPlayer \notin Player

SessionInfo == [host : Xuids, advertised : BOOLEAN, friendsOnly : BOOLEAN,
                properties : BOOLEAN]

ASSUME GoneAssumption == Gone \notin SessionInfo

VARIABLES
    players,    \* the collection: xuid -> its record or NoPlayer
    store,      \* what the handlers see of the sessions collection
    serving,    \* what each server process has in flight
    started,    \* how many requests have been started
    crossed,    \* history: the players of whom two requests held a copy, or
                \*   whose record came or went while a request held a copy
    serially    \* history: the records, had each change been made to the
                \*   record itself instead of to a copy of it

playersVars == <<players, store, serving, started, crossed, serially>>

-----------------------------------------------------------------------------
(* The aggregate.                                                          *)

Registered(held) ==
    [session |-> NoSession, friendsOnly |-> FALSE, rich |-> 0,
     settings |-> [k \in held |-> 0]]

\* A handler's change is the record of the fields it writes.
Writes(c, f) == f \in DOMAIN c

\* The settings that `new` writes over `old`.
Over(old, new) ==
    [k \in DOMAIN old \cup DOMAIN new |->
        IF k \in DOMAIN new THEN new[k] ELSE old[k]]

\* setSession, setRichPresence, setState, updateSettings: the copy with the
\* fields of `c` written.  Settings are replaced one by one, by id.
Changed(p, c) ==
    [f \in DOMAIN p |-> IF ~Writes(c, f) THEN p[f]
                        ELSE IF f = "settings" THEN Over(p.settings, c.settings)
                        ELSE c[f]]

ResetChange == [session |-> NoSession, friendsOnly |-> FALSE, rich |-> 0]

\* updateSettings reads the data of the setting it replaces, and throws when
\* the player has none of that id.
UpdateThrows(p, c) ==
    Writes(c, "settings") /\ ~(DOMAIN c.settings \subseteq DOMAIN p.settings)

\* modifySession and deleteSession save only when the flag is to change.
Needless(p, c) ==
    DOMAIN c = {"friendsOnly"} /\ p.friendsOnly = c.friendsOnly

-----------------------------------------------------------------------------
(* Requests.  `who` are the players still to be read, `copies` the copies  *)
(* read and not yet saved, `change` the fields to write.                   *)

Resting == [pc |-> "idle"]
NoCopies == [x \in {} |-> NoPlayer]

Looping(who, change) ==
    IF who = {} THEN Resting
    ELSE [pc |-> "loop", who |-> who, copies |-> NoCopies, change |-> change]

\* A find: the request's own copies of the records.
Copies(xs) == [x \in xs |-> players[x]]

InHand(r) == IF r.pc \in {"create", "loop", "save"} THEN DOMAIN r.copies ELSE {}

HeldBy(ws) == UNION {InHand(serving[o]) : o \in ws}

Counted == started < MaxRequests /\ started' = started + 1

Becomes(w, r) ==
    /\ serving' = [serving EXCEPT ![w] = r]
    /\ crossed' = crossed \cup (InHand(r) \cap HeldBy(Servers \ {w}))

\* A new request, in an idle server process.
Begins(w, r) == serving[w] = Resting /\ Counted /\ Becomes(w, r)

\* The request goes on with what is left of it, or is answered.
Continue(w, who, copies) ==
    Becomes(w, IF who = {} /\ copies = NoCopies THEN Resting
               ELSE [pc |-> "loop", who |-> who, copies |-> copies,
                     change |-> serving[w].change])

Without(copies, x) == [y \in DOMAIN copies \ {x} |-> copies[y]]

-----------------------------------------------------------------------------
(* The server starts on the collections as earlier requests left them: players
   as they registered, sessions under the ids their hosts chose. *)
PlayersInit ==
    /\ players \in [Xuids -> {NoPlayer} \cup {Registered(held) : held \in Uploads}]
    /\ store \in {st \in [SessionIds -> SessionInfo \cup {Gone}] :
                     \A s \in SessionIds \ ChosenIds : st[s] = Gone}
    /\ serving = [w \in Servers |-> Resting]
    /\ started = 0
    /\ crossed = {}
    /\ serially = players

\* The record of `x` comes or goes, whoever holds a copy of it.
Replace(x, record) ==
    /\ players' = [players EXCEPT ![x] = record]
    /\ serially' = [serially EXCEPT ![x] = record]
    /\ crossed' = crossed \cup ({x} \cap HeldBy(Servers))
    /\ Counted
    /\ UNCHANGED <<store, serving>>

(* POST /players: an upsert of a fresh record, whatever was there. *)
Register(x, held) == Replace(x, Registered(held))

(* The record's TTL index, one day after its last save. *)
ExpirePlayer(x) == players[x] # NoPlayer /\ Replace(x, NoPlayer)

(* GET /players/deletemyprofiles: what it answers is read first, then every
   record with the console's address is deleted. *)
FindMyProfiles(w, c) ==
    /\ Begins(w, [pc |-> "purge", console |-> c])
    /\ UNCHANGED <<players, store, serially>>

DeleteMyProfiles(w) ==
    /\ serving[w].pc = "purge"
    /\ LET mine == {x \in Xuids : ConsoleOf[x] = serving[w].console}
           left(recs) == [x \in Xuids |-> IF x \in mine THEN NoPlayer ELSE recs[x]]
       IN  /\ players' = left(players)
           /\ serially' = left(serially)
           /\ crossed' = crossed \cup (mine \cap HeldBy(Servers))
    /\ serving' = [serving EXCEPT ![w] = Resting]
    /\ UNCHANGED <<store, started>>

(* POST /players/setpresence, for each player of the list in turn. *)
SetPresence(w, who, text) ==
    /\ Begins(w, Looping(who, [rich |-> text]))
    /\ UNCHANGED <<players, store, serially>>

(* POST /players/setsettings reads all its players before it updates one. *)
SetSettings(w, who, value) ==
    LET found == {x \in who : players[x] # NoPlayer}
    IN  /\ found # {}
        /\ Begins(w, [pc |-> "loop", who |-> {},
                      copies |-> Copies(found),
                      change |-> [settings |-> [k \in SettingIds |-> value]]])
        /\ UNCHANGED <<players, store, serially>>

(* POST /sessions by a host reads the player, then creates the session, then
   saves the copy, unless the session is not advertised.  The friends-only
   state is set on the copy only. *)
ReadHost(w, x, s, info) ==
    /\ players[x] # NoPlayer
    /\ Begins(w, [pc |-> "create", session |-> s, info |-> info,
                  copies |-> Copies({x})])
    /\ UNCHANGED <<players, store, serially>>

CreateSession(w) ==
    LET r == serving[w]
    IN  /\ r.pc = "create"
        /\ store' = [store EXCEPT ![r.session] = r.info]
        /\ Becomes(w,
             IF r.info.advertised
             THEN [pc |-> "loop", who |-> {}, copies |-> r.copies,
                   change |-> IF r.info.friendsOnly
                              THEN [session |-> r.session, friendsOnly |-> TRUE]
                              ELSE [session |-> r.session]]
             ELSE Resting)
        /\ UNCHANGED <<players, started, serially>>

(* POST /sessions/:id/properties, as far as these handlers can tell. *)
SetProperties(s) ==
    /\ store[s] # Gone
    /\ ~store[s].properties
    /\ store' = [store EXCEPT ![s].properties = TRUE]
    /\ UNCHANGED <<players, serving, started, crossed, serially>>

(* The host's friends-only state, looked at when the session has properties. *)
HostState(s, friendsOnly) ==
    Looping(IF store[s].properties THEN {store[s].host} ELSE {},
            [friendsOnly |-> friendsOnly])

(* POST /sessions/:id/modify. *)
ModifySession(w, s, advertised, friendsOnly) ==
    /\ store[s] # Gone
    /\ store' = [store EXCEPT ![s].advertised = advertised,
                              ![s].friendsOnly = friendsOnly]
    /\ Begins(w, HostState(s, friendsOnly))
    /\ UNCHANGED <<players, serially>>

(* DELETE /sessions/:id: the owner is checked on one read, the command reads
   again.  A soft delete changes nothing that these handlers look at. *)
CheckOwner(w, s) ==
    /\ store[s] # Gone
    /\ Begins(w, [pc |-> "delete", session |-> s])
    /\ UNCHANGED <<players, store, serially>>

\* With the session gone in between the handler throws: the request is over.
DeleteSession(w) ==
    LET s == serving[w].session
    IN  /\ serving[w].pc = "delete"
        /\ \/ store[s] = Gone /\ Becomes(w, Resting)
           \/ store[s] # Gone /\ Becomes(w, HostState(s, FALSE))
        /\ UNCHANGED <<players, store, started, serially>>

(* POST /sessions/:id/prejoin asks nothing about the session. *)
PreJoin(w, s, who) ==
    /\ Begins(w, Looping(who, [session |-> s]))
    /\ UNCHANGED <<players, store, serially>>

(* POST /sessions/:id/join: the command, then preJoin. *)
JoinSession(w, s, who) == store[s] # Gone /\ PreJoin(w, s, who)

(* POST /sessions/:id/leave: the records are reset only when the session is
   advertised. *)
LeaveSession(w, s, who) ==
    /\ store[s] # Gone
    /\ Begins(w, Looping(IF store[s].advertised THEN who ELSE {},
                         [session |-> NoSession]))
    /\ UNCHANGED <<players, store, serially>>

(* POST /sessions/:id/migrate to a fresh session of the same flags. *)
MigrateSession(w, s, new, x) ==
    /\ store[s] # Gone /\ store[new] = Gone
    /\ store' = [store EXCEPT ![new] = [store[s] EXCEPT !.host = x]]
    /\ Begins(w, Looping(IF store[s].advertised THEN {x} ELSE {},
                         [session |-> new]))
    /\ UNCHANGED <<players, serially>>

(* DELETE /DeleteSessions and the exit teardown: the console's sessions go,
   then ONE of its players (findOne by address) is reset. *)
PurgeConsole(w, c) ==
    /\ store' = [s \in SessionIds |->
                   IF store[s] # Gone /\ ConsoleOf[store[s].host] = c
                   THEN Gone ELSE store[s]]
    /\ Begins(w, [pc |-> "reset", console |-> c])
    /\ UNCHANGED <<players, serially>>

FindOwner(w) ==
    LET there == {x \in Xuids : /\ ConsoleOf[x] = serving[w].console
                                /\ players[x] # NoPlayer}
    IN  /\ serving[w].pc = "reset"
        /\ \/ there = {} /\ Becomes(w, Resting)
           \/ \E x \in there :
                Becomes(w, [pc |-> "loop", who |-> {}, change |-> ResetChange,
                            copies |-> Copies({x})])
        /\ UNCHANGED <<players, store, started, serially>>

-----------------------------------------------------------------------------
(* The common loop.                                                        *)

(* GetPlayerQuery for the next player of the list; an unknown one, or one
   whose flag is as it should be, is passed over. *)
ReadPlayer(w) ==
    /\ serving[w].pc = "loop"
    /\ serving[w].copies = NoCopies
    /\ \E x \in serving[w].who :
         Continue(w, serving[w].who \ {x},
                  IF players[x] = NoPlayer \/ Needless(players[x], serving[w].change)
                  THEN NoCopies ELSE Copies({x}))
    /\ UNCHANGED <<players, store, started, serially>>

\* The request, about to save its copy of `x`.
Saving(r, x, change) ==
    [pc |-> "save", cur |-> x, who |-> r.who, copies |-> r.copies, change |-> change]

\* Slip: a setting the player lacks is skipped, and the rest are saved.
FindAgainSkipping(w) ==
    LET r == serving[w]
        known(x) == [k \in DOMAIN r.copies[x].settings |-> r.change.settings[k]]
    IN  /\ r.pc = "loop"
        /\ \E x \in DOMAIN r.copies :
             Becomes(w, Saving(r, x, IF Writes(r.change, "settings")
                                     THEN [settings |-> known(x)] ELSE r.change))
        /\ UNCHANGED <<players, store, started, serially>>

(* The change is made to the copy and UpdatePlayerCommand looks the player
   up.  When the change throws, the whole request ends. *)
FindAgain(w) ==
    LET r == serving[w]
    IN  /\ r.pc = "loop"
        /\ \E x \in DOMAIN r.copies :
             \/ UpdateThrows(r.copies[x], r.change) /\ Becomes(w, Resting)
             \/ /\ ~UpdateThrows(r.copies[x], r.change)
                /\ players[x] = NoPlayer
                /\ Continue(w, r.who, Without(r.copies, x))
             \/ /\ ~UpdateThrows(r.copies[x], r.change)
                /\ players[x] # NoPlayer
                /\ Becomes(w, Saving(r, x, r.change))
        /\ UNCHANGED <<players, store, started, serially>>

\* Slip: updatePlayer leaves out the rich presence.
SavePlayerWordless(w) ==
    LET r == serving[w]
    IN  /\ r.pc = "save"
        /\ players' = [players EXCEPT
                         ![r.cur] = [Changed(r.copies[r.cur], r.change) EXCEPT !.rich = 0]]
        /\ serially' = [serially EXCEPT
                          ![r.cur] = IF @ = NoPlayer THEN @ ELSE Changed(@, r.change)]
        /\ Continue(w, r.who, Without(r.copies, r.cur))
        /\ UNCHANGED <<store, started>>

(* findOneAndUpdate with upsert: every field of the copy, changed or not. *)
SavePlayer(w) ==
    LET r == serving[w]
    IN  /\ r.pc = "save"
        /\ players' = [players EXCEPT ![r.cur] = Changed(r.copies[r.cur], r.change)]
        /\ serially' = [serially EXCEPT
                          ![r.cur] = IF @ = NoPlayer THEN @ ELSE Changed(@, r.change)]
        /\ Continue(w, r.who, Without(r.copies, r.cur))
        /\ UNCHANGED <<store, started>>

Serve(w) ==
    \/ DeleteMyProfiles(w)
    \/ CreateSession(w)
    \/ DeleteSession(w)
    \/ FindOwner(w)
    \/ ReadPlayer(w)
    \/ FindAgain(w)
    \/ SavePlayer(w)

Some == SUBSET Xuids \ {{}}

PlayersNext ==
    \/ \E x \in Xuids, held \in Uploads : Register(x, held)
    \/ \E x \in Xuids : ExpirePlayer(x)
    \/ \E s \in SessionIds : SetProperties(s)
    \/ \E w \in Servers :
         \/ Serve(w)
         \/ \E c \in Consoles : FindMyProfiles(w, c) \/ PurgeConsole(w, c)
         \/ \E who \in Some :
              \/ \E text \in Phrases \ {0} : SetPresence(w, who, text)
              \/ \E v \in SettingValues \ {0} : SetSettings(w, who, v)
         \/ \E s \in SessionIds :
              \/ \E who \in Some :
                   \/ PreJoin(w, s, who)
                   \/ JoinSession(w, s, who)
                   \/ LeaveSession(w, s, who)
              \/ \E adv, fo \in BOOLEAN : ModifySession(w, s, adv, fo)
              \/ CheckOwner(w, s)
              \/ \E new \in SessionIds \ ChosenIds, x \in Xuids :
                   MigrateSession(w, s, new, x)
         \/ \E s \in ChosenIds, x \in Xuids, adv, fo \in BOOLEAN :
              ReadHost(w, x, s, [host |-> x, advertised |-> adv,
                                 friendsOnly |-> fo, properties |-> FALSE])

PlayersSpec == PlayersInit /\ [][PlayersNext]_playersVars

-----------------------------------------------------------------------------
(* Every server process holds a request, with copies of its players, and the
   history variables are about known players. *)
PlayersTypeOK ==
    /\ players \in [Xuids -> Player \cup {NoPlayer}]
    /\ serially \in [Xuids -> Player \cup {NoPlayer}]
    /\ store \in [SessionIds -> SessionInfo \cup {Gone}]
    /\ crossed \subseteq Xuids
    /\ started \in 0..MaxRequests
    /\ \A w \in Servers : InHand(serving[w]) \subseteq Xuids

(* UpdatePlayerCommand overwrites the whole record with a copy read earlier,
   so an update can be lost, and a deleted player can come back.  It happens
   only to a player whom two requests had in hand at once: a request about
   other players, a list of players one of which fails or is unknown, a
   teardown of another profile, never cost a player an update. *)
UncrossedUpdatesKept ==
    \A x \in Xuids \ crossed : players[x] = serially[x]

(* SetSettings changes the settings of the copy one by one and can throw in
   the middle.  What is saved is still all of a request's settings for a
   player or none of them, also when stale copies are saved over each other. *)
SettingsAllOrNothing ==
    \A x \in Xuids : players[x] # NoPlayer =>
        LET held == players[x].settings
        IN  \E v \in SettingValues :
              /\ \A k \in DOMAIN held : held[k] = v
              /\ DOMAIN held # SettingIds => v = 0

(* A SetSettings request gives every player it found all the settings it
   carries: updateSettings has a branch for a "New Setting". *)
NewSettingAdded ==
    [][\A w \in Servers :
         LET r == serving[w]
         IN  (/\ r.pc = "loop" /\ Writes(r.change, "settings")
              /\ serving'[w] = Resting)
             => \A x \in DOMAIN r.copies :
                  players[x] # NoPlayer =>
                    SettingIds \subseteq DOMAIN players[x].settings]_playersVars
=============================================================================
