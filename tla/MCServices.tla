------------------------------ MODULE MCServices -----------------------------
(***************************************************************************)
(* The services that share no state with each other, checked in one run.   *)
(*                                                                         *)
(* A property of one of them holds of their composition exactly when it    *)
(* holds of the service alone, so a behaviour here is one of a single      *)
(* service, chosen at the start, with the others at rest.                  *)
(*                                                                         *)
(* Parties are a service like the others, with the record PartyOverlaps    *)
(* adds to them.                                                           *)
(***************************************************************************)
EXTENDS MCPlayers, Storage, Friends, Recent, Accounts, Logs, SessionProperties, Qos,
        PartyOverlaps

-----------------------------------------------------------------------------
(* Values of the constants that a configuration cannot write down.          *)

CONSTANTS SaveGame, Clip, UserDir, ClipDir, Small, Medium, Large

\* One file of the user area and one of another: clips and titles differ in
\* their limit only.
OwnDir == [p \in Paths |-> IF p = SaveGame THEN UserDir ELSE ClipDir]
OwnArea == [p \in Paths |-> IF p = SaveGame THEN "user" ELSE "clip"]
Sizes == [c \in Contents |-> IF c = Small THEN 1 ELSE IF c = Medium THEN 2 ELSE 3]

CONSTANTS g1, g2, g3

\* A list gets its first two gamers from joins of different sessions.
TwoJoins == {<< <<g1, g2>>, <<g2>> >>, << <<g1, g3>>, <<g3>> >>}

\* Contexts with a small value and with the sign bit; a property; a property
\* and a context that are cut short.
Zeros(n) == [i \in 1 .. n |-> 0]
Buffer(id, type, data) == Reverse(BigEndian(id)) \o <<type>> \o Zeros(7) \o data
SomeEntries ==
    {Buffer(2, CONTEXT, BigEndian(5) \o Zeros(4)),
     Buffer(2, CONTEXT, BigEndian(Half + 1) \o Zeros(4)),
     Buffer(3, CONTEXT, BigEndian(1) \o Zeros(4)),
     Buffer(6, INT32, BigEndian(9) \o Zeros(4)),
     Buffer(6, INT64, BigEndian(9)),
     Buffer(3, CONTEXT, <<1>>)}
SomePosted == {<<2, 6>>, <<3, Half>>}

\* The players of a party are alike.
Interchangeable == Permutations(Players)

-----------------------------------------------------------------------------
VARIABLE active   \* the service this behaviour is about

Services == {"players", "storage", "friends", "recent", "accounts", "logs",
             "properties", "qos", "parties"}

ServicesInit ==
    /\ active \in Services
    /\ PlayersInit
    /\ active # "players" =>
          players = [x \in Xuids |-> NoPlayer] /\ store = [s \in SessionIds |-> Gone]
    /\ StorageInit
    /\ FriendsInit
    /\ RecentInit
    /\ AccountsInit
    /\ LogsInit
    /\ active # "logs" => gate = 200
    /\ PropertiesInit
    /\ active # "properties" => entry = Empty
    /\ QosInit
    /\ OInit

\* The other services are at rest.
Only(name, itsVars) == IF active = name THEN TRUE ELSE UNCHANGED itsVars

OthersRest ==
    /\ Only("players", playersVars)
    /\ Only("storage", storageVars)
    /\ Only("friends", friendsVars)
    /\ Only("recent", recentVars)
    /\ Only("accounts", accountsVars)
    /\ Only("logs", logsVars)
    /\ Only("properties", propertiesVars)
    /\ Only("qos", qosVars)
    /\ Only("parties", partyVars)
    /\ UNCHANGED active

ServicesNext ==
    /\ \/ active = "players" /\ PlayersNext
       \/ active = "storage" /\ StorageNext
       \/ active = "friends" /\ FriendsNext
       \/ active = "recent" /\ RecentNext
       \/ active = "accounts" /\ AccountsNext
       \/ active = "logs" /\ LogsNext
       \/ active = "properties" /\ PropertiesNext
       \/ active = "qos" /\ QosNext
       \/ active = "parties" /\ ONext
    /\ OthersRest

ServicesSpec ==
    ServicesInit /\ [][ServicesNext]_<<active, playersVars, storageVars, friendsVars,
                         recentVars, accountsVars, logsVars, propertiesVars, qosVars, partyVars>>

(* The type invariants of the services. *)
ServicesTypeOK ==
    /\ PlayersTypeOK
    /\ StorageTypeOK
    /\ FriendsTypeOK
    /\ RecentTypeOK
    /\ AccountsTypeOK
    /\ LogsTypeOK
    /\ PropertiesTypeOK
    /\ QosTypeOK
    /\ TypeOK

=============================================================================
