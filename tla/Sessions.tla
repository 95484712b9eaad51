------------------------------ MODULE Sessions ------------------------------
(***************************************************************************)
(* The session store and the request handlers that read and write it.      *)
(*                                                                         *)
(* A session is one document of the `sessions` collection.  Every command  *)
(* handler but Create finds the document, changes a copy of it in memory   *)
(* (the Session aggregate) and saves the WHOLE copy with an upsert; the    *)
(* awaits in between let any other handler run.  A handler is a process    *)
(* that holds at most one request, from its database read to its last      *)
(* write.  A request whose read finds nothing ends there, with no effect,  *)
(* so it has no action.                                                    *)
(*                                                                         *)
(* Session ids are numbered in the order they come into use: the ids that  *)
(* clients choose first, then the ones GenerateSessionId draws (random 48  *)
(* bits; a collision is not modelled).  0 is the absent migration field.   *)
(*                                                                         *)
(* Left out: slot counts, ports and titles, which no step of the store     *)
(* depends on.                                                             *)
(***************************************************************************)
EXTENDS Naturals

CONSTANTS
    Handlers,     \* requests that may be in flight at the same time
    Readers,      \* GET requests that may be following a hand-off chain
    Players,      \* xuids
    Macs,         \* consoles; the synthetic host address is a function of it
    Hosts,        \* what a host sends as its xuid: players, or NoXuid
    Flags,        \* session flag words
    Keys,         \* context ids and property ids
    NoXuid,       \* the xuid of a host whose build sends none
    NoDoc,        \* no document has this id
    NClientIds,   \* how many ids clients choose
    MaxMigrations,\* bound: how many ids GenerateSessionId hands out
    MaxFaults     \* bound: how many handler failures and crashes

ClientIds == 1..NClientIds
Ids == 1..(NClientIds + MaxMigrations)

Doc == [mac        : Macs,
        host       : Hosts,
        members    : SUBSET Players,
        flags      : Flags,
        deleted    : BOOLEAN,
        context    : SUBSET Keys,
        properties : SUBSET Keys,
        migration  : Ids \cup {0}]

ASSUME SessionsAssumption ==
    /\ NClientIds \in Nat \ {0}
    /\ MaxMigrations \in Nat
    /\ MaxFaults \in Nat
    /\ Hosts \subseteq Players \cup {NoXuid}
    /\ NoXuid \notin Players
    /\ NoDoc \notin Doc

VARIABLES
    sessions,  \* the collection: id -> its document or NoDoc
    nextId,    \* the next id GenerateSessionId draws
    handling,  \* what each handler has in flight
    walking,   \* where each reader is on its hand-off chain
    faults,    \* failures and crashes so far
    persisted  \* history: the ids that have ever had a document

vars == <<sessions, nextId, handling, walking, faults, persisted>>

-----------------------------------------------------------------------------
(* Requests in flight, by the step they wait to make.                      *)

Idle == [pc |-> "idle"]

SaveOps == {"join", "leave", "other"}

\* A changed copy of document `id` waits to be saved.
Saving == [pc : {"save"}, op : SaveOps, id : Ids, doc : Doc,
           who : SUBSET Players]
\* The controller found the caller to own `id`; the handler has yet to read it.
Authorized == [pc : {"authorized"}, id : Ids]
\* A migration of `id` to `new`: the new document is saved first, then the old.
Migrating == [pc : {"saveNew", "saveOld"}, id : Ids, new : Ids,
              oldDoc : Doc, newDoc : Doc]
\* The documents a DeleteSessions has found and not yet deleted.
Purging == [pc : {"purge"}, ids : SUBSET Ids]

Request == {Idle} \cup Saving \cup Authorized \cup Migrating \cup Purging

\* resolveLiveSession: the document it holds (its id and its pointer) and `seen`.
Walk == [pc : {"walk"}, cur : Ids, next : Ids \cup {0}, seen : SUBSET Ids]

TypeOK ==
    /\ sessions \in [Ids -> Doc \cup {NoDoc}]
    /\ nextId \in NClientIds+1 .. NClientIds+MaxMigrations+1
    /\ handling \in [Handlers -> Request]
    /\ walking \in [Readers -> {Idle} \cup Walk]
    /\ faults \in 0..MaxFaults
    /\ persisted \subseteq Ids

-----------------------------------------------------------------------------
(* The aggregate: what each operation does to the copy in memory.          *)

\* Slip: the two identities of the host are swapped.
CreatedSwapped(mac, host, flags) ==
    [mac |-> host, host |-> mac, members |-> {}, flags |-> flags,
     deleted |-> FALSE, context |-> {}, properties |-> {}, migration |-> 0]

Created(mac, host, flags) ==
    [mac |-> mac, host |-> host, members |-> {}, flags |-> flags,
     deleted |-> FALSE, context |-> {}, properties |-> {}, migration |-> 0]

\* Slip: the joining players replace those already there.
JoinedAlone(doc, who) == [doc EXCEPT !.members = who]

Joined(doc, who) == [doc EXCEPT !.members = @ \cup who]

Left(doc, who) == [doc EXCEPT !.members = @ \ who]

\* Slip: the session is rebuilt from the request, with its players only.
ModifiedAnew(doc, flags) ==
    [Created(doc.mac, doc.host, flags) EXCEPT !.members = doc.members]

Modified(doc, flags) == [doc EXCEPT !.flags = flags]

ContextAdded(doc, keys) == [doc EXCEPT !.context = @ \cup keys]

PropertiesAdded(doc, keys) == [doc EXCEPT !.properties = @ \cup keys]

Deleted(doc) == [doc EXCEPT !.deleted = TRUE]

\* createMigration removes the old host from the players map BOTH sessions
\* share, and gives the old one its pointer; the handler then deletes it.
MigrationSource(doc, new) ==
    [doc EXCEPT !.members = @ \ {doc.host}, !.migration = new, !.deleted = TRUE]

MigrationTarget(doc, mac, host) ==
    [doc EXCEPT !.members = @ \ {doc.host}, !.mac = mac, !.host = host,
                !.deleted = FALSE]

\* Slip: what is undefined in the copy is written like any other field.
UpsertUndefined(stored, doc) == doc

\* findOneAndUpdate with upsert: every field is overwritten, except that
\* Mongoose drops the ones that are undefined in the copy, which can be the
\* pointer and the host's xuid.
Upsert(stored, doc) ==
    IF stored = NoDoc
    THEN doc
    ELSE [doc EXCEPT !.migration = IF @ = 0 THEN stored.migration ELSE @,
                     !.host = IF @ = NoXuid THEN stored.host ELSE @]

Put(id, doc) == sessions' = [sessions EXCEPT ![id] = Upsert(@, doc)]

Remove(id) == sessions' = [sessions EXCEPT ![id] = NoDoc]

Goto(h, request) == handling' = [handling EXCEPT ![h] = request]

Found(id) == sessions[id] # NoDoc

-----------------------------------------------------------------------------
Init ==
    /\ sessions = [i \in Ids |-> NoDoc]
    /\ nextId = NClientIds + 1
    /\ handling = [h \in Handlers |-> Idle]
    /\ walking = [r \in Readers |-> Idle]
    /\ faults = 0
    /\ persisted = {}

(* POST /sessions by a host.  The id is the client's; nothing is read first,
   so creating an id again overwrites it, all but what Upsert keeps. *)
Create(id, mac, host, flags) ==
    /\ Put(id, Created(mac, host, flags))
    /\ persisted' = persisted \cup {id}
    /\ UNCHANGED <<nextId, handling, walking, faults>>

(* Find and change.  Every such handler then waits for its save. *)
Read(h, op, id, doc, who) ==
    /\ handling[h] = Idle
    /\ Found(id)
    /\ Goto(h, [pc |-> "save", op |-> op, id |-> id, doc |-> doc, who |-> who])
    /\ UNCHANGED <<sessions, nextId, walking, faults, persisted>>

Join(h, id, who) == Read(h, "join", id, Joined(sessions[id], who), who)

Leave(h, id, who) == Read(h, "leave", id, Left(sessions[id], who), who)

Modify(h, id, flags) ==
    Read(h, "other", id, Modified(sessions[id], flags), {})

AddContext(h, id, keys) ==
    Read(h, "other", id, ContextAdded(sessions[id], keys), {})

AddProperties(h, id, keys) ==
    Read(h, "other", id, PropertiesAdded(sessions[id], keys), {})

(* DELETE /sessions/:id reads the document twice: the controller to see
   whether the caller owns it, then the handler to delete it. *)
Authorize(h, id, mac) ==
    /\ handling[h] = Idle
    /\ Found(id)
    /\ sessions[id].mac = mac
    /\ Goto(h, [pc |-> "authorized", id |-> id])
    /\ UNCHANGED <<sessions, nextId, walking, faults, persisted>>

\* The handler returns undefined when the document went away in between.
SoftDelete(h) ==
    /\ handling[h].pc = "authorized"
    /\ LET id == handling[h].id
       IN  Goto(h, IF Found(id)
                   THEN [pc |-> "save", op |-> "other", id |-> id,
                         doc |-> Deleted(sessions[id]), who |-> {}]
                   ELSE Idle)
    /\ UNCHANGED <<sessions, nextId, walking, faults, persisted>>

Save(h) ==
    /\ handling[h].pc = "save"
    /\ LET r == handling[h]
       IN  /\ Put(r.id, r.doc)
           /\ persisted' = persisted \cup {r.id}
    /\ Goto(h, Idle)
    /\ UNCHANGED <<nextId, walking, faults>>

\* Slip: the successor is a copy of a source that already has its pointer.
MigrateAliased(h, id, mac, host) ==
    /\ handling[h] = Idle
    /\ Found(id)
    /\ sessions[id].migration = 0
    /\ nextId \in Ids
    /\ nextId' = nextId + 1
    /\ LET old == MigrationSource(sessions[id], nextId)
       IN  Goto(h, [pc |-> "saveNew", id |-> id, new |-> nextId, oldDoc |-> old,
                    newDoc |-> MigrationTarget(old, mac, host)])
    /\ UNCHANGED <<sessions, walking, faults, persisted>>

(* POST /sessions/:id/migrate.  A session that already has a pointer is
   answered with the session it points to and nothing is written. *)
Migrate(h, id, mac, host) ==
    /\ handling[h] = Idle
    /\ Found(id)
    /\ sessions[id].migration = 0
    /\ nextId \in Ids
    /\ nextId' = nextId + 1
    /\ Goto(h, [pc |-> "saveNew", id |-> id, new |-> nextId,
                oldDoc |-> MigrationSource(sessions[id], nextId),
                newDoc |-> MigrationTarget(sessions[id], mac, host)])
    /\ UNCHANGED <<sessions, walking, faults, persisted>>

\* Slip: the departed session is saved before its successor.
SaveNewOldFirst(h) ==
    /\ handling[h].pc = "saveNew"
    /\ Put(handling[h].id, handling[h].oldDoc)
    /\ persisted' = persisted \cup {handling[h].id}
    /\ handling' = [handling EXCEPT ![h].pc = "saveOld"]
    /\ UNCHANGED <<nextId, walking, faults>>

SaveNew(h) ==
    /\ handling[h].pc = "saveNew"
    /\ Put(handling[h].new, handling[h].newDoc)
    /\ persisted' = persisted \cup {handling[h].new}
    /\ handling' = [handling EXCEPT ![h].pc = "saveOld"]
    /\ UNCHANGED <<nextId, walking, faults>>

SaveOld(h) ==
    /\ handling[h].pc = "saveOld"
    /\ Put(handling[h].id, handling[h].oldDoc)
    /\ persisted' = persisted \cup {handling[h].id}
    /\ Goto(h, Idle)
    /\ UNCHANGED <<nextId, walking, faults>>

(* DELETE /xnet/DeleteSessions and the exit-time teardown: find a console's
   sessions, then delete the documents one by one. *)
FindConsoleSessions(h, mac) ==
    /\ handling[h] = Idle
    /\ LET mine == {i \in Ids : Found(i) /\ sessions[i].mac = mac}
       IN  /\ mine # {}
           /\ Goto(h, [pc |-> "purge", ids |-> mine])
    /\ UNCHANGED <<sessions, nextId, walking, faults, persisted>>

HardDelete(h, id) ==
    /\ handling[h].pc = "purge"
    /\ id \in handling[h].ids
    /\ Remove(id)
    /\ LET rest == handling[h].ids \ {id}
       IN  Goto(h, IF rest = {} THEN Idle ELSE [pc |-> "purge", ids |-> rest])
    /\ UNCHANGED <<nextId, walking, faults, persisted>>

(* The TTL index: a document nobody saved for an hour is removed. *)
Expire(id) ==
    /\ Found(id)
    /\ Remove(id)
    /\ UNCHANGED <<nextId, handling, walking, faults, persisted>>

(* A database call of one handler rejects, or the server stops. *)
Fail(h) ==
    /\ handling[h] # Idle
    /\ faults < MaxFaults
    /\ faults' = faults + 1
    /\ Goto(h, Idle)
    /\ UNCHANGED <<sessions, nextId, walking, persisted>>

Crash ==
    /\ faults < MaxFaults
    /\ faults' = faults + 1
    /\ handling' = [h \in Handlers |-> Idle]
    /\ walking' = [r \in Readers |-> Idle]
    /\ UNCHANGED <<sessions, nextId, persisted>>

(* resolveLiveSession: GET /sessions/:id finds the document ... *)
StartWalk(r, id) ==
    /\ walking[r] = Idle
    /\ Found(id)
    /\ sessions[id].migration # 0
    /\ walking' = [walking EXCEPT ![r] =
         [pc |-> "walk", cur |-> id, next |-> sessions[id].migration,
          seen |-> {}]]
    /\ UNCHANGED <<sessions, nextId, handling, faults, persisted>>

\* ... and while it has a pointer and was not seen, goes where it points.
Step(r) ==
    /\ walking[r].pc = "walk"
    /\ LET w == walking[r]
       IN  /\ w.next # 0
           /\ w.cur \notin w.seen
           /\ Found(w.next)
           /\ walking' = [walking EXCEPT ![r] =
                [pc |-> "walk", cur |-> w.next,
                 next |-> sessions[w.next].migration,
                 seen |-> w.seen \cup {w.cur}]]
    /\ UNCHANGED <<sessions, nextId, handling, faults, persisted>>

\* Slip: a reader whose successor is gone looks for it again.
EndWalkUnlessLost(r) ==
    /\ walking[r].pc = "walk"
    /\ walking[r].next = 0 \/ walking[r].cur \in walking[r].seen
    /\ walking' = [walking EXCEPT ![r] = Idle]
    /\ UNCHANGED <<sessions, nextId, handling, faults, persisted>>

\* It answers with what it holds: no pointer, a cycle, or a lost successor.
EndWalk(r) ==
    /\ walking[r].pc = "walk"
    /\ LET w == walking[r]
       IN  \/ w.next = 0
           \/ w.cur \in w.seen
           \/ w.next # 0 /\ ~Found(w.next)
    /\ walking' = [walking EXCEPT ![r] = Idle]
    /\ UNCHANGED <<sessions, nextId, handling, faults, persisted>>

Finder(h) ==
    \/ \E id \in Ids, who \in SUBSET Players \ {{}} :
          Join(h, id, who) \/ Leave(h, id, who)
    \/ \E id \in Ids, flags \in Flags : Modify(h, id, flags)
    \/ \E id \in Ids, keys \in SUBSET Keys \ {{}} :
          AddContext(h, id, keys) \/ AddProperties(h, id, keys)
    \/ \E id \in Ids, mac \in Macs : Authorize(h, id, mac)
    \/ \E id \in Ids, mac \in Macs, host \in Hosts :
          Migrate(h, id, mac, host)
    \/ \E mac \in Macs : FindConsoleSessions(h, mac)

Writer(h) ==
    \/ Save(h) \/ SoftDelete(h) \/ SaveNew(h) \/ SaveOld(h)
    \/ \E id \in Ids : HardDelete(h, id)

Reader(r) ==
    \/ \E id \in Ids : StartWalk(r, id)
    \/ Step(r)
    \/ EndWalk(r)

Next ==
    \/ \E id \in ClientIds, mac \in Macs, host \in Hosts,
          flags \in Flags : Create(id, mac, host, flags)
    \/ \E h \in Handlers : Finder(h) \/ Writer(h) \/ Fail(h)
    \/ \E r \in Readers : Reader(r)
    \/ \E id \in Ids : Expire(id)
    \/ Crash

Spec == Init /\ [][Next]_vars

(* Node runs every pending continuation: a handler or a reader that waits
   for the database gets its answer. *)
FairSpec ==
    /\ Spec
    /\ \A h \in Handlers : WF_vars(Writer(h))
    /\ \A r \in Readers : WF_vars(Step(r) \/ EndWalk(r))

-----------------------------------------------------------------------------
(* What holds however the handlers interleave, fail and crash.             *)

\* A hand-off pointer that a reader can see names a session whose document was
\* saved before: MigrateSession saves the new session first, so no crash and
\* no interleaving leaves a pointer to a session that never existed.
NoDanglingHandOff ==
    \A i \in Ids : Found(i) /\ sessions[i].migration # 0
                       => sessions[i].migration \in persisted

\* The cycle guard of resolveLiveSession never trips: a reader that follows a
\* chain while others migrate its sessions never comes back to one it has seen.
WalkNeverRevisits ==
    \A r \in Readers :
        walking[r].pc = "walk" => walking[r].cur \notin walking[r].seen

\* As long as its document exists, a session that was handed off stays handed
\* off, whatever stale copy is saved over it and even when it is created again:
\* no search offers it, because every search asks for an absent pointer.
HandOffNeverCleared ==
    [][\A i \in Ids :
          (Found(i) /\ sessions[i].migration # 0 /\ sessions'[i] # NoDoc)
              => sessions'[i].migration # 0]_vars

\* Every GET of a migrated session is answered: resolveLiveSession stops.
ResolveTerminates ==
    \A r \in Readers : walking[r].pc = "walk" ~> walking[r].pc = "idle"
=============================================================================
