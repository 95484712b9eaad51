# A TLA+ model of Xenia-WebServices

Xenia-WebServices is the NestJS server behind Xenia Canary's netplay: it stands
in for Xbox LIVE.  Consoles call it over HTTP and keep one WebSocket open for
live events; all durable state is in MongoDB, through Mongoose.  This directory
models the parts of it that keep state, checks them with TLC on small
instances, and proves the invariants that matter most, for every value of the
constants, with TLAPS.

One fact shapes every model here.  A request handler is a straight-line `async`
function: it reads a document, changes a copy in memory, and writes the copy
back.  Every `await` in it lets any other handler run, no transaction joins the
read to the write, and a rejected database call leaves what was written so far.
So a handler is modelled as a process that holds one request *in flight*; an
action is what runs between two awaits that touch shared state; and the steps
of different handlers interleave freely.

## 1. The system and its components

| component | state | operations that change it | talks to |
|---|---|---|---|
| Session store and hand-off (`Session.ts`, `SessionRepository.ts`, the session command handlers, `session.controller.ts`) | `sessions` collection, one document per game session, 1 h TTL | create, join, leave, modify, contexts, properties, migrate, delete, delete-all | Players (hosts and joiners), Recent (`captureJoin`), Leaderboards (stat posts), Teardown |
| Leaderboards and arbitration ledger (`Leaderboard.ts`, `UpdateLeaderboardCommandHandler.ts`, `LeaderboardRepository.ts`) | `leaderboards` rows; `arbitrationreports` under a unique index, 7 d TTL | one report: claim or compare, find, update, save | called by the session controller for every view and player of a post |
| Parties and invites (`party.service.ts`) | `parties` (10 min TTL), `partyinvites` (1 min TTL) | create, invite, join, decline, leave, poll with reaping, dissolve | Live events (pushes), Teardown (`leaveByXuid`), snapshots (`poll`) |
| Live events and presence (`events.service.ts`, `events.gateway.ts`) | in memory: xuid -> open sockets; timers | connect, disconnect, heartbeat, `isOnline` (which prunes), push | Accounts (tokens), Party and Friends (snapshot), Teardown (grace timer) |
| Exit teardown (`teardown.service.ts`, `goodbye.controller.ts`) | none of its own | sessions of the console, its player's presence, its party | Sessions, Players, Party |
| Friends (`friends.service.ts`) | `friendships`, one per unordered pair, unique index | request, accept, decline, remove | Players (presence), Live events |
| Session contexts, properties and QoS files (`Property.ts`, `Session.ts`, `session.controller.ts`, `SessionRepository.ts`) | the `context` and `properties` of a session; a file per session id | set contexts, set properties, list; upload, delete with the session | Sessions, Teardown |
| Recent players (`recent.service.ts`) | `recents`, one per ordered pair, capped per owner | capture on join, remove, clear, trim | called by the join handler |
| Accounts and tokens (`auth.service.ts`) | credentials, auth tokens with a TTL | register or re-issue, recover, revoke, verify | Live events, guard of the HTTP routes |
| Players and presence records (`Player.ts`, `PlayerRepository.ts`, `player.controller.ts`) | `players`, 1 d TTL | create, presence, settings, delete profiles; also written by session create, join, leave, migrate and by the teardown | nearly everything |
| Title storage (`xstorage.controller.ts`, `XStorage*Handler.ts`) | files on disk, in a clip, a user and a title area | upload, download, delete, enumerate, build path | none |
| Log proxy (`logs.service.ts`) | in memory: request times per address | rate limit, forward | an external log service |
| Session statistics page, titles, network bootstrap, value objects | none | read-only pages, static files, binary conversions | |

### What is hard in each, and what makes it correct

- **Session store.**  Whole-document upserts from stale copies.  A migration is
  two saves and a pointer from the departed session to its successor, which
  readers follow.  Correct when: no pointer is dangling, chains are finite and
  acyclic, a hand-off is never undone, a client that was answered finds what it
  was promised.
- **Leaderboards.**  Every console of a game reports the same result at nearly
  the same time.  Correct when: an arbitrated result is applied exactly once,
  as its claim records, and a row is the aggregate of what was reported.
- **Parties.**  Roster changes of several members at once, with Mongoose's
  version check on some saves and not on others; idle members are reaped by
  whoever polls.  Correct when: the owner is in the roster, nobody is lost or
  brought back by someone else's write, the cap holds, only the idle are reaped.
- **Live events.**  A connection is registered after an await; a close may be
  handled before, between or after; reads prune; timers are never cancelled.
  Correct when: presence follows the sockets, a console that stays away is torn
  down, one that comes back is not.
- **Teardown.**  Runs from two triggers, best-effort, over three stores.
  Correct when: it is idempotent and never touches a console that is back.
- **Friends.**  Find-then-create under a unique index; two players who ask each
  other at once; an accept whose request is withdrawn between its find and its
  save.  Correct when: a pair has one bond, and only the player who was asked
  makes it a friendship.
- **Recent players.**  Concurrent captures trim one list.  Correct when: it
  ends with the newest entries, at most the cap.
- **Accounts.**  Racing claims; re-issue, recover and revoke overlapping.
  Correct when: an xuid has one owner, a token comes from a password of its
  account, and a recovery leaves no older token behind.
- **Players.**  A whole-record overwrite from every caller's copy.  Correct
  when: an update is lost to an overlapping one only, and a request's settings
  are saved together or not at all.
- **Title storage.**  Files are looked at synchronously and read, written and
  unlinked asynchronously.  Correct when: a file is what its first upload was,
  within the limit of its area, and a download sends what it announced.
- **Log proxy.**  A window that is pruned on use; a byte count in the middle of
  a stream whose two ends can stop it.  Correct when: neither is off by one, in
  any order of endings.
- **Contexts and QoS files.**  Numbers that are read unsigned and written
  signed; files that two deleting walks race for.  Correct when: what a session
  stores can be listed again, and a session leaves no file to its successor.

`PROJECT.json` lists the hazards one by one, each at its line of the source.

## 2. Modules

| module | models | role |
|---|---|---|
| `Sessions` | the `sessions` collection, its command handlers, the hand-off reader, the TTL index, failures and crashes | specification and properties |
| `SessionPromises` | `Sessions` with what clients were answered, as history | specification and properties |
| `MCSessions`, `MCSessionPromises` | | instances for TLC |
| `SessionsProofs` | | theorems about `Sessions` and `SessionPromises` |
| `Leaderboards` | rows, the ledger, one command per handler | specification and properties |
| `Lists`, `ListsProofs` | filtering and summing a list, for `Leaderboards` and `Logs` | recursive functions; lemmas about them |
| `MCLeaderboards` | | instances |
| `LeaderboardsProofs` | | theorems about `Leaderboards` |
| `Membership` | who may get into a party and who may leave it, with no documents, versions or awaits | abstract specification |
| `Party` | parties, invites, the operations of `PartyService`, reaping, TTL, the version check | specification, which implements `Membership`, and properties |
| `PartyOverlaps` | `Party` with a record of which requests overlapped, as history | specification and properties |
| `MCParty`, `PartyProofs` | | instances; theorems about `Party` and `PartyOverlaps` |
| `Presence` | the socket registry, the gateway's handlers, heartbeat, grace timer, teardown, restarts | specification and properties |
| `MCPresence`, `PresenceProofs` | | instances; theorems about `Presence` |
| `Players` | player records, and every request that reads one and saves a copy | specification and properties |
| `MCPlayers` | | instance |
| `Friendship` | what a friendship is, with no documents, requests or awaits | abstract specification |
| `Friends` | the `friendships` collection and the friends service | specification, which implements `Friendship` |
| `Recent` | `recentencounters`: capture, upserts, trims | specification and properties |
| `Accounts` | credentials and tokens, and the requests of `auth.service` | specification and properties |
| `PeopleProofs` | | theorems about `Players`, `Friends` (the refinement among them), `Recent` and `Accounts` |
| `Storage` | files and directories of title storage | specification and properties |
| `Logs` | the gate, the rate window, the capped stream | specification and properties |
| `SessionProperties` | contexts and properties of a session, with their wire form | specification and properties |
| `Qos` | QoS files and the walks that delete them | specification and properties |
| `UploadsProofs` | | theorems about `Storage`, `Logs`, `SessionProperties` and `Qos` |
| `MCServices` | | instance of the eight services from `Players` to `Qos`, and of `PartyOverlaps` |
| `ServicesProofs` | | theorems about the composition in `MCServices` |

A definition whose comment starts with `Slip:` is not part of the model: it is
the mistake a change to the code could make at that place, and is named in
`PROJECT.json` next to the property that detects it.

### Sessions

`sessions` maps an id to its document or to `NoDoc`.  A document keeps what the
operations of the aggregate read or change: the console, the host, the members,
the flags, the soft delete, context and property keys, and the migration
pointer (0 when the field is absent).

| code | action |
|---|---|
| `CreateSessionCommandHandler` (saves without a read) | `Create` |
| find of join, leave, modify, context, property; then their save | `Join`, `Leave`, `Modify`, `AddContext`, `AddProperties`; `Save` |
| `DELETE /sessions/:id`: ownership check, then the handler's own read, then its save | `Authorize`, `SoftDelete`, `Save` |
| `MigrateSessionCommandHandler`: find, save the new one, save the old one | `Migrate`, `SaveNew`, `SaveOld` |
| `DeleteSessions` and the session hook of the teardown | `FindConsoleSessions`, `HardDelete` |
| TTL index on `updatedAt` | `Expire` |
| `resolveLiveSession` of `session.controller.ts` | `StartWalk`, `Step`, `EndWalk` |
| a rejected database call; the server stops | `Fail`, `Crash` |

`Upsert` is what Mongoose does with a whole copy: `findOneAndUpdate` leaves a
field alone when its value is `undefined`.  Two fields of the copy can be: the
pointer and the host's xuid.  That a stale copy cannot erase a pointer rests on
nothing else, so it is in the model and not abstracted away.

Ids are numbered in the order they come into use: those clients choose first,
then those `GenerateSessionId` draws.  A collision of two random 48-bit draws is
not modelled.

`SessionPromises` adds, per session, the joins that were answered and not
undone (`seated`), and the hand-offs that were answered (`handoffs`); and what
says how much an overlap can spoil: the joins saved while another request held a
copy of the session (`exposed`), the hand-offs saved while another copy with a
pointer was held (`rivalled`), and the handlers whose copy another save has made
stale (`overtaken`).  No guard reads any of them.  With one request at a time
nothing is ever exposed, rivalled or overtaken.

### Leaderboards

A handler is one `UpdateLeaderboardCommand`, because the controller starts the
commands of one request in parallel.  `Claim` is the insert that the unique
index lets through, `Duplicate` the one it refuses (the comparison with the
stored report only logs), `Accept` a report of a view that is not arbitrated.
`Find` reads the row and computes the new one (`Update`, with the seeding of a
stat the row lacks as the code does it); `Save` writes the whole row.  `applied`
is history: the reports saved to each row, in order, and so is `overlapped`: the
rows that some report read while another for the same row was about to be saved.
A report carries whatever stats it likes.  `IsStored` is what the code makes of the
reports of a row: the aggregate by the stat's method, but with the first value of a
summed stat twice when the row's first report lacked it (`Update` seeds the stat
and then adds).  `IsAggregate` is what it should be.
Reports are taken to arrive within the seven days a claim is kept.

### Party

Mongoose's behaviour is part of the meaning of this service, and the model takes
it from the document operations the service performs.  Assigning `members`
anew becomes a `$set` of the whole array, checked against and moving the
document's version.  Setting `lastPoll` of a member becomes a positional `$set`,
checked but not moving.  `push` becomes `$push`, which moves the version without
a check.  Versions only grow, so a request remembers only whether the version it
read is still `current`.  `deleteOne` is unconditional.

Time is two booleans' worth: a member is `fresh` until thirty seconds have
passed since its `lastPoll` (`Lapse`).  A party's ten-minute TTL is refreshed by
whatever refreshes its invites' one-minute TTL, so `ExpireParty` waits until no
member is fresh and no invite is left.

`Membership` says what all of this promises of who is in a party: a player gets
in by three turns of several people (somebody begins to invite, the invitation is
given, the player begins to join while it is there), the owner stays, and what has
ended stays ended.  Under the refinement mapping a party is its owner and the set
of its people (`Rosters`), the ids drawn are those below `nextId`, and `PartyCalls`
are the requests between two of their awaits: an invite that has found its party,
a join that has been admitted and has not pushed.  A join whose invite is declined
or has expired by the time it pushes is such a call, so the abstract specification
allows it.

`PartyOverlaps` adds two records.  `crowd` is, per party, the most joins that were
past the cap check and had not pushed yet at the same time (1 when joins come one
by one).  `returned` has the players whose `lastPoll` was saved after a poll that is
still about to write, or to dissolve, read the party.

### Presence

A socket of the model stands for one connection.  `wire` is what the server can
see of it, plus one thing it cannot: a `dead` socket is half-open, its
`readyState` still `OPEN`.

| code | action |
|---|---|
| `handleConnection` with `?xuid=` (no wait before `register`) | `Connect` |
| with `?token=`: `verifyToken`, then register or `close(1008)` | `ConnectWithToken`, `Resolve`, `Refuse` |
| the snapshot is sent, `presenceFor` reads `isOnline` | `Announce` |
| the close event: `unregister` and whether it was the last | `Close` |
| snapshot and delta for the others, `setTimeout` | `Arm` |
| the timer: `isOnline`, and a teardown if not | `Fire` |
| any reader of presence | `ReadPresence` |
| the 15 s interval; a pong | `Heartbeat`, `Pong` |
| `teardown`: address, then sessions, presence record, party; each caught | `FindMac`, `RunHook`, `FailHook` |
| `POST /goodbye` | `Goodbye` |

`isOnline` prunes, so every action that asks it changes the registry.  A hook is
one step here; what it reads and writes in between is in `Sessions`
(`FindConsoleSessions`, `HardDelete`) and `Party` (`FindPartyOf`, `LeaveFound`).
The polls of a party that a snapshot makes are `Party`'s `Poll`.  A rejected
database call in the gateway is caught by nobody and stops Node, so it is
`Crash`, which empties the registry and forgets every timer.

A timer that the console's return has passed over is `crossed`; no guard tells
it from an `armed` one, which is the point of `GraceKept`.

### Players

A record is one document of `players`.  Every handler that changes one reads a
`Player`, changes fields of the copy and executes `UpdatePlayerCommand`, which
looks the player up again, overwrites *every* field with the copy's and saves.

| code | action |
|---|---|
| `POST /players`; its TTL; `GET /players/deletemyprofiles` | `Register`; `ExpirePlayer`; `FindMyProfiles`, `DeleteMyProfiles` |
| `setpresence`, `prejoin`, `join`, `leave`, `migrate` | `SetPresence`, `PreJoin`, `JoinSession`, `LeaveSession`, `MigrateSession`: what each writes, and to whom |
| `setsettings` (reads all its players first) | `SetSettings` |
| session create, modify, delete: the host's state | `ReadHost`, `CreateSession`, `ModifySession`, `CheckOwner`, `DeleteSession` |
| `DELETE /DeleteSessions`, teardown | `PurgeConsole`, `FindOwner` |
| `GetPlayerQuery`; the command's own lookup; its save | `ReadPlayer`, `FindAgain`, `SavePlayer` |

A session is here only what these handlers look at, and a session command is one
step, since its own find and save are in `Sessions`.  `serially` is history: the
records, had each change been made to the record instead of to a copy.
`crossed` records of whom two requests held a copy at once.

### Friends, and what it implements

`Friendship` says what a bond between two players may become: asked for by one,
agreed to by the other, friends, ended.  `Friends` has the documents, and every
`await` of `friends.service`: `FriendRequest` and `FriendAccept` (find),
`CreateRow` (under the unique index), `SaveRow` (by `_id`, which fails when the
document is gone), `Tell` (names are read, events pushed), `RemoveFriend`,
`ListRead`, `ListAnswer`, and `CallFails`.  The refinement mapping `Bond` takes a
document to its bond; `agreed`, who has said yes to the document as it stands, is
history in one and state in the other.

`line` is a player's socket and `sees` what its client last heard.  `events.push`
drops an event for a player without an open socket, so `Tell` reaches whom it is
about only where `line` is registered; the answer of a request reaches the caller
in any case.  `Connect` registers a socket, `SnapshotRead` and `ListAnswer` are the
snapshot it gets, the latter also the answer of `GET /friends`; `Disconnect` and
`ServerStops` take the socket away.  A player has one connection here, and it ends
when the player can no longer hear it, whether or not the server has noticed: what
the registry believes of a socket is `Presence`'s matter.  `astray` has whom an
overlap or a failed request may have left behind since the last list or snapshot.

### Recent

`CaptureJoin` computes the directed pairs as `pairsForJoin` does (as a set: each
two who meet give two edges, and nobody meets themselves); `TagsRead` takes
the time after the gamertags arrived; `Upsert` is one of the upserts that run at
once; when the last has settled, each touched list has `TrimFind`, a query for
what is beyond the cap, and `TrimDelete`, by `_id`.  Each has its failure.
A document that was deleted and met anew has another `_id`, so a trim in flight
no longer finds it (`Forgetting`).

### Accounts

One database call of `auth.service` per action: `RegisterOrReissue`, `Claim`,
`Reread` (after a lost race), `Mint`, `IssueToken`, `Recover`, `ResetPassword`,
`PurgeTokens`, `Revoke`, `VerifyToken` with `SlideToken` and `DropToken`, and the
passing of time (`GoesStale`, `ExpireToken`).  A token of the model knows the
password it was minted on, which the code's does not; only properties read it.

### Storage

A content is a number of equal blocks and a file the sequence of contents its
blocks come from, so that two writes of one file mix as they do on a disk.
`Upload` looks and, after `MakeDir`, `OpenFile` truncates and `WriteBlock` writes;
`Download` looks, `StatFile` announces, `StreamFile` reads, and stops the process
when the file is gone; `DeleteUserFile` and `Unlink` turn a write in progress into
an `orphan`.  The three areas differ in their limits and in who may delete:
`ClipArea`, `UserArea`, `TitleArea`.  `IOFails` and `CrashStorage` leave what was
written so far.

### Logs, SessionProperties, Qos

`Logs` is `gate`, `pruneAndCheck` and `forward`: chunks arrive and the backend
answers or fails in any order.  Its answer may come before it has read the log
(`BackendAnswers`), and its body is awaited while chunks go on (`RelayAnswer`): the
backend's status is relayed, whatever it is, even when the cap is hit in between.  A
client that goes away ends nothing (`pipe` does
not pass its end on): the upload just stays.

`SessionProperties` has the wire form byte by byte, over a base that stands for
256: `ParseProperty`, `SerializeContext`, and where each throws.
`SessionPropertySet` parses, looks up and logs (which throws before anything is
stored), then `SetRequestContexts` and `SetRequestProperties` are the two
commands; `SessionContextSet` stores with no log.

`Qos` has the deleters of a session's file.  In the walk of `deleteSessions`,
`DeleteListed` deletes a document and looks for the file, `UnlinkQos` unlinks it, and
a rejected unlink ends the walk.  The soft delete of `DELETE /sessions/:id` is
`FindDeparted` and `SaveDeparted`, which looks too, and then the same `UnlinkQos`.
A file is at the path that its upload's URL spells (`QosUpload`), and every deletion
looks for the one spelling the server has of a title and an id (`Normal`): a file
of another spelling is never found.

## 3. What the runs show

| run | instance | checked |
|---|---|---|
| `sessions_concurrent` | 2 requests and 1 reader, 1 client id and 2 migrations (chains of three sessions), 1 failure or crash | `TypeOK`, `NoDanglingHandOff`, `WalkNeverRevisits`, `HandOffNeverCleared`, `ResolveTerminates` |
| `session_promises_joinlost` | 2 requests, 2 players | `AnsweredJoinKept` is violated |
| `session_promises_concurrent` | 2 requests, 1 client id, 1 host and 1 other player, 2 migrations, 1 failure or crash; the fewer players the more migrations (`FewTogether`) | `OnlyExposedJoinsLost`, `OnlyRivalledHandOffsLost`, `OnlyOvertakenTakeBack` |
| `leaderboards_overlap` | 2 commands, 2 sessions, 1 arbitrated row and 1 other, a stat for each aggregation method, of which a report carries some, 3 reports, 1 failure | `TypeOK`, `AppliedAtMostOnce`, `AppliedAsClaimed`, `ClaimedIsApplied`, `RowsAddUp` |
| `leaderboards_newstat` | 1 command at a time, a summed stat that may come late | `RowIsAggregate` is violated |
| `party_overcap` | 2 requests, 3 players, a cap of 2 | `MembersCapped` is violated |
| `party_reaped` | 2 requests, 2 players | `OnlyIdleReaped` is violated |
| `presence_reconnect` | 1 console with 2 connections, 1 failed hook or restart | `TypeOK`, `OpenIsRegistered`, `DeadIsDropped`, `DepartureTornDown` |
| `presence_grace` | the same without faults | `GraceKept` is violated |
| `services` | see below | `ServicesTypeOK` and twenty-two properties |
| `players_newsetting` | 1 request, 2 profiles of a console, 2 settings | `NewSettingAdded` is violated |
| `qos_spelling` | 1 session, 2 spellings, 1 deletion | `QosOfSessionDeleted` is violated |

The services share no state with each other.  A property of one of them holds of
their composition exactly when it holds of it alone, so a behaviour of this run
chooses one service at the start and leaves the others at rest (`EachServiceAlone`,
in section 4, is that argument as a lemma); the reachable
states are those of the services side by side, not their product.  It is explored up to the
interchange of the players of a party:
its properties are invariants and action properties, none of liveness.

| service | instance in `services` | checked |
|---|---|---|
| `Players` | 2 requests in flight, 2 started, 2 profiles of one console, a chosen and a drawn session id, 2 settings | `UncrossedUpdatesKept`, `SettingsAllOrNothing` |
| `Storage` | 2 requests, a file of the user area (limit 1) and a clip (limit 2), contents of 1, 2 and 3 blocks | `FilesWithinLimit`, `StoredWhole`, `ServedAsAnnounced` |
| `Friends` | 2 requests or snapshots, 2 players with a connection each, 2 document ids | `FriendshipKept` (the refinement), `SeesTheRow` |
| `Recent` | 2 captures, 3 players, a cap of 1, 2 joins | `RecentCapped`, `NewestSurvive` |
| `Accounts` | 2 requests, 1 account, 2 passwords, 3 codes, 2 tokens | `ClaimedOnce`, `TokensFromPasswords`, `RecoveryComplete` |
| `Logs` | 1 caller, 1 upload at a time, 2 hits in a window of 3 ticks, 3 bytes, a backend that answers 200 or 413 | `RateKept`, `CapTold` |
| `SessionProperties` | 2 requests of 1 or 2 buffers, a context with the sign bit, a property cut short | `ContextsServe` |
| `Qos` | 2 sessions, 2 deletions, each a walk or a soft delete, 1 spelling | `QosPurged` |
| `PartyOverlaps` | 2 requests, 3 players, a cap of 2, 1 party, 1 failure | `OwnerIsMember`, `NobodyElseChanged`, `MembershipKept` (the refinement), `CapPassedTogether`, `SeatsTakenTogether`, `OnlyAwayReaped` |

Every passing run of a component whose requests can overlap has two requests in
flight.  Some promises hold however they overlap.  Others hold unless two requests
about the same thing do, because no save checks what it overwrites; their properties
say by a history variable *what* an overlap can spoil (`exposed`, `rivalled`,
`overtaken`, `overlapped`, `crowd`, `returned`, `crossed`, `disturbed`, `unsettled`,
`astray`, `tangled`, `remet`, `untrimmed`, `purged`, `leaked`, `unchecked`) and that
it spoils nothing else: what does not overlap is checked beside what does, and what an
overlap does is bounded.  A party passes its cap by no more than the joins that were
past the check together; a save takes something back only from a copy that another
save has overtaken.

The violation runs show promises that a comment or a test of the repository makes and
the code breaks: three by overlap (`session_promises_joinlost`, `party_overcap`,
`party_reaped`), one by a timer that is not cancelled (`presence_grace`), one by two
spellings of a path (`qos_spelling`), two within a single request
(`leaderboards_newstat`, `players_newsetting`).  The seven findings are in
`PROJECT.json` with the sentence each one is measured against.

Why the bounds are enough for what they claim:

- Two requests in flight give every read-read-write-write order of two copies,
  which is what a lost update needs; a third would only repeat it.
- Three session ids give a chain of two hand-offs, a re-creation of the first
  session in mid-chain, and a migration retried after a crash between its two
  saves.  One fault reaches every point between two writes.  `sessions_concurrent`,
  whose properties are about pointers only, has no players; in
  `session_promises_concurrent` the constraint `FewTogether` lets a state have
  two players and no migration, one and one, or none and two.  One migration loses
  or keeps one player's join; two make rivals.  Neither has context or property keys:
  an array of keys is saved with the rest of a copy, as the deletion flag is, and what
  is said of keys is proved.
- Three reports over two sessions and two rows give duplicates, an unarbitrated
  repeat, two rows in flight, two commands for one row, and a stat that is new,
  present and absent again.  Of two sets of stats a report carries, each lacks some of
  the other's (`MostStats`), so every stat can be late.
- A cap of two with three players is the smallest party with a contended last seat:
  two joins pass the check together and the third member is one too many.
  `MaxSeats` leaves room for every push the instance can make.
- Consoles share nothing in the registry but the heartbeat, so one is enough.
  Two connections of it give the reconnect races: a close that comes late, a
  socket registered after it closed, two timers.  The console's requests leave
  all three things at once; overlapping teardowns and faults then produce every
  remainder.
- Two requests on one player record, one pair, one list, one account or one file
  are what an overwrite, a create race or a late delete needs.  Two profiles of
  one console separate a console's records from each other; two settings separate
  all from some; a content that is larger than another's limit and smaller than
  its own separates the areas; a second document id shows a save by `_id` missing
  a row that was made anew.
- A cap of one with three players is the smallest list with something to trim;
  two joins, of two players and another one, give a list a newer and an older entry.
- `services` has one spelling of a QoS path, since files of the others are only ever
  written; `qos_spelling` has two.
- A window of three ticks and a clock of five let a window slide past its first
  hits.  A base of 2 gives every bit of a number, the sign bit among them.
- `MaxMigrations`, `MaxReports`, `MaxParties`, `MaxFaults`, `MaxRequests`,
  `MaxJoins` and `MaxClock` bound counters that the code does not bound.  The ids
  that `Friends` and `Accounts` draw from are reused when nothing refers to them
  any more.

The leaderboards, party, players and services configurations turn deadlock
checking off: once the bounded number of reports, parties, requests or joins is
used up, nothing is left to do.  The session, presence and QoS configurations check
it: a host can always create, a console can always play, a file can always be
uploaded.

**Fairness.**  `sessions_concurrent` assumes
weak fairness of a handler's continuation (`Writer`) and of a reader's
(`Step` or `EndWalk`): Node runs every continuation whose database call has been
answered, and the driver answers or rejects every call.  Nothing is assumed of
clients, of failures, or of expiry.  `ResolveTerminates` then says that a reader
gets to the end of a chain that others may extend, expire and re-create while it
walks: a reader only goes forward, over ids that were drawn.

`presence_reconnect` assumes weak fairness of the heartbeat interval, of each
socket's continuations, close event and timer, and of the steps of a teardown;
nothing of the console, which may never connect, answer, close or play.  A failed
hook or a restart is never forced and never excluded: `DepartureTornDown`
excepts what it took away, and nothing else.

## 4. What is proved

Eight modules hold theorems: `SessionsProofs`, `LeaderboardsProofs`,
`ListsProofs`, `PartyProofs`, `PresenceProofs`, `PeopleProofs`, `UploadsProofs`
and `ServicesProofs`.  Each theorem is about the specification of the module it
names, for every value of the constants that satisfies that module's named
assumptions: bounds are naturals, an absent document is not a document, hosts are
players or `NoXuid`, every socket has an owner, every content has a size, there are
finitely many paths and players met, joins list players, a base of numbers is at
least 2, buffers hold naturals, a posted context is a pair of integers.  No theorem
bounds how many requests overlap, and none assumes more than these.

**Sessions.**  `TypeCorrect`, `HandOffTargetSaved` (`NoDanglingHandOff`),
`WalkIsSimple` (`WalkNeverRevisits`), `HandOffIsFinal` (`HandOffNeverCleared`).
The invariant behind the second says where pointers may be: in a stored document,
in a copy that waits to be saved, or in a reader's hand, and in each place they
name an id that has been saved; a migration's own new id is exempt until
`SaveNew`.  The invariant behind the third says that pointers only go *forward*,
to ids drawn later than the one they are found at, in all three places; what a
reader has `seen` lies behind what it holds.  So the cycle guard of
`resolveLiveSession` is a precaution that never fires, for any number of handlers,
readers, migrations and crashes.  Neither property is inductive alone:
`NoDanglingHandOff` says nothing about the copy a save is about to write.

**Session promises.**  `SavesOnlyAdd` (`OnlyOvertakenTakeBack`), `JoinsAreKept`
(`OnlyExposedJoinsLost`), `HandOffsAreFollowed` (`OnlyRivalledHandOffsLost`).  A copy
that waits to be saved and is not `overtaken` *extends* the stored document (deleted
if it is, with all its keys, and its pointer if it has one), both copies of a migration
included; only `CreateSession`, which saves what it did not read, starts over.  Of a
seat that is not `exposed`, every copy in flight of its session was read
after it was saved, so it has the player, but where the copy's own request lets the
player go.  Of a session with a hand-off that is not `rivalled`, every copy in flight has
the pointer the answer named or none, a copy with none does not touch the stored one, and
no migration of that session is between its saves.  Nothing is stored under a
migration's new id before `SaveNew`, and the new session has the members of the
copy that was read.

**Leaderboards.**  `TypeCorrect`, `FirstReportOnly` (`AppliedAtMostOnce`),
`LedgerIsTrue` (`AppliedAsClaimed`).  The invariant adds that a report in flight
for an arbitrated row is the one its claim records, that no two handlers hold the
same (session, row), and that none holds one that is already applied: the unique
index alone makes it true, at `Claim`, and nothing undoes it.  `ClaimsAreApplied`
(`ClaimedIsApplied`): the lost claims are finitely many and no more than the
failures, since each step but `Fail` adds none and `Fail` adds at most the one of
its report.  `RowsAreAggregates` (`RowsAddUp`), for reports that carry whatever stats they
like: of a row that is not
`overlapped`, the stored stats are what `IsStored` makes of what was saved to it, at
most one command waits to save it, and what it will save is the stored row with its
report applied.  That one more report makes of a stored value that of a
longer list is a lemma per method; the one for `sum`, where a late stat counts its
first value twice, rests on `ListsProofs`.

**Party.**  `TypeCorrect`, `OwnerStays` (`OwnerIsMember`), `WritesMerge`
(`NobodyElseChanged`).  The invariant speaks of the writes in flight: one that is
still `current` holds the stored roster without its `gone`, and its `gone` does
not have the owner.  Whatever moves the roster under it moves the version and ends
its being current.  That is the argument for Mongoose's version check, and the
reason why the unguarded `$push` is harmless here.

`CapKept` (`CapPassedTogether`) is an account of seats.  A join is past its check when
there is room in the roster it reads in that step, and nobody but the joins past their
checks adds a member.  The invariant says that the seats of a party and the joins past
its check are together at most the cap and the crowd less one, however the joins overlap
and whoever leaves meanwhile.  A roster about to be written has no seat that the stored
one lacks, where it is still current.  `OneSeatEach` (`SeatsTakenTogether`) is the same
account of one player's seats.  `ReapsOnlyIdle` (`OnlyAwayReaped`): of a poll that is
about to write, or to dissolve, every fresh member of the stored party is kept by it or
is in `returned`; a member becomes fresh by a join, which moves the version under the
write, or by a poll, which `returned` records.  A party that is still the one the poll
read has the same owner.

`MembershipPromised` (`MembershipKept`): every step of
`Party` maps to a step of `Membership` or to a stutter.  A save writes a roster
computed from an old read, and could bring back who left since or drop who came
since; by the invariant above, one that is let through holds the stored roster
without those it takes out, so it is a `Go`, and one that would do anything else is
refused by its version.  A push adds only whom an admitted join is for.  An expired
or dissolved party is not found again, because a save is an update by `_id` and no
id is drawn twice.

**Presence.**  `TypeCorrect`, `RegistryComplete` (`OpenIsRegistered`).  The
property is inductive beside the types: sockets leave the registry only when their
own close event came or when they are found not to be open, and a socket is
identified in the step that registers it.

**Friends and recent players.**  `FriendsAreTyped`, `RecentIsTyped`; in the second,
that captures in flight hold edges between two different players only, which is
what `pairsForJoin` gives.  `FriendshipPromised` (`FriendshipKept`): every
step of `Friends` maps, under `Bond`, to a step of `Friendship` or to a stutter.
The invariant behind it is about the saves in flight: one whose document is still
the pair's was begun by the player who was asked, who is in `agreed`, as is the
one who asked.  That it is the same document rests on the `_id`: no new document
gets one that a save in flight still holds.  `FriendsStayInStep` (`SeesTheRow`):
of a pair that is not `overlapped` at most one request is in flight, what it is about
to tell, or what a snapshot has found, is what the document says, and a player who is
connected and not `astray` is in step when none is between its write and its telling.
Nothing is said of a player without a socket, who hears no event: the snapshot of its
next connection makes up for it.  `ListsAreCapped` (`RecentCapped`) and
`TheNewestSurvive` (`NewestSurvive`): a list is owed a trim by a capture that has
still to query it; one that none owes is within the cap, or will be by what some
trim has found; and what a trim has found is no newer than what is left, unless the
owner met someone since.

**Players and accounts.** `PlayersAreTyped`, `AccountsAreTyped`.
`OnlyCrossedUpdatesLost` (`UncrossedUpdatesKept`): a player who is not `crossed` is in
the hands of one request at most, whose copy *is* the stored record, which is the one of
the serial history.  `SettingsStayWhole` (`SettingsAllOrNothing`): that every copy and
every change in flight has all the settings of one request or none of them, also where
the loop of a request over several settings throws.  `TokensTraceBack`
(`TokensFromPasswords`): a request about to mint holds a password its account has had,
since a claim that lost proceeds only through `AfterReread`.  `FirstClaimOwns`
(`ClaimedOnce`), an action property: a claim writes only where there is no credential.
`RecoveryRevokes` (`RecoveryComplete`): of an account that is not `tangled` at most one
request is in flight; one about to purge holds the stored code, and outside of a purge
every token is of the stored password.

**Storage, QoS files, logs.** `FilesStayWithinLimit` (`FilesWithinLimit`): an upload
past its check fits, a write is before the end of its content, and the file it writes to
is there: a block then goes to a place within the limit, even in a file that two uploads
write.  `StorageIsTyped`, `QosIsTyped` and `LogsAreTyped` are proved beside it.
`FilesStayWhole` (`StoredWhole`) and `DownloadsMatch` (`ServedAsAnnounced`): a path that
is not `disturbed` has one writer at most, whose file is the part written so far, and a
file without a writer is whole; a download that is not `unsettled` has no writer beside
it and knows the size of its file.  `PurgeLeavesNoFile` (`QosPurged`) is inductive
beside the types, for walks and soft deletes: the file of the server's own spelling goes
in the step that ends the deletion's stay at its session, or is counted as leaked.
`CapIsTold` (`CapTold`): a stream is marked too large exactly when it is, and what is
relayed was replied.  `RateIsKept` (`RateKept`): the window a caller has in memory is
its whole history of allowed uploads without a number of the oldest, all of which are
out of every window to come; two uploads that are `RateMax` apart in the history are
`RateWindow` apart in time.  So pruning on use loses nothing that would count.

**Contexts and properties.** `PropertiesAreTyped`.  `ContextsAreServed`
(`ContextsServe`): the id and the value of a context that went through the log are
naturals that were read from four bytes, and the value passed `writeInt32BE`, so it is
below the sign bit.  What the four digits of a number are, and that reading them gives
the number back, are lemmas in plain arithmetic, for every base.  The invariant says it
of every stored context that is not `unchecked` and of what each request is about to
store; a context that is overwritten with no log becomes `unchecked` in that step.

**The services together.**  A behaviour of `MCServices` is a behaviour of each of its
nine specifications, because whoever moves, every other service rests (the lemma
`EachServiceAlone`, which says nothing of the code).  From it and the theorems above
follow `ServicesAreTyped` (`ServicesTypeOK`) and `ServicesKeepPromises`: everything the
run `services` checks holds of the composition for every value of its constants.

**Lists.**  What filtering or summing a list returns is needed for lists of any
length, and the library's induction theorems take an operator.  `ListsProofs`
therefore goes back to well-foundedness as a statement about *sets*: a non-empty
set of naturals has a least element, so a set with 0 that is closed under successors up to N
contains `0 .. N`.  From it follow the equations of a recursive function over
`0 .. N`, then those of `Among` and `Total`.

Only model-checked: `ResolveTerminates`, `DeadIsDropped` and `DepartureTornDown`,
liveness under fairness, which is out of this prover's reach.  Induction over data is
too, but for lists (below), and so are the seven violations, each of which is one
behaviour.  Every invariant and
every action property that a passing run checks, and both refinements, are stated
by a theorem.

## 5. What is not modelled, and why

- Of live events, the contents and the order of what is pushed, but for friends.
  The parts of a teardown are in three modules (`Presence` has the hooks, `Sessions`
  and `Party` what two of them do, `Players` the reset) that are not composed.
- Slot counts and searches of a session.  Slots are computed from the player map
  whenever a session is loaded, so that `Session.leave`, which miscounts the freed
  slot of its copy, stores nothing wrong.  Searches only read; one limits the
  number of documents before it drops full and private ones
  (`SessionRepository.ts:128`).
- The statistics page: HTML and XML over HTTP, with a cache of external answers
  (a hazard in `PROJECT.json`), which nothing else reads.
- Gamertags, display strings, titles, ports, peer keys, the layout of binary
  settings, hashing and random numbers: data that no step of the modelled state
  depends on.
- How a storage location becomes a path, and the time stamps of files.
- The value objects that validate names, addresses and settings, and the synthetic
  addresses: sequential conversions that keep no state.
- The queries that sort and page a leaderboard, the static title files, the TURN
  credentials: they read and change nothing.
- MongoDB is modelled from how the code uses it: a single-document write is
  atomic, a unique index lets one insert through, a TTL index removes a document
  some time after its date, and an `undefined` field is no part of an update.

## 6. Plan

Done: the session store, leaderboards, parties with their abstract specification,
presence; then players, friends
with their abstract specification, recent players, accounts, storage, logs,
session properties and QoS files.  Left, in order:

1. `Feed`: what the gateway sends.  A snapshot is read, awaited and sent while
   deltas are pushed to the same socket, and the presence delta of a disconnect
   races that of the reconnect: what a client holds in the end against what is
   true.
2. A teardown composed of `Presence`, `Sessions`, `Players` and `Party`: what a
   console that returns in the middle of it loses.
3. An abstract session store whose operations are atomic, implemented by
   `Sessions` with one handler; an abstract leaderboard that applies a result
   the moment it is claimed, implemented by `Leaderboards`.
4. Liveness of the services: a capture's lists are trimmed in the end, a request
   is answered.

Theorem to add: that every step of `Leaderboards` maps to a step of its abstract
specification or to a stutter.
