------------------------------- MODULE Friends -------------------------------
(***************************************************************************)
(* The friends service: `friendships`, one document per canonical pair,    *)
(* and the requests that read it, await, and write it.                     *)
(*                                                                         *)
(* A request reads the pair's document first, then creates one or saves    *)
(* the one it read, then looks up gamertags and pushes events; other       *)
(* requests run at each of these awaits.  Mongoose saves a document by its *)
(* _id and fails when it is gone; the unique index of the pair fails a     *)
(* second create.                                                          *)
(*                                                                         *)
(* `sees` is what each player last heard of a pair, by the answer of a     *)
(* request, by an event, or by the snapshot that a new connection gets.    *)
(* An event is pushed to the player's open sockets, and lost when there is *)
(* none.  A player has one connection here, which ends when the player can *)
(* no longer hear it, whenever the server notices.  Left out: names and    *)
(* presence in the answers (module Presence has isOnline); the choice      *)
(* between xuid and gamertag (a gamertag nobody has resolves to the        *)
(* default xuid, one more of Folk); requests of a player about itself,     *)
(* which find and write nothing.                                           *)
(***************************************************************************)
EXTENDS Naturals, FiniteSets

CONSTANTS
    Folk,          \* the players' xuids
    FriendCalls,   \* requests that may be in flight at the same time
    RowIds,        \* the _ids of documents
    NoRow,
    NoBond, Friendly  \* the bonds of module Friendship

ASSUME FriendsAssumption ==
    NoBond \notin Folk /\ Friendly \notin Folk /\ NoBond # Friendly

Ties == {t \in SUBSET Folk : \E x, y \in Folk : x # y /\ t = {x, y}}

\* canonicalPair: one key for both orders.
Tie(x, y) == {x, y}

Row == [id : RowIds, by : Folk, accepted : BOOLEAN]

ASSUME NoRowAssumption == NoRow \notin Row

VARIABLES
    rows,      \* the collection: pair -> its document or NoRow
    asking,    \* what each request in flight is about to do
    line,      \* each player's socket: registered ("opening"), snapshot sent
               \*   ("open"), or none
    sees,      \* what each of a pair last heard of it
    agreed,    \* history: who of a pair said yes to the document as it stands
    overlapped,   \* history: pairs of which two requests overlapped since the
               \*   pair was last at rest
    astray     \* history: the players of a pair whom an overlap or a failed
               \*   request may have left behind

friendsVars == <<rows, asking, line, sees, agreed, overlapped, astray>>

Views == {"nothing", "asked", "asks me", "friends"}

\* What a document says to `x` of the pair: list()'s three cases.
Says(row, x) ==
    IF row = NoRow THEN "nothing"
    ELSE IF row.accepted THEN "friends"
    ELSE IF row.by = x THEN "asked" ELSE "asks me"

-----------------------------------------------------------------------------
(* Requests.                                                               *)

Quiet == [pc |-> "idle"]

Calls ==
    {Quiet}
    \cup [pc : {"create", "tellAsked", "tellFriends", "tellRemoved"},
          me : Folk, to : Folk]
    \cup [pc : {"save"}, me : Folk, to : Folk, id : RowIds]
    \cup [pc : {"connect"}, me : Folk]
    \cup [pc : {"list", "snapshot"}, me : Folk, found : [Ties -> Views]]

\* The pairs a request is about; a connection has read nothing yet.
About(r) ==
    IF r.pc \in {"idle", "connect"} THEN {}
    ELSE IF r.pc \in {"list", "snapshot"} THEN {t \in Ties : r.me \in t}
    ELSE {Tie(r.me, r.to)}

Busy(t) == \E d \in FriendCalls : t \in About(asking[d])

\* Where a request says `r` now, it meets the others about its pairs.
Rivals(c, r) ==
    {t \in About(r) : \E d \in FriendCalls \ {c} : t \in About(asking[d])}

\* The _ids a document or a request in flight still holds; a new document
\* gets another one.
HeldIds ==
    {rows[t].id : t \in {u \in Ties : rows[u] # NoRow}}
    \cup {asking[d].id : d \in {e \in FriendCalls : asking[e].pc = "save"}}

\* Both players of these pairs may be left behind.
Astray(pairs) == [t \in Ties |-> IF t \in pairs THEN t ELSE astray[t]]

Crosses(pairs) ==
    /\ overlapped' = {t \in overlapped : Busy(t)} \cup pairs
    /\ astray' = Astray(pairs)

Proceeds(c, r) ==
    /\ asking' = [asking EXCEPT ![c] = r]
    /\ Crosses(Rivals(c, r))

\* A request answered without an await after its read: x hears `what`.
Answered(t, x, what) ==
    /\ sees' = [sees EXCEPT ![t][x] = what]
    /\ Crosses({u \in {t} : Busy(u)})
    /\ UNCHANGED <<rows, asking, line, agreed>>

-----------------------------------------------------------------------------
FriendsInit ==
    /\ rows = [t \in Ties |-> NoRow]
    /\ asking = [c \in FriendCalls |-> Quiet]
    /\ line = [x \in Folk |-> "off"]
    /\ sees = [t \in Ties |-> [x \in t |-> "nothing"]]
    /\ agreed = [t \in Ties |-> {}]
    /\ overlapped = {}
    /\ astray = [t \in Ties |-> {}]

\* The pending document of the pair, read by the player it was sent to.
AwaitsMe(row, me) == row # NoRow /\ ~row.accepted /\ row.by # me

\* The player who read it says yes, and its request goes on to save().
SaysYes(c, x, y, row) ==
    /\ Proceeds(c, [pc |-> "save", me |-> x, to |-> y, id |-> row.id])
    /\ agreed' = [agreed EXCEPT ![Tie(x, y)] = @ \cup {x}]
    /\ UNCHANGED <<rows, line, sees>>

(* POST /friends/request: findOne, and what it leads to. *)
FriendRequest(c, x, y) ==
    LET row == rows[Tie(x, y)] IN
    /\ asking[c] = Quiet
    /\ x # y
    /\ \/ /\ row = NoRow
          /\ Proceeds(c, [pc |-> "create", me |-> x, to |-> y])
          /\ UNCHANGED <<rows, line, sees, agreed>>
       \/ row # NoRow /\ row.accepted /\ Answered(Tie(x, y), x, "friends")
       \/ AwaitsMe(row, x) /\ SaysYes(c, x, y, row)
       \/ /\ row # NoRow /\ ~row.accepted /\ row.by = x
          /\ Answered(Tie(x, y), x, "asked")

(* POST /friends/accept: findOne of a pending document of the other's. *)
FriendAccept(c, x, y) ==
    LET row == rows[Tie(x, y)] IN
    /\ asking[c] = Quiet
    /\ x # y
    /\ AwaitsMe(row, x)
    /\ SaysYes(c, x, y, row)

(* The create of a request that found nothing. *)
CreateRow(c) ==
    LET r == asking[c]
        t == Tie(r.me, r.to) IN
    /\ r.pc = "create"
    /\ IF rows[t] = NoRow
       THEN /\ \E id \in RowIds \ HeldIds :
                  rows' = [rows EXCEPT ![t] = [id |-> id, by |-> r.me,
                                               accepted |-> FALSE]]
            /\ agreed' = [agreed EXCEPT ![t] = {r.me}]
            /\ Proceeds(c, [pc |-> "tellAsked", me |-> r.me, to |-> r.to])
       ELSE Proceeds(c, Quiet) /\ UNCHANGED <<rows, agreed>>
    /\ UNCHANGED <<line, sees>>

\* Slip: the pair is updated by its key, and created where it is missing.
SameRowByKey(row, r) == TRUE

\* save() writes the document that was read, and no other.
SameRow(row, r) == row # NoRow /\ row.id = r.id

(* The save of a document that awaited the caller. *)
SaveRow(c) ==
    LET r == asking[c]
        t == Tie(r.me, r.to) IN
    /\ r.pc = "save"
    /\ IF SameRow(rows[t], r)
       THEN /\ rows' = [rows EXCEPT ![t] = [id |-> r.id, by |-> r.to,
                                            accepted |-> TRUE]]
            /\ Proceeds(c, [pc |-> "tellFriends", me |-> r.me, to |-> r.to])
       ELSE Proceeds(c, Quiet) /\ UNCHANGED rows
    /\ UNCHANGED <<line, sees, agreed>>

(* decline, cancel and remove: deleteOne, whatever its status. *)
RemoveFriend(c, x, y) ==
    LET t == Tie(x, y) IN
    /\ asking[c] = Quiet
    /\ x # y
    /\ rows' = [rows EXCEPT ![t] = NoRow]
    /\ agreed' = [agreed EXCEPT ![t] = {}]
    /\ Proceeds(c, [pc |-> "tellRemoved", me |-> x, to |-> y])
    /\ UNCHANGED <<line, sees>>

\* What the caller is answered, and what the event tells the other.
News ==
    [tellAsked |-> [me |-> "asked", to |-> "asks me"],
     tellFriends |-> [me |-> "friends", to |-> "friends"],
     tellRemoved |-> [me |-> "nothing", to |-> "nothing"]]

\* events.push: what `y` sees after it, who saw `had`.
Pushed(y, what, had) == IF line[y] = "off" THEN had ELSE what

\* Slip: the event of an accepted request goes to the accepter only.
TellCaller(c) ==
    LET r == asking[c]
        t == Tie(r.me, r.to) IN
    /\ r.pc \in DOMAIN News
    /\ sees' = [sees EXCEPT
           ![t][r.me] = News[r.pc].me,
           ![t][r.to] = IF r.pc = "tellFriends" THEN @
                        ELSE Pushed(r.to, News[r.pc].to, @)]
    /\ Proceeds(c, Quiet)
    /\ UNCHANGED <<rows, line, agreed>>

(* The await is over (of the gamertags, or of the delete): the caller is
   answered, and the event is pushed to the other's socket, if there is one. *)
Tell(c) ==
    LET r == asking[c]
        t == Tie(r.me, r.to) IN
    /\ r.pc \in DOMAIN News
    /\ sees' = [sees EXCEPT
           ![t][r.me] = News[r.pc].me,
           ![t][r.to] = Pushed(r.to, News[r.pc].to, @)]
    /\ Proceeds(c, Quiet)
    /\ UNCHANGED <<rows, line, agreed>>

(* An awaited database call of a request is rejected, before or after it did
   its work: the caller gets a 500, and nobody is told what was written. *)
CallFails(c) ==
    /\ asking[c].pc \notin {"idle", "connect", "snapshot"}
    /\ asking' = [asking EXCEPT ![c] = Quiet]
    /\ astray' = Astray(IF asking[c].pc \in DOMAIN News THEN About(asking[c]) ELSE {})
    /\ overlapped' = {t \in overlapped : Busy(t)}
    /\ UNCHANGED <<rows, line, sees, agreed>>

(* handleConnection registers the socket ... *)
Connect(c, x) ==
    /\ asking[c] = Quiet
    /\ line[x] = "off"
    /\ line' = [line EXCEPT ![x] = "opening"]
    /\ Proceeds(c, [pc |-> "connect", me |-> x])
    /\ UNCHANGED <<rows, sees, agreed>>

Finds(x) == [t \in Ties |-> Says(rows[t], x)]

(* ... and then the snapshot reads what GET /friends does ... *)
SnapshotRead(c) ==
    /\ asking[c].pc = "connect"
    /\ Proceeds(c, [pc |-> "snapshot", me |-> asking[c].me,
                    found |-> Finds(asking[c].me)])
    /\ UNCHANGED <<rows, line, sees, agreed>>

(* GET /friends: the documents are read, then names and presence. *)
ListRead(c, x) ==
    /\ asking[c] = Quiet
    /\ Proceeds(c, [pc |-> "list", me |-> x, found |-> Finds(x)])
    /\ UNCHANGED <<rows, line, sees, agreed>>

(* The list is answered, or sent as a snapshot.  It mends what went astray
   before it, where no other request met it. *)
ListAnswer(c) ==
    LET r == asking[c] IN
    /\ r.pc \in {"list", "snapshot"}
    /\ sees' = [t \in Ties |->
                  IF r.me \in t THEN [sees[t] EXCEPT ![r.me] = r.found[t]]
                  ELSE sees[t]]
    /\ line' = IF r.pc = "snapshot" THEN [line EXCEPT ![r.me] = "open"] ELSE line
    /\ asking' = [asking EXCEPT ![c] = Quiet]
    /\ astray' = [t \in Ties |-> IF t \in overlapped THEN astray[t] ELSE astray[t] \ {r.me}]
    /\ overlapped' = {t \in overlapped : Busy(t)}
    /\ UNCHANGED <<rows, agreed>>

(* The connection breaks; a snapshot on its way is not heard. *)
Disconnect(x) ==
    /\ line[x] # "off"
    /\ line' = [line EXCEPT ![x] = "off"]
    /\ asking' = [c \in FriendCalls |->
                     IF asking[c].pc \in {"connect", "snapshot"} /\ asking[c].me = x
                     THEN Quiet ELSE asking[c]]
    /\ overlapped' = {t \in overlapped : Busy(t)}
    /\ UNCHANGED <<rows, sees, agreed, astray>>

(* The server stops, as it does when a snapshot's database call is rejected:
   nothing catches that. *)
ServerStops ==
    /\ asking' = [c \in FriendCalls |-> Quiet]
    /\ line' = [x \in Folk |-> "off"]
    /\ overlapped' = {}
    /\ UNCHANGED <<rows, sees, agreed, astray>>

FriendsNext ==
    \/ \E c \in FriendCalls :
          \/ \E x, y \in Folk :
                FriendRequest(c, x, y) \/ FriendAccept(c, x, y) \/ RemoveFriend(c, x, y)
          \/ \E x \in Folk : ListRead(c, x) \/ Connect(c, x)
          \/ CreateRow(c) \/ SaveRow(c) \/ Tell(c)
          \/ SnapshotRead(c) \/ ListAnswer(c) \/ CallFails(c)
    \/ \E x \in Folk : Disconnect(x)
    \/ ServerStops

FriendsSpec == FriendsInit /\ [][FriendsNext]_friendsVars

-----------------------------------------------------------------------------
FriendsTypeOK ==
    /\ rows \in [Ties -> Row \cup {NoRow}]
    /\ asking \in [FriendCalls -> Calls]
    /\ \A t \in Ties : sees[t] \in [t -> Views] /\ agreed[t] \subseteq t
    /\ line \in [Folk -> {"off", "opening", "open"}]
    /\ overlapped \subseteq Ties /\ \A t \in Ties : astray[t] \subseteq t

\* What a document is of the pair: the refinement mapping.
Bond == [t \in Ties |-> IF rows[t] = NoRow THEN NoBond
                        ELSE IF rows[t].accepted THEN Friendly
                        ELSE rows[t].by]

Promised == INSTANCE Friendship WITH bond <- Bond

(* The service implements module Friendship: whatever requests overlap, a
   pair has one bond, only the player who was asked turns a request into a
   friendship, and no answer to a request that was withdrawn in the meantime
   (friends.service's save after its findOne) revives it. *)
FriendshipKept == Promised!FriendshipSpec

(* At rest, who is connected is in step with the documents without a poll:
   whatever was missed while there was no connection is made up for by the
   snapshot, answers and events do the rest, and what overlapping requests or a
   failed one made wrong is right after the next list or snapshot. *)
SeesTheRow ==
    \A t \in Ties : ~Busy(t) =>
        \A x \in t \ astray[t] : line[x] = "open" => sees[t][x] = Says(rows[t], x)

=============================================================================
