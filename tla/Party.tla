-------------------------------- MODULE Party --------------------------------
(***************************************************************************)
(* Voice parties: PartyService over the `parties` and `partyinvites`       *)
(* collections.                                                            *)
(*                                                                         *)
(* An operation reads a party, changes the document in memory and saves    *)
(* what it changed.  Mongoose guards two of the saves with the document's  *)
(* version: one that writes the whole `members` array, and one that writes *)
(* the `lastPoll` of a member at its position in the array.  Both fail     *)
(* with a VersionError when the version has moved on, and the whole-array  *)
(* write and $push move it.  A $push itself is not guarded.  Versions only *)
(* grow, so a request in flight just remembers whether the one it read is  *)
(* still `current`.                                                        *)
(*                                                                         *)
(* A member is `fresh` until 30 seconds have passed since its lastPoll.    *)
(* The order of the array is left out; `seat` tells apart the entries of a *)
(* player who is in it twice.  Left out too: gamertags and peer keys, the  *)
(* events pushed to members, and operations that end in their first checks *)
(* with nothing changed.                                                   *)
(***************************************************************************)
EXTENDS Naturals, FiniteSets

CONSTANTS
    Handlers,    \* requests that may be in flight at the same time
    Players,     \* xuids, all of them logged in
    MaxMembers,  \* MAX_PARTY_MEMBERS
    NoParty,     \* no document has this id
    MaxParties,  \* bound: how many parties are created
    MaxSeats,    \* bound: how many entries a party may have
    MaxFaults    \* bound: how many requests fail half-way

PartyIds == 1..MaxParties
Seats == 1..MaxSeats
Entry == [xuid : Players, seat : Seats, fresh : BOOLEAN]
Doc == [owner : Players, members : SUBSET Entry]

ASSUME PartyAssumption ==
    /\ MaxMembers \in Nat \ {0}
    /\ MaxParties \in Nat
    /\ MaxSeats \in Nat \ {0}
    /\ MaxFaults \in Nat
    /\ NoParty \notin Doc \cup [owner : Players, people : SUBSET Players]

VARIABLES
    parties,  \* id -> its document or NoParty
    nextId,   \* the next id randomUUID draws
    invites,  \* the pending <<party, invited player>>
    handling, \* what each handler has in flight
    faults    \* requests that failed so far

vars == <<parties, nextId, invites, handling, faults>>

Idle == [pc |-> "idle"]

\* `create` has its owner, the others a party and the player it is about.
Asking == [pc : {"create"}, who : Players]
              \cup [pc : {"invite", "admit", "push", "keep", "consume", "leaving"},
                    party : PartyIds, who : Players]
\* A lastPoll, or a members array without the players in `gone`, to be saved.
Stamping == [pc : {"stamp"}, party : PartyIds, who : Players, current : BOOLEAN]
Rewriting == [pc : {"write"}, op : {"leave", "reap"}, party : PartyIds,
            members : SUBSET Entry, gone : SUBSET Players, current : BOOLEAN]
\* A party to be deleted, because its owner left or was found idle, and then
\* the invites to it.
Dissolving == [pc : {"dissolve"}, op : {"leave", "reap"}, party : PartyIds]
                  \cup [pc : {"sweep"}, party : PartyIds]

Request == {Idle} \cup Asking \cup Stamping \cup Rewriting \cup Dissolving

TypeOK ==
    /\ parties \in [PartyIds -> Doc \cup {NoParty}]
    /\ nextId \in 1..MaxParties+1
    /\ invites \subseteq PartyIds \X Players
    /\ handling \in [Handlers -> Request]
    /\ faults \in 0..MaxFaults

-----------------------------------------------------------------------------
Found(p) == parties[p] # NoParty

XuidsOf(members) == {m.xuid : m \in members}

\* Slip: the cap counts the members a party may have beside its owner.
IsPartyFullBesideOwner(members) == Cardinality(members) > MaxMembers

IsPartyFull(members) == Cardinality(members) >= MaxMembers

Stamped(members, who) ==
    {IF m.xuid = who THEN [m EXCEPT !.fresh = TRUE] ELSE m : m \in members}

Aged(members, m) ==
    {IF e.xuid = m.xuid /\ e.seat = m.seat THEN [e EXCEPT !.fresh = FALSE] ELSE e :
        e \in members}

FreshOf(members) == {m \in members : m.fresh}

WithoutXuid(members, who) == {m \in members : m.xuid # who}

\* Slip: only an empty party dissolves.
OnlyEmptyDissolves(members, owner) == members = {}

\* Slip: a party dissolves with its last but one member.
LonelyDissolves(members, owner) ==
    Cardinality(members) <= 1 \/ owner \notin XuidsOf(members)

ShouldDissolve(members, owner) == members = {} \/ owner \notin XuidsOf(members)

\* Slip: a write that moves the version is not noticed by the others.
SameVersion(request, p) == request

\* A request that has read the party finds its version out of date.
Outdated(request, p) ==
    IF request.pc \in {"stamp", "write"} /\ request.party = p
    THEN [request EXCEPT !.current = FALSE]
    ELSE request

Goto(h, request) == handling' = [handling EXCEPT ![h] = request]

\* h saves party p in a way that moves its version, and goes on.
SavedThenGoto(h, p, request) ==
    handling' = [g \in Handlers |->
                    IF g = h THEN request ELSE Outdated(handling[g], p)]

-----------------------------------------------------------------------------
Init ==
    /\ parties = [p \in PartyIds |-> NoParty]
    /\ nextId = 1
    /\ invites = {}
    /\ handling = [h \in Handlers |-> Idle]
    /\ faults = 0

(* create: refused to a player who is in a party. *)
Create(h, who) ==
    /\ handling[h] = Idle
    /\ \A p \in PartyIds : Found(p) => who \notin XuidsOf(parties[p].members)
    /\ Goto(h, [pc |-> "create", who |-> who])
    /\ UNCHANGED <<parties, nextId, invites, faults>>

Insert(h) ==
    /\ handling[h].pc = "create"
    /\ nextId \in PartyIds
    /\ LET owner == handling[h].who
       IN  parties' = [parties EXCEPT ![nextId] =
             [owner |-> owner,
              members |-> {[xuid |-> owner, seat |-> 1, fresh |-> TRUE]}]]
    /\ nextId' = nextId + 1
    /\ Goto(h, Idle)
    /\ UNCHANGED <<invites, faults>>

(* invite: by a member, to a non-member, while there is room. *)
Invite(h, p, who) ==
    /\ handling[h] = Idle
    /\ Found(p)
    /\ parties[p].members # {}
    /\ ~IsPartyFull(parties[p].members)
    /\ who \notin XuidsOf(parties[p].members)
    /\ Goto(h, [pc |-> "invite", party |-> p, who |-> who])
    /\ UNCHANGED <<parties, nextId, invites, faults>>

SaveInvite(h) ==
    /\ handling[h].pc = "invite"
    /\ invites' = invites \cup {<<handling[h].party, handling[h].who>>}
    /\ Goto(h, Idle)
    /\ UNCHANGED <<parties, nextId, faults>>

(* join: find the invite, read the party, push the member, delete the invite. *)
Join(h, p, who) ==
    /\ handling[h] = Idle
    /\ <<p, who>> \in invites
    /\ Goto(h, [pc |-> "admit", party |-> p, who |-> who])
    /\ UNCHANGED <<parties, nextId, invites, faults>>

\* Slip: a member that joins again is added again.
AdmitAgain(h) ==
    /\ handling[h].pc = "admit"
    /\ LET r == handling[h]
           members == parties[r.party].members
           refused == Found(r.party) =>
                         r.who \notin XuidsOf(members) /\ IsPartyFull(members)
       IN  Goto(h, IF refused THEN Idle ELSE [r EXCEPT !.pc = "push"])
    /\ UNCHANGED <<parties, nextId, invites, faults>>

\* A party that is gone or full refuses; a member is not added again.
Admit(h) ==
    /\ handling[h].pc = "admit"
    /\ LET r == handling[h]
           members == parties[r.party].members
       IN  \/ /\ Found(r.party)
              /\ r.who \in XuidsOf(members)
              /\ Goto(h, [r EXCEPT !.pc = "keep"])
           \/ /\ Found(r.party)
              /\ r.who \notin XuidsOf(members)
              /\ ~IsPartyFull(members)
              /\ Goto(h, [r EXCEPT !.pc = "push"])
           \/ /\ Found(r.party) =>
                    r.who \notin XuidsOf(members) /\ IsPartyFull(members)
              /\ Goto(h, Idle)
    /\ UNCHANGED <<parties, nextId, invites, faults>>

Push(h, seat) ==
    /\ handling[h].pc = "push"
    /\ LET r == handling[h]
           p == r.party
           taken == {m.seat : m \in parties[p].members}
       IN  /\ Found(p)
           /\ seat \notin taken /\ 1..seat-1 \subseteq taken
           /\ parties' = [parties EXCEPT ![p].members =
                @ \cup {[xuid |-> r.who, seat |-> seat, fresh |-> TRUE]}]
           /\ SavedThenGoto(h, p, [r EXCEPT !.pc = "consume"])
    /\ UNCHANGED <<nextId, invites, faults>>

\* Only lastActivity is saved.
Keep(h) ==
    /\ handling[h].pc = "keep"
    /\ Found(handling[h].party)
    /\ Goto(h, [handling[h] EXCEPT !.pc = "consume"])
    /\ UNCHANGED <<parties, nextId, invites, faults>>

\* Saving a party that was deleted meanwhile fails.
JoinGone(h) ==
    /\ handling[h].pc \in {"push", "keep"}
    /\ ~Found(handling[h].party)
    /\ Goto(h, Idle)
    /\ UNCHANGED <<parties, nextId, invites, faults>>

Consume(h) ==
    /\ handling[h].pc = "consume"
    /\ invites' = invites \ {<<handling[h].party, handling[h].who>>}
    /\ Goto(h, Idle)
    /\ UNCHANGED <<parties, nextId, faults>>

Decline(p, who) ==
    /\ <<p, who>> \in invites
    /\ invites' = invites \ {<<p, who>>}
    /\ UNCHANGED <<parties, nextId, handling, faults>>

\* What `leave` does once it has read the party: the owner takes it down.
Departure(p, who) ==
    IF parties[p].owner = who \/ WithoutXuid(parties[p].members, who) = {}
    THEN [pc |-> "dissolve", op |-> "leave", party |-> p]
    ELSE [pc |-> "write", op |-> "leave", party |-> p,
          members |-> WithoutXuid(parties[p].members, who),
          gone |-> {who}, current |-> TRUE]

Leave(h, p, who) ==
    /\ handling[h] = Idle
    /\ Found(p)
    /\ who \in XuidsOf(parties[p].members)
    /\ Goto(h, Departure(p, who))
    /\ UNCHANGED <<parties, nextId, invites, faults>>

(* leaveByXuid: find a party of the player, then leave it, reading it again. *)
FindPartyOf(h, p, who) ==
    /\ handling[h] = Idle
    /\ Found(p)
    /\ who \in XuidsOf(parties[p].members)
    /\ Goto(h, [pc |-> "leaving", party |-> p, who |-> who])
    /\ UNCHANGED <<parties, nextId, invites, faults>>

LeaveFound(h) ==
    /\ handling[h].pc = "leaving"
    /\ LET p == handling[h].party
           who == handling[h].who
       IN  Goto(h, IF Found(p) /\ who \in XuidsOf(parties[p].members)
                   THEN Departure(p, who)
                   ELSE Idle)
    /\ UNCHANGED <<parties, nextId, invites, faults>>

(* poll: stamp the caller, drop the idle members, dissolve without an owner. *)
Poll(h, p, who) ==
    /\ handling[h] = Idle
    /\ Found(p)
    /\ LET members == parties[p].members
           stamped == Stamped(members, who)
           kept == FreshOf(stamped)
       IN  /\ who \in XuidsOf(members)
           /\ Goto(h,
                IF ShouldDissolve(kept, parties[p].owner)
                THEN [pc |-> "dissolve", op |-> "reap", party |-> p]
                ELSE IF kept = stamped
                THEN [pc |-> "stamp", party |-> p, who |-> who, current |-> TRUE]
                ELSE [pc |-> "write", op |-> "reap", party |-> p, members |-> kept,
                      gone |-> XuidsOf(stamped \ kept), current |-> TRUE])
    /\ UNCHANGED <<parties, nextId, invites, faults>>

Stamp(h) ==
    /\ handling[h].pc = "stamp"
    /\ handling[h].current
    /\ Found(handling[h].party)
    /\ parties' = [parties EXCEPT ![handling[h].party].members =
                      Stamped(@, handling[h].who)]
    /\ Goto(h, Idle)
    /\ UNCHANGED <<nextId, invites, faults>>

Write(h) ==
    /\ handling[h].pc = "write"
    /\ handling[h].current
    /\ LET p == handling[h].party
       IN  /\ Found(p)
           /\ parties' = [parties EXCEPT ![p].members = handling[h].members]
           /\ SavedThenGoto(h, p, Idle)
    /\ UNCHANGED <<nextId, invites, faults>>

\* VersionError, or the document is gone.
SaveRefused(h) ==
    /\ handling[h].pc \in {"stamp", "write"}
    /\ ~handling[h].current \/ ~Found(handling[h].party)
    /\ Goto(h, Idle)
    /\ UNCHANGED <<parties, nextId, invites, faults>>

Dissolve(h) ==
    /\ handling[h].pc = "dissolve"
    /\ parties' = [parties EXCEPT ![handling[h].party] = NoParty]
    /\ Goto(h, [pc |-> "sweep", party |-> handling[h].party])
    /\ UNCHANGED <<nextId, invites, faults>>

Sweep(h) ==
    /\ handling[h].pc = "sweep"
    /\ invites' = {i \in invites : i[1] # handling[h].party}
    /\ Goto(h, Idle)
    /\ UNCHANGED <<parties, nextId, faults>>

\* Thirty seconds without a poll: also in a copy of the party, whose lastPoll
\* is no later than the stored one.
Lapse(p, m) ==
    /\ Found(p)
    /\ m \in FreshOf(parties[p].members)
    /\ parties' = [parties EXCEPT ![p].members = Aged(@, m)]
    /\ handling' = [h \in Handlers |->
          IF handling[h].pc = "write" /\ handling[h].party = p
          THEN [handling[h] EXCEPT !.members = Aged(@, m)]
          ELSE handling[h]]
    /\ UNCHANGED <<nextId, invites, faults>>

\* The TTL indexes: an invite lasts a minute, and a party ten minutes from the
\* last invite, join, leave or poll, so it outlasts its invites.
ExpireParty(p) ==
    /\ Found(p)
    /\ FreshOf(parties[p].members) = {}
    /\ \A i \in invites : i[1] # p
    /\ parties' = [parties EXCEPT ![p] = NoParty]
    /\ UNCHANGED <<nextId, invites, handling, faults>>

ExpireInvite(i) ==
    /\ invites' = invites \ {i}
    /\ UNCHANGED <<parties, nextId, handling, faults>>

\* A database call of one handler rejects, or the server stops under it.
Fail(h) ==
    /\ handling[h] # Idle
    /\ faults < MaxFaults
    /\ faults' = faults + 1
    /\ Goto(h, Idle)
    /\ UNCHANGED <<parties, nextId, invites>>

Asked(h) ==
    \/ \E who \in Players : Create(h, who)
    \/ \E p \in PartyIds, who \in Players :
          \/ Invite(h, p, who) \/ Join(h, p, who) \/ Leave(h, p, who)
          \/ FindPartyOf(h, p, who) \/ Poll(h, p, who)

Continued(h) ==
    \/ Insert(h) \/ SaveInvite(h)
    \/ Admit(h) \/ Keep(h) \/ JoinGone(h) \/ Consume(h)
    \/ \E seat \in Seats : Push(h, seat)
    \/ LeaveFound(h) \/ Stamp(h) \/ Write(h) \/ SaveRefused(h)
    \/ Dissolve(h) \/ Sweep(h)

Passing ==
    \/ \E p \in PartyIds, who \in Players : Decline(p, who)
    \/ \E p \in PartyIds : ExpireParty(p) \/ \E m \in Entry : Lapse(p, m)
    \/ \E i \in invites : ExpireInvite(i)

Next ==
    \/ \E h \in Handlers : Asked(h) \/ Continued(h) \/ Fail(h)
    \/ Passing

Spec == Init /\ [][Next]_vars

-----------------------------------------------------------------------------
(* What holds however the requests interleave and fail. *)

\* A stored party has its owner among its members.  Nothing checks this on
\* the way in: it rests on the version guard of the two writes that remove
\* members, and on the owner's departure taking the party down.
OwnerIsMember ==
    \A p \in PartyIds : Found(p) => parties[p].owner \in XuidsOf(parties[p].members)

\* A write of the whole array, computed from an earlier read, loses nobody but
\* those its request meant to remove, and brings back nobody who left.
NobodyElseChanged ==
    [][\A h \in Handlers :
          Write(h) =>
             LET r == handling[h]
                 before == XuidsOf(parties[r.party].members)
                 after == XuidsOf(parties'[r.party].members)
             IN  before \ r.gone \subseteq after /\ after \subseteq before]_vars

\* Who is in a party and what is under way, as module Membership has them.
RosterOf(doc) ==
    IF doc = NoParty THEN NoParty
    ELSE [owner |-> doc.owner, people |-> XuidsOf(doc.members)]

Rosters == [p \in PartyIds |-> RosterOf(parties[p])]

CallsOf(r) ==
    IF r.pc = "invite" THEN {<<"invite", r.party, r.who>>}
    ELSE IF r.pc \in {"admit", "push"} THEN {<<"join", r.party, r.who>>}
    ELSE {}

PartyCalls == UNION {CallsOf(handling[h]) : h \in Handlers}

Told == INSTANCE Membership
            WITH party <- Rosters, drawn <- 1..nextId-1, invited <- invites, calls <- PartyCalls

\* The service implements module Membership: between the find of the invite and
\* the $push the invite may go, the party may end and others may write its
\* members, and still a player gets into a party only by an invitation to it
\* that was there when their join began, and one that left comes back only so.
MembershipKept == Told!MembershipSpec

(* What overlapping requests break: module PartyOverlaps says how far. *)

\* isPartyFull caps the membership at MAX_PARTY_MEMBERS.
MembersCapped ==
    \A p \in PartyIds : Found(p) => Cardinality(parties[p].members) <= MaxMembers

\* A poll takes out of a party only members that have not polled for thirty
\* seconds, and dissolves a party only when that is true of its owner.
OnlyIdleReaped ==
    [][\A h \in Handlers :
          LET r == handling[h]
          IN  /\ Write(h) /\ r.op = "reap" =>
                    XuidsOf(FreshOf(parties[r.party].members))
                        \subseteq XuidsOf(parties'[r.party].members)
              /\ Dissolve(h) /\ r.op = "reap" /\ Found(r.party) =>
                    parties[r.party].owner
                        \notin XuidsOf(FreshOf(parties[r.party].members))]_vars
=============================================================================
