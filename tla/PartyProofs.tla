----------------------------- MODULE PartyProofs -----------------------------
(***************************************************************************)
(* Theorems about Party and PartyOverlaps, for any players, any cap and    *)
(* any number of handlers, parties and failures.                           *)
(***************************************************************************)
EXTENDS PartyOverlaps, FiniteSetTheorems, TLAPS

-----------------------------------------------------------------------------
(* Who is in a members array. *)

LEMMA MemberXuid ==
    ASSUME NEW members, NEW m \in members
    PROVE  m.xuid \in XuidsOf(members)
BY DEF XuidsOf

(* Stamping and ageing members changes nobody's membership. *)
LEMMA StampedMembers ==
    ASSUME NEW members \in SUBSET Entry, NEW who \in Players
    PROVE  Stamped(members, who) \in SUBSET Entry
           /\ XuidsOf(Stamped(members, who)) = XuidsOf(members)
<1> DEFINE S(m) == IF m.xuid = who THEN [m EXCEPT !.fresh = TRUE] ELSE m
<1>1. \A m \in members : S(m) \in Entry /\ S(m).xuid = m.xuid
  BY DEF Entry
<1>2. Stamped(members, who) = {S(m) : m \in members}
  BY DEF Stamped
<1> HIDE DEF S
<1>3. QED
  BY <1>1, <1>2 DEF XuidsOf

LEMMA AgedMembers ==
    ASSUME NEW members \in SUBSET Entry, NEW m \in Entry
    PROVE  Aged(members, m) \in SUBSET Entry
           /\ XuidsOf(Aged(members, m)) = XuidsOf(members)
<1> DEFINE A(e) == IF e.xuid = m.xuid /\ e.seat = m.seat
                   THEN [e EXCEPT !.fresh = FALSE] ELSE e
<1>1. \A e \in members : A(e) \in Entry /\ A(e).xuid = e.xuid
  BY DEF Entry
<1>2. Aged(members, m) = {A(e) : e \in members}
  BY DEF Aged
<1> HIDE DEF A
<1>3. QED
  BY <1>1, <1>2 DEF XuidsOf

LEMMA WithoutMembers ==
    ASSUME NEW members \in SUBSET Entry, NEW who \in Players
    PROVE  WithoutXuid(members, who) \in SUBSET Entry
           /\ XuidsOf(WithoutXuid(members, who)) = XuidsOf(members) \ {who}
BY DEF WithoutXuid, XuidsOf

(* What a poll keeps and what it drops are together all the members. *)
LEMMA FreshMembers ==
    ASSUME NEW members \in SUBSET Entry
    PROVE  /\ FreshOf(members) \in SUBSET Entry
           /\ XuidsOf(FreshOf(members)) \subseteq XuidsOf(members)
           /\ XuidsOf(members) \ XuidsOf(members \ FreshOf(members))
                 \subseteq XuidsOf(FreshOf(members))
           /\ XuidsOf(members \ FreshOf(members)) \subseteq Players
BY DEF FreshOf, XuidsOf, Entry

-----------------------------------------------------------------------------
(* Types. *)

LEMMA OutdatedType ==
    ASSUME NEW request \in Request, NEW p \in PartyIds
    PROVE  Outdated(request, p) \in Request
BY DEF Outdated, Request, Idle, Asking, Stamping, Rewriting, Dissolving

LEMMA GotoType ==
    ASSUME TypeOK, NEW h \in Handlers, NEW request \in Request, Goto(h, request)
    PROVE  handling' \in [Handlers -> Request]
BY DEF Goto, TypeOK

LEMMA SavedType ==
    ASSUME TypeOK, NEW h \in Handlers, NEW p \in PartyIds, NEW request \in Request,
           SavedThenGoto(h, p, request)
    PROVE  handling' \in [Handlers -> Request]
<1>1. \A g \in Handlers : Outdated(handling[g], p) \in Request
  BY OutdatedType DEF TypeOK
<1>2. QED
  BY <1>1 DEF SavedThenGoto

(* Replacing the members of a stored party stores a party. *)
LEMMA MembersType ==
    ASSUME TypeOK, NEW p \in PartyIds, Found(p), NEW members \in SUBSET Entry
    PROVE  [parties EXCEPT ![p].members = members] \in [PartyIds -> Doc \cup {NoParty}]
<1>1. parties[p] \in Doc
  BY DEF TypeOK, Found
<1>2. [parties[p] EXCEPT !.members = members] \in Doc
  BY <1>1 DEF Doc
<1>3. QED
  BY <1>2 DEF TypeOK

LEMMA FoundMembers ==
    ASSUME TypeOK, NEW p \in PartyIds, Found(p)
    PROVE  parties[p].members \in SUBSET Entry /\ parties[p].owner \in Players
BY DEF TypeOK, Found, Doc

LEMMA RequestByPc ==
    ASSUME NEW r \in Request
    PROVE  /\ r.pc = "create" => r \in [pc : {"create"}, who : Players]
           /\ r.pc \in {"invite", "admit", "push", "keep", "consume", "leaving"} =>
                r \in [pc : {"invite", "admit", "push", "keep", "consume", "leaving"},
                       party : PartyIds, who : Players]
           /\ r.pc = "stamp" => r \in Stamping
           /\ r.pc = "write" => r \in Rewriting
           /\ r.pc \in {"dissolve", "sweep"} => r \in Dissolving
BY DEF Request, Idle, Asking, Stamping, Rewriting, Dissolving

LEMMA DepartureType ==
    ASSUME TypeOK, NEW p \in PartyIds, Found(p), NEW who \in Players
    PROVE  Departure(p, who) \in Request
<1>1. WithoutXuid(parties[p].members, who) \in SUBSET Entry
  BY FoundMembers, WithoutMembers
<1>2. QED
  BY <1>1 DEF Departure, Request, Rewriting, Dissolving

(* A handler that asks keeps the types: it only takes a request. *)
LEMMA AskedType ==
    ASSUME TypeOK, NEW h \in Handlers, Asked(h)
    PROVE  TypeOK'
<1>1. \E request \in Request : Goto(h, request)
  <2>1. ASSUME NEW who \in Players, Create(h, who)
        PROVE  \E request \in Request : Goto(h, request)
    BY <2>1 DEF Create, Request, Asking
  <2>2. ASSUME NEW p \in PartyIds, NEW who \in Players,
               Invite(h, p, who) \/ Join(h, p, who) \/ FindPartyOf(h, p, who)
        PROVE  \E request \in Request : Goto(h, request)
    BY <2>2 DEF Invite, Join, FindPartyOf, Request, Asking
  <2>3. ASSUME NEW p \in PartyIds, NEW who \in Players, Leave(h, p, who)
        PROVE  \E request \in Request : Goto(h, request)
    BY <2>3, DepartureType DEF Leave
  <2>4. ASSUME NEW p \in PartyIds, NEW who \in Players, Poll(h, p, who)
        PROVE  \E request \in Request : Goto(h, request)
    <3> DEFINE stamped == Stamped(parties[p].members, who)
               kept == FreshOf(stamped)
    <3>1. Found(p)
      BY <2>4 DEF Poll
    <3>2. stamped \in SUBSET Entry
      BY <3>1, FoundMembers, StampedMembers
    <3>3. kept \in SUBSET Entry /\ XuidsOf(stamped \ kept) \in SUBSET Players
      BY <3>2, FreshMembers
    <3>4. /\ [pc |-> "dissolve", op |-> "reap", party |-> p] \in Request
          /\ [pc |-> "stamp", party |-> p, who |-> who, current |-> TRUE] \in Request
      BY DEF Request, Dissolving, Stamping
    <3>5. [pc |-> "write", op |-> "reap", party |-> p, members |-> kept,
           gone |-> XuidsOf(stamped \ kept), current |-> TRUE] \in Request
      BY <3>3 DEF Request, Rewriting
    <3>6. QED
      BY <2>4, <3>4, <3>5 DEF Poll
  <2>5. QED
    BY <2>1, <2>2, <2>3, <2>4 DEF Asked
<1>2. UNCHANGED <<parties, nextId, invites, faults>>
  BY DEF Asked, Create, Invite, Join, FindPartyOf, Leave, Poll
<1>3. handling' \in [Handlers -> Request]
  BY <1>1, GotoType
<1>4. QED
  BY <1>2, <1>3 DEF TypeOK

(* So does one that goes on. *)
LEMMA ContinuedType ==
    ASSUME TypeOK, NEW h \in Handlers, Continued(h)
    PROVE  TypeOK'
<1>0. handling[h] \in Request /\ Idle \in Request
  BY DEF TypeOK, Request
<1>1. CASE Insert(h)
  <2>1. handling[h].who \in Players
    BY <1>0, <1>1, RequestByPc DEF Insert
  <2>2. [owner |-> handling[h].who,
         members |-> {[xuid |-> handling[h].who, seat |-> 1, fresh |-> TRUE]}] \in Doc
    BY <2>1, PartyAssumption DEF Doc, Entry, Seats
  <2>3. parties' \in [PartyIds -> Doc \cup {NoParty}]
    BY <1>1, <2>2 DEF Insert, TypeOK
  <2>4. nextId' \in 1..MaxParties+1
    BY <1>1, PartyAssumption DEF Insert, PartyIds
  <2>5. handling' \in [Handlers -> Request]
    BY <1>0, <1>1, GotoType DEF Insert
  <2>6. QED
    BY <1>1, <2>3, <2>4, <2>5 DEF Insert, TypeOK
<1>2. CASE SaveInvite(h) \/ Consume(h) \/ Sweep(h)
  <2>1. handling' \in [Handlers -> Request]
    BY <1>0, <1>2, GotoType DEF SaveInvite, Consume, Sweep
  <2>2. SaveInvite(h) => handling[h].party \in PartyIds /\ handling[h].who \in Players
    BY <1>0, RequestByPc DEF SaveInvite
  <2>3. invites' \subseteq PartyIds \X Players
    BY <1>2, <2>2 DEF SaveInvite, Consume, Sweep, TypeOK
  <2>4. QED
    BY <1>2, <2>1, <2>3 DEF SaveInvite, Consume, Sweep, TypeOK
<1>3. CASE Admit(h) \/ Keep(h) \/ JoinGone(h) \/ LeaveFound(h) \/ SaveRefused(h)
  <2>1. \E request \in Request : Goto(h, request)
    <3>1. CASE Admit(h)
      <4>1. handling[h] \in [pc : {"invite", "admit", "push", "keep", "consume", "leaving"},
                             party : PartyIds, who : Players]
        BY <1>0, <3>1, RequestByPc DEF Admit
      <4>2. [handling[h] EXCEPT !.pc = "keep"] \in Request
            /\ [handling[h] EXCEPT !.pc = "push"] \in Request
        BY <4>1 DEF Request, Asking
      <4>3. QED
        BY <1>0, <3>1, <4>2 DEF Admit
    <3>2. CASE Keep(h)
      <4>1. handling[h] \in [pc : {"invite", "admit", "push", "keep", "consume", "leaving"},
                             party : PartyIds, who : Players]
        BY <1>0, <3>2, RequestByPc DEF Keep
      <4>2. [handling[h] EXCEPT !.pc = "consume"] \in Request
        BY <4>1 DEF Request, Asking
      <4>3. QED
        BY <3>2, <4>2 DEF Keep
    <3>3. CASE JoinGone(h) \/ SaveRefused(h)
      BY <1>0, <3>3 DEF JoinGone, SaveRefused
    <3>4. CASE LeaveFound(h)
      <4>1. handling[h].party \in PartyIds /\ handling[h].who \in Players
        BY <1>0, <3>4, RequestByPc DEF LeaveFound
      <4>2. QED
        BY <1>0, <3>4, <4>1, DepartureType DEF LeaveFound
    <3>5. QED
      BY <1>3, <3>1, <3>2, <3>3, <3>4
  <2>2. UNCHANGED <<parties, nextId, invites, faults>>
    BY <1>3 DEF Admit, Keep, JoinGone, LeaveFound, SaveRefused
  <2>3. handling' \in [Handlers -> Request]
    BY <2>1, GotoType
  <2>4. QED
    BY <2>2, <2>3 DEF TypeOK
<1>4. ASSUME NEW seat \in Seats, Push(h, seat)
      PROVE  TypeOK'
  <2> DEFINE p == handling[h].party
  <2>1. handling[h] \in [pc : {"invite", "admit", "push", "keep", "consume", "leaving"},
                         party : PartyIds, who : Players]
    BY <1>0, <1>4, RequestByPc DEF Push
  <2>2. [handling[h] EXCEPT !.pc = "consume"] \in Request
    BY <2>1 DEF Request, Asking
  <2>3. handling' \in [Handlers -> Request]
    BY <1>4, <2>1, <2>2, SavedType DEF Push
  <2>4. parties[p].members \cup {[xuid |-> handling[h].who, seat |-> seat, fresh |-> TRUE]}
            \in SUBSET Entry
    <3>1. parties[p].members \in SUBSET Entry
      BY <1>4, <2>1, FoundMembers DEF Push
    <3>2. [xuid |-> handling[h].who, seat |-> seat, fresh |-> TRUE] \in Entry
      BY <2>1 DEF Entry
    <3> HIDE DEF p
    <3>3. QED
      BY <3>1, <3>2
  <2>5. parties' \in [PartyIds -> Doc \cup {NoParty}]
    BY <1>4, <2>1, <2>4, MembersType DEF Push
  <2>6. QED
    BY <1>4, <2>3, <2>5 DEF Push, TypeOK
<1>5. CASE Stamp(h)
  <2> DEFINE p == handling[h].party
  <2>1. p \in PartyIds /\ handling[h].who \in Players
    BY <1>0, <1>5, RequestByPc DEF Stamp, Stamping
  <2>2. Stamped(parties[p].members, handling[h].who) \in SUBSET Entry
    BY <1>5, <2>1, FoundMembers, StampedMembers DEF Stamp
  <2>3. parties' \in [PartyIds -> Doc \cup {NoParty}]
    BY <1>5, <2>1, <2>2, MembersType DEF Stamp
  <2>4. handling' \in [Handlers -> Request]
    BY <1>0, <1>5, GotoType DEF Stamp
  <2>5. QED
    BY <1>5, <2>3, <2>4 DEF Stamp, TypeOK
<1>6. CASE Write(h)
  <2>1. handling[h].party \in PartyIds /\ handling[h].members \in SUBSET Entry
    BY <1>0, <1>6, RequestByPc DEF Write, Rewriting
  <2>2. parties' \in [PartyIds -> Doc \cup {NoParty}]
    BY <1>6, <2>1, MembersType DEF Write
  <2>3. handling' \in [Handlers -> Request]
    BY <1>0, <1>6, <2>1, SavedType DEF Write
  <2>4. QED
    BY <1>6, <2>2, <2>3 DEF Write, TypeOK
<1>7. CASE Dissolve(h)
  <2>1. handling[h].party \in PartyIds
    BY <1>0, <1>7, RequestByPc DEF Dissolve, Dissolving
  <2>2. [pc |-> "sweep", party |-> handling[h].party] \in Request
    BY <2>1 DEF Request, Dissolving
  <2>3. handling' \in [Handlers -> Request]
    BY <1>7, <2>2, GotoType DEF Dissolve
  <2>4. QED
    BY <1>7, <2>3 DEF Dissolve, TypeOK
<1>8. QED
  BY <1>1, <1>2, <1>3, <1>4, <1>5, <1>6, <1>7 DEF Continued

(* So do the passing of time, a refused invite and a failure. *)
LEMMA PassingType ==
    ASSUME TypeOK, Passing
    PROVE  TypeOK'
<1>1. ASSUME NEW p \in PartyIds, NEW m \in Entry, Lapse(p, m)
      PROVE  TypeOK'
  <2>1. Aged(parties[p].members, m) \in SUBSET Entry
    BY <1>1, FoundMembers, AgedMembers DEF Lapse
  <2>2. parties' \in [PartyIds -> Doc \cup {NoParty}]
    BY <1>1, <2>1, MembersType DEF Lapse
  <2>3. ASSUME NEW h \in Handlers, handling[h].pc = "write"
        PROVE  [handling[h] EXCEPT !.members = Aged(@, m)] \in Request
    <3>1. handling[h] \in Rewriting
      BY <2>3, RequestByPc DEF TypeOK
    <3>2. Aged(handling[h].members, m) \in SUBSET Entry
      BY <3>1, AgedMembers DEF Rewriting
    <3>3. QED
      BY <3>1, <3>2 DEF Rewriting, Request
  <2>4. handling' \in [Handlers -> Request]
    BY <1>1, <2>3 DEF Lapse, TypeOK
  <2>5. QED
    BY <1>1, <2>2, <2>4 DEF Lapse, TypeOK
<1>2. ASSUME NEW p \in PartyIds, ExpireParty(p)
      PROVE  TypeOK'
  BY <1>2 DEF ExpireParty, TypeOK
<1>3. CASE \/ \E p \in PartyIds, who \in Players : Decline(p, who)
           \/ \E i \in invites : ExpireInvite(i)
  BY <1>3 DEF Decline, ExpireInvite, TypeOK
<1>4. QED
  BY <1>1, <1>2, <1>3 DEF Passing

LEMMA FailType ==
    ASSUME TypeOK, NEW h \in Handlers, Fail(h)
    PROVE  TypeOK'
<1>1. Idle \in Request
  BY DEF Request
<1>2. handling' \in [Handlers -> Request]
  BY <1>1, GotoType DEF Fail
<1>3. QED
  BY <1>2, PartyAssumption DEF Fail, TypeOK

LEMMA TypeInductive == TypeOK /\ [Next]_vars => TypeOK'
<1> SUFFICES ASSUME TypeOK, [Next]_vars
             PROVE  TypeOK'
  OBVIOUS
<1>1. CASE UNCHANGED vars
  BY <1>1 DEF vars, TypeOK
<1>2. QED
  BY <1>1, AskedType, ContinuedType, PassingType, FailType DEF Next

(* Every stored party and every copy of one that a request holds is well formed. *)
THEOREM TypeCorrect == Spec => []TypeOK
<1>1. Init => TypeOK
  BY PartyAssumption DEF Init, TypeOK, Request
<1>2. QED
  BY <1>1, TypeInductive, PTL DEF Spec

-----------------------------------------------------------------------------
(* The rosters. *)

\* What a pending write of the array, to a party whose document is now `doc`,
\* is about to store: the members of doc but those it means to remove, with the
\* owner among them.
PendingOK(r, doc) ==
    r.current /\ doc # NoParty =>
        /\ XuidsOf(doc.members) \ r.gone \subseteq XuidsOf(r.members)
        /\ XuidsOf(r.members) \subseteq XuidsOf(doc.members)
        /\ doc.owner \in XuidsOf(r.members)

PendingWrites ==
    \A h \in Handlers : handling[h].pc = "write" =>
        /\ handling[h].party < nextId
        /\ PendingOK(handling[h], parties[handling[h].party])

\* Ids at or above nextId have not been drawn.
UsedIds == \A p \in PartyIds : Found(p) => p < nextId

IInv == TypeOK /\ OwnerIsMember /\ UsedIds /\ PendingWrites

\* Nothing that a pending write depends on differs between the two documents.
SameRoster(old, new) ==
    \/ new = NoParty
    \/ /\ old # NoParty
       /\ XuidsOf(new.members) = XuidsOf(old.members)
       /\ new.owner = old.owner

LEMMA PendingKept ==
    ASSUME NEW r, NEW old, NEW new, PendingOK(r, old), SameRoster(old, new)
    PROVE  PendingOK(r, new)
BY DEF PendingOK, SameRoster

(* Any step that changes no stored roster keeps the rosters, if the requests
   it leaves behind are old ones or not writes, but h's, which is checked. *)
LEMMA QuietStep ==
    ASSUME IInv, NEW h \in Handlers, UNCHANGED nextId,
           \A p \in PartyIds : SameRoster(parties[p], parties'[p]),
           \A g \in Handlers \ {h} : handling'[g] = handling[g],
           handling'[h].pc = "write" =>
              /\ handling'[h].party \in PartyIds
              /\ handling'[h].party < nextId
              /\ PendingOK(handling'[h], parties'[handling'[h].party])
    PROVE  OwnerIsMember' /\ UsedIds' /\ PendingWrites'
<1>1. OwnerIsMember'
  BY DEF IInv, OwnerIsMember, SameRoster, Found
<1>2. UsedIds'
  BY DEF IInv, UsedIds, SameRoster, Found
<1>3. ASSUME NEW g \in Handlers, handling'[g].pc = "write"
      PROVE  /\ handling'[g].party < nextId
             /\ PendingOK(handling'[g], parties'[handling'[g].party])
  <2>1. CASE g = h
    BY <1>3, <2>1
  <2>2. CASE g # h
    <3>1. handling'[g] = handling[g] /\ handling[g].pc = "write"
      BY <1>3, <2>2
    <3>2. handling[g].party \in PartyIds
      BY <3>1, RequestByPc DEF IInv, TypeOK, Rewriting
    <3>3. PendingOK(handling[g], parties[handling[g].party]) /\ handling[g].party < nextId
      BY <3>1 DEF IInv, PendingWrites
    <3>4. QED
      BY <3>1, <3>2, <3>3, PendingKept
  <2>3. QED
    BY <2>1, <2>2
<1>4. PendingWrites'
  BY <1>3 DEF PendingWrites
<1>5. QED
  BY <1>1, <1>2, <1>4

(* The departure of a member who is not the owner is such a write. *)
LEMMA DepartureOK ==
    ASSUME IInv, NEW p \in PartyIds, Found(p), NEW who \in Players,
           Departure(p, who).pc = "write"
    PROVE  /\ Departure(p, who).party = p /\ p < nextId
           /\ PendingOK(Departure(p, who), parties[p])
<1>1. XuidsOf(WithoutXuid(parties[p].members, who)) = XuidsOf(parties[p].members) \ {who}
  BY FoundMembers, WithoutMembers DEF IInv
<1>2. parties[p].owner # who
  BY DEF Departure
<1>3. parties[p].owner \in XuidsOf(parties[p].members) /\ p < nextId
  BY DEF IInv, OwnerIsMember, UsedIds
<1>4. Departure(p, who) = [pc |-> "write", op |-> "leave", party |-> p,
          members |-> WithoutXuid(parties[p].members, who),
          gone |-> {who}, current |-> TRUE]
  BY DEF Departure
<1>5. QED
  BY <1>1, <1>2, <1>3, <1>4 DEF PendingOK

LEMMA AskedKeeps ==
    ASSUME IInv, NEW h \in Handlers, Asked(h)
    PROVE  OwnerIsMember' /\ UsedIds' /\ PendingWrites'
<1>1. /\ UNCHANGED <<parties, nextId>>
      /\ \E request : Goto(h, request)
  BY DEF Asked, Create, Invite, Join, FindPartyOf, Leave, Poll
<1>2. /\ \A p \in PartyIds : SameRoster(parties[p], parties'[p])
      /\ \A g \in Handlers \ {h} : handling'[g] = handling[g]
  BY <1>1 DEF SameRoster, Goto, IInv, TypeOK
<1> DEFINE Goal == handling'[h].pc = "write" =>
              /\ handling'[h].party \in PartyIds
              /\ handling'[h].party < nextId
              /\ PendingOK(handling'[h], parties'[handling'[h].party])
<1>3. ASSUME NEW p \in PartyIds, NEW who \in Players, Leave(h, p, who)
      PROVE  Goal
  <2>1. Found(p) /\ handling'[h] = Departure(p, who)
    BY <1>3 DEF Leave, Goto, IInv, TypeOK
  <2>2. QED
    BY <1>1, <2>1, DepartureOK
<1>4. ASSUME NEW p \in PartyIds, NEW who \in Players, Poll(h, p, who)
      PROVE  Goal
  <2> DEFINE members == parties[p].members
             stamped == Stamped(members, who)
             kept == FreshOf(stamped)
             write == [pc |-> "write", op |-> "reap", party |-> p, members |-> kept,
                       gone |-> XuidsOf(stamped \ kept), current |-> TRUE]
  <2>1. Found(p) /\ members \in SUBSET Entry
    BY <1>4, FoundMembers DEF Poll, IInv
  <2>2. /\ XuidsOf(stamped) = XuidsOf(members)
        /\ XuidsOf(kept) \subseteq XuidsOf(members)
        /\ XuidsOf(members) \ XuidsOf(stamped \ kept) \subseteq XuidsOf(kept)
    BY <2>1, StampedMembers, FreshMembers
  <2>3. handling'[h].pc = "write" =>
            handling'[h] = write /\ ~ShouldDissolve(kept, parties[p].owner)
    BY <1>4 DEF Poll, Goto, IInv, TypeOK
  <2>4. ~ShouldDissolve(kept, parties[p].owner) => parties[p].owner \in XuidsOf(kept)
    BY DEF ShouldDissolve
  <2>5. p < nextId
    BY <2>1 DEF IInv, UsedIds
  <2>6. write.party = p /\ write.members = kept /\ write.gone = XuidsOf(stamped \ kept)
    OBVIOUS
  <2> HIDE DEF kept, stamped, members, write
  <2>7. ~ShouldDissolve(kept, parties[p].owner) => PendingOK(write, parties[p])
    BY <2>2, <2>4, <2>6 DEF PendingOK, members
  <2>8. QED
    BY <1>1, <2>3, <2>5, <2>6, <2>7
<1>5. ASSUME NEW p \in PartyIds, NEW who \in Players,
             Invite(h, p, who) \/ Join(h, p, who) \/ FindPartyOf(h, p, who)
      PROVE  Goal
  BY <1>5 DEF Invite, Join, FindPartyOf, Goto, IInv, TypeOK
<1>6. ASSUME NEW who \in Players, Create(h, who)
      PROVE  Goal
  BY <1>6 DEF Create, Goto, IInv, TypeOK
<1>7. Goal
  BY <1>3, <1>4, <1>5, <1>6 DEF Asked
<1>8. QED
  BY <1>1, <1>2, <1>7, QuietStep

(* A save that moves the version of party p leaves no pending write to p that
   could still go through, so the roster of p may change. *)
LEMMA SavingStep ==
    ASSUME IInv, NEW h \in Handlers, NEW p \in PartyIds, NEW request \in Request,
           request.pc # "write", UNCHANGED nextId, Found(p),
           SavedThenGoto(h, p, request),
           \A q \in PartyIds \ {p} : parties'[q] = parties[q],
           parties'[p] # NoParty => parties'[p].owner \in XuidsOf(parties'[p].members)
    PROVE  OwnerIsMember' /\ UsedIds' /\ PendingWrites'
<1>1. OwnerIsMember'
  BY DEF IInv, OwnerIsMember, Found
<1>2. UsedIds'
  BY DEF IInv, UsedIds, Found
<1>3. ASSUME NEW g \in Handlers, handling'[g].pc = "write"
      PROVE  /\ handling'[g].party < nextId
             /\ PendingOK(handling'[g], parties'[handling'[g].party])
  <2>1. g # h /\ handling'[g] = Outdated(handling[g], p)
    BY <1>3 DEF SavedThenGoto
  <2>2. handling[g] \in Request
    BY DEF IInv, TypeOK
  <2>3. handling[g].pc = "write"
    <3>1. CASE handling[g].pc \in {"stamp", "write"}
      <4>1. handling[g] \in Stamping \/ handling[g] \in Rewriting
        BY <2>2, <3>1, RequestByPc
      <4>2. QED
        BY <1>3, <2>1, <4>1 DEF Outdated, Stamping, Rewriting
    <3>2. CASE handling[g].pc \notin {"stamp", "write"}
      BY <1>3, <2>1, <3>2 DEF Outdated
    <3>3. QED
      BY <3>1, <3>2
  <2>4. handling[g] \in Rewriting /\ handling[g].party < nextId
    BY <2>2, <2>3, RequestByPc DEF IInv, PendingWrites
  <2>5. CASE handling[g].party = p
    <3>1. handling'[g] = [handling[g] EXCEPT !.current = FALSE]
      BY <2>1, <2>3, <2>5 DEF Outdated
    <3>2. handling'[g].party = p /\ handling'[g].current = FALSE
      BY <2>4, <2>5, <3>1 DEF Rewriting
    <3>3. QED
      BY <2>4, <2>5, <3>2 DEF PendingOK
  <2>6. CASE handling[g].party # p
    <3>1. handling'[g] = handling[g]
      BY <2>1, <2>6 DEF Outdated
    <3>2. parties'[handling[g].party] = parties[handling[g].party]
      BY <2>4, <2>6 DEF Rewriting
    <3>3. QED
      BY <2>3, <2>4, <3>1, <3>2 DEF IInv, PendingWrites
  <2>7. QED
    BY <2>5, <2>6
<1>4. PendingWrites'
  BY <1>3 DEF PendingWrites
<1>5. QED
  BY <1>1, <1>2, <1>4

LEMMA ContinuedKeeps ==
    ASSUME IInv, NEW h \in Handlers, Continued(h)
    PROVE  OwnerIsMember' /\ UsedIds' /\ PendingWrites'
<1>0. /\ handling[h] \in Request /\ Idle \in Request
      /\ DOMAIN handling = Handlers /\ DOMAIN parties = PartyIds
  BY DEF IInv, TypeOK, Request
<1>1. CASE Insert(h)
  <2> DEFINE doc == [owner |-> handling[h].who,
                     members |-> {[xuid |-> handling[h].who, seat |-> 1, fresh |-> TRUE]}]
  <2>1. /\ parties' = [parties EXCEPT ![nextId] = doc]
        /\ nextId \in PartyIds /\ nextId' = nextId + 1
        /\ Goto(h, Idle)
    BY <1>1 DEF Insert
  <2>2. doc.owner \in XuidsOf(doc.members)
    BY DEF XuidsOf
  <2> HIDE DEF doc
  <2>3. /\ parties'[nextId] = doc
        /\ \A p \in PartyIds \ {nextId} : parties'[p] = parties[p]
    BY <1>0, <2>1
  <2>4. OwnerIsMember'
    BY <2>2, <2>3 DEF IInv, OwnerIsMember, Found
  <2>5. nextId \in Nat /\ \A p \in PartyIds : p \in Nat
    BY DEF IInv, TypeOK, PartyIds
  <2>6. UsedIds'
    BY <2>1, <2>3, <2>5 DEF IInv, UsedIds, Found
  <2>7. ASSUME NEW g \in Handlers, handling'[g].pc = "write"
        PROVE  /\ handling'[g].party < nextId'
               /\ PendingOK(handling'[g], parties'[handling'[g].party])
    <3>1. handling'[g] = handling[g] /\ handling[g].pc = "write"
      BY <1>0, <2>1, <2>7 DEF Goto, Idle
    <3>2. handling[g].party \in PartyIds
      BY <3>1, RequestByPc DEF IInv, TypeOK, Rewriting
    <3>3. handling[g].party < nextId /\ PendingOK(handling[g], parties[handling[g].party])
      BY <3>1 DEF IInv, PendingWrites
    <3>4. parties'[handling[g].party] = parties[handling[g].party]
      BY <2>3, <2>5, <3>2, <3>3
    <3>5. handling[g].party < nextId + 1
      BY <2>5, <3>2, <3>3
    <3>6. handling'[g].party < nextId'
      BY <2>1, <3>1, <3>5
    <3>7. PendingOK(handling'[g], parties'[handling'[g].party])
      BY <3>1, <3>3, <3>4
    <3>8. QED
      BY <3>6, <3>7
  <2>8. PendingWrites'
    BY <2>7 DEF PendingWrites
  <2>9. QED
    BY <2>4, <2>6, <2>8
<1>2. CASE \/ SaveInvite(h) \/ Consume(h) \/ Sweep(h) \/ Admit(h) \/ Keep(h)
           \/ JoinGone(h) \/ SaveRefused(h)
  <2>1. UNCHANGED <<parties, nextId>>
    BY <1>2 DEF SaveInvite, Consume, Sweep, Admit, Keep, JoinGone, SaveRefused
  <2>2. \A g \in Handlers \ {h} : handling'[g] = handling[g]
    BY <1>0, <1>2 DEF SaveInvite, Consume, Sweep, Admit, Keep, JoinGone, SaveRefused, Goto
  <2>3. handling'[h].pc # "write"
    <3>1. CASE SaveInvite(h) \/ Consume(h) \/ Sweep(h) \/ JoinGone(h) \/ SaveRefused(h)
      BY <1>0, <3>1 DEF SaveInvite, Consume, Sweep, JoinGone, SaveRefused, Goto, Idle
    <3>2. CASE Admit(h) \/ Keep(h)
      <4>1. handling[h] \in [pc : {"invite", "admit", "push", "keep", "consume", "leaving"},
                             party : PartyIds, who : Players]
        BY <1>0, <3>2, RequestByPc DEF Admit, Keep
      <4>2. QED
        BY <1>0, <3>2, <4>1 DEF Admit, Keep, Goto, Idle
    <3>3. QED
      BY <1>2, <3>1, <3>2
  <2>4. \A p \in PartyIds : SameRoster(parties[p], parties'[p])
    BY <2>1 DEF SameRoster
  <2>5. QED
    BY <2>1, <2>2, <2>3, <2>4, QuietStep
<1>3. CASE LeaveFound(h)
  <2> DEFINE p == handling[h].party
             who == handling[h].who
  <2>1. p \in PartyIds /\ who \in Players
    BY <1>0, <1>3, RequestByPc DEF LeaveFound
  <2>2. /\ UNCHANGED <<parties, nextId>>
        /\ \A g \in Handlers \ {h} : handling'[g] = handling[g]
        /\ \/ handling'[h] = Idle
           \/ Found(p) /\ handling'[h] = Departure(p, who)
    BY <1>0, <1>3 DEF LeaveFound, Goto
  <2>3. \A q \in PartyIds : SameRoster(parties[q], parties'[q])
    BY <2>2 DEF SameRoster
  <2>4. handling'[h].pc = "write" =>
              /\ handling'[h].party \in PartyIds
              /\ handling'[h].party < nextId
              /\ PendingOK(handling'[h], parties'[handling'[h].party])
    <3>1. CASE handling'[h] = Idle
      BY <3>1 DEF Idle
    <3>2. CASE Found(p) /\ handling'[h] = Departure(p, who)
      BY <2>1, <2>2, <3>2, DepartureOK
    <3>3. QED
      BY <2>2, <3>1, <3>2
  <2>5. QED
    BY <2>2, <2>3, <2>4, QuietStep
<1>4. ASSUME NEW seat \in Seats, Push(h, seat)
      PROVE  OwnerIsMember' /\ UsedIds' /\ PendingWrites'
  <2> DEFINE p == handling[h].party
             request == [handling[h] EXCEPT !.pc = "consume"]
             seated == [xuid |-> handling[h].who, seat |-> seat, fresh |-> TRUE]
  <2>1. handling[h] \in [pc : {"invite", "admit", "push", "keep", "consume", "leaving"},
                         party : PartyIds, who : Players]
    BY <1>0, <1>4, RequestByPc DEF Push
  <2>2. p \in PartyIds /\ request \in Request /\ request.pc # "write"
    BY <2>1 DEF Request, Asking
  <2>3. /\ UNCHANGED nextId /\ Found(p) /\ SavedThenGoto(h, p, request)
        /\ parties' = [parties EXCEPT ![p].members = @ \cup {seated}]
    BY <1>4 DEF Push
  <2>4. \A q \in PartyIds \ {p} : parties'[q] = parties[q]
    BY <1>0, <2>3
  <2>5. parties[p] \in Doc /\ parties[p].owner \in XuidsOf(parties[p].members)
    BY <2>2, <2>3 DEF IInv, TypeOK, OwnerIsMember, Found
  <2>6. /\ parties'[p].owner = parties[p].owner
        /\ parties'[p].members = parties[p].members \cup {seated}
    BY <1>0, <2>2, <2>3, <2>5 DEF Doc
  <2>7. parties'[p].owner \in XuidsOf(parties'[p].members)
    BY <2>5, <2>6 DEF XuidsOf
  <2> HIDE DEF p, request
  <2>8. QED
    BY <2>2, <2>3, <2>4, <2>7, SavingStep
<1>5. CASE Stamp(h)
  <2> DEFINE p == handling[h].party
  <2>1. p \in PartyIds /\ handling[h].who \in Players
    BY <1>0, <1>5, RequestByPc DEF Stamp, Stamping
  <2>2. /\ UNCHANGED nextId /\ Found(p) /\ Goto(h, Idle)
        /\ parties' = [parties EXCEPT ![p].members = Stamped(@, handling[h].who)]
    BY <1>5 DEF Stamp
  <2>3. parties[p] \in Doc
    BY <2>1, <2>2 DEF IInv, TypeOK, Found
  <2>4. /\ parties'[p].owner = parties[p].owner
        /\ parties'[p].members = Stamped(parties[p].members, handling[h].who)
        /\ \A q \in PartyIds \ {p} : parties'[q] = parties[q]
    BY <1>0, <2>1, <2>2, <2>3 DEF Doc
  <2>5. XuidsOf(parties'[p].members) = XuidsOf(parties[p].members)
    BY <2>1, <2>3, <2>4, StampedMembers DEF Doc
  <2>6. \A q \in PartyIds : SameRoster(parties[q], parties'[q])
    BY <2>2, <2>4, <2>5 DEF SameRoster, Found
  <2>7. /\ \A g \in Handlers \ {h} : handling'[g] = handling[g]
        /\ handling'[h].pc # "write"
    BY <1>0, <2>2 DEF Goto, Idle
  <2>8. QED
    BY <2>2, <2>6, <2>7, QuietStep
<1>6. CASE Write(h)
  <2> DEFINE p == handling[h].party
  <2>1. handling[h] \in Rewriting /\ p \in PartyIds
    BY <1>0, <1>6, RequestByPc DEF Write, Rewriting
  <2>2. /\ UNCHANGED nextId /\ Found(p) /\ SavedThenGoto(h, p, Idle)
        /\ parties' = [parties EXCEPT ![p].members = handling[h].members]
        /\ handling[h].current /\ handling[h].pc = "write"
    BY <1>6 DEF Write
  <2>3. parties[p] \in Doc
    BY <2>1, <2>2 DEF IInv, TypeOK, Found
  <2>4. /\ parties'[p].owner = parties[p].owner
        /\ parties'[p].members = handling[h].members
        /\ \A q \in PartyIds \ {p} : parties'[q] = parties[q]
    BY <1>0, <2>1, <2>2, <2>3 DEF Doc
  <2>5. parties[p].owner \in XuidsOf(handling[h].members)
    BY <2>2 DEF IInv, PendingWrites, PendingOK, Found
  <2>6. Idle.pc # "write"
    BY DEF Idle
  <2> HIDE DEF p
  <2>7. QED
    BY <1>0, <2>1, <2>2, <2>4, <2>5, <2>6, SavingStep
<1>7. CASE Dissolve(h)
  <2> DEFINE p == handling[h].party
  <2>1. /\ UNCHANGED nextId
        /\ parties' = [parties EXCEPT ![p] = NoParty]
        /\ Goto(h, [pc |-> "sweep", party |-> p])
    BY <1>7 DEF Dissolve
  <2>2. \A q \in PartyIds : SameRoster(parties[q], parties'[q])
    BY <1>0, <2>1 DEF SameRoster
  <2>3. /\ \A g \in Handlers \ {h} : handling'[g] = handling[g]
        /\ handling'[h].pc # "write"
    BY <1>0, <2>1 DEF Goto
  <2>4. QED
    BY <2>1, <2>2, <2>3, QuietStep
<1>8. QED
  BY <1>1, <1>2, <1>3, <1>4, <1>5, <1>6, <1>7 DEF Continued

LEMMA PassingKeeps ==
    ASSUME IInv, Passing
    PROVE  OwnerIsMember' /\ UsedIds' /\ PendingWrites'
<1>0. /\ DOMAIN handling = Handlers /\ DOMAIN parties = PartyIds
      /\ handling \in [Handlers -> Request]
  BY DEF IInv, TypeOK
<1>1. CASE UNCHANGED <<nextId, handling>> /\ \A p \in PartyIds : SameRoster(parties[p], parties'[p])
  <2>1. OwnerIsMember'
    BY <1>1 DEF IInv, OwnerIsMember, SameRoster, Found
  <2>2. UsedIds'
    BY <1>1 DEF IInv, UsedIds, SameRoster, Found
  <2>3. ASSUME NEW g \in Handlers, handling'[g].pc = "write"
        PROVE  /\ handling'[g].party < nextId'
               /\ PendingOK(handling'[g], parties'[handling'[g].party])
    <3>1. handling'[g] = handling[g] /\ handling[g].pc = "write"
      BY <1>1, <2>3
    <3>2. handling[g].party \in PartyIds
      BY <1>0, <3>1, RequestByPc DEF Rewriting
    <3>3. PendingOK(handling[g], parties[handling[g].party]) /\ handling[g].party < nextId
      BY <3>1 DEF IInv, PendingWrites
    <3>4. SameRoster(parties[handling[g].party], parties'[handling[g].party])
      BY <1>1, <3>2
    <3>5. PendingOK(handling[g], parties'[handling[g].party])
      BY <3>3, <3>4, PendingKept
    <3>6. QED
      BY <1>1, <3>1, <3>3, <3>5
  <2>4. PendingWrites'
    BY <2>3 DEF PendingWrites
  <2>5. QED
    BY <2>1, <2>2, <2>4
<1>2. ASSUME NEW p \in PartyIds, NEW who \in Players, Decline(p, who)
      PROVE  OwnerIsMember' /\ UsedIds' /\ PendingWrites'
  BY <1>1, <1>2 DEF Decline, SameRoster
<1>3. ASSUME NEW p \in PartyIds, ExpireParty(p)
      PROVE  OwnerIsMember' /\ UsedIds' /\ PendingWrites'
  BY <1>0, <1>1, <1>3 DEF ExpireParty, SameRoster
<1>4. ASSUME NEW i \in invites, ExpireInvite(i)
      PROVE  OwnerIsMember' /\ UsedIds' /\ PendingWrites'
  BY <1>1, <1>4 DEF ExpireInvite, SameRoster
<1>5. ASSUME NEW p \in PartyIds, NEW m \in Entry, Lapse(p, m)
      PROVE  OwnerIsMember' /\ UsedIds' /\ PendingWrites'
  <2>1. /\ UNCHANGED nextId /\ Found(p)
        /\ parties' = [parties EXCEPT ![p].members = Aged(@, m)]
        /\ handling' = [h \in Handlers |->
               IF handling[h].pc = "write" /\ handling[h].party = p
               THEN [handling[h] EXCEPT !.members = Aged(@, m)]
               ELSE handling[h]]
    BY <1>5 DEF Lapse
  <2>2. parties[p] \in Doc
    BY <2>1 DEF IInv, TypeOK, Found
  <2>3. /\ parties'[p].owner = parties[p].owner
        /\ parties'[p].members = Aged(parties[p].members, m)
        /\ \A q \in PartyIds \ {p} : parties'[q] = parties[q]
    BY <1>0, <2>1, <2>2 DEF Doc
  <2>4. XuidsOf(parties'[p].members) = XuidsOf(parties[p].members)
    BY <2>2, <2>3, AgedMembers DEF Doc
  <2>5. \A q \in PartyIds : SameRoster(parties[q], parties'[q])
    BY <2>1, <2>3, <2>4 DEF SameRoster, Found
  <2>6. OwnerIsMember'
    BY <2>5 DEF IInv, OwnerIsMember, SameRoster, Found
  <2>7. UsedIds'
    BY <2>1, <2>5 DEF IInv, UsedIds, SameRoster, Found
  <2>8. ASSUME NEW g \in Handlers, handling'[g].pc = "write"
        PROVE  /\ handling'[g].party < nextId'
               /\ PendingOK(handling'[g], parties'[handling'[g].party])
    <3>1. handling[g] \in Request
      BY <1>0
    <3>2. CASE handling[g].pc = "write" /\ handling[g].party = p
      <4> DEFINE aged == [handling[g] EXCEPT !.members = Aged(@, m)]
      <4>1. handling'[g] = aged
        BY <2>1, <3>2
      <4>2. handling[g] \in Rewriting
        BY <3>1, <3>2, RequestByPc
      <4>3. /\ aged.party = p /\ aged.gone = handling[g].gone
            /\ aged.current = handling[g].current
            /\ aged.members = Aged(handling[g].members, m)
        BY <3>2, <4>2 DEF Rewriting
      <4>4. XuidsOf(aged.members) = XuidsOf(handling[g].members)
        BY <4>2, <4>3, AgedMembers DEF Rewriting
      <4>5. p < nextId /\ PendingOK(handling[g], parties[p])
        BY <3>2 DEF IInv, PendingWrites
      <4>6. PendingOK(handling[g], parties'[p])
        BY <2>5, <4>5, PendingKept
      <4> HIDE DEF aged
      <4>7. PendingOK(aged, parties'[p])
        BY <4>3, <4>4, <4>6 DEF PendingOK
      <4>8. QED
        BY <2>1, <4>1, <4>3, <4>5, <4>7
    <3>3. CASE ~(handling[g].pc = "write" /\ handling[g].party = p)
      <4>1. handling'[g] = handling[g] /\ handling[g].pc = "write"
        BY <2>1, <2>8, <3>3
      <4>2. handling[g].party \in PartyIds
        BY <3>1, <4>1, RequestByPc DEF Rewriting
      <4>3. PendingOK(handling[g], parties[handling[g].party]) /\ handling[g].party < nextId
        BY <4>1 DEF IInv, PendingWrites
      <4>4. PendingOK(handling[g], parties'[handling[g].party])
        BY <2>5, <4>2, <4>3, PendingKept
      <4>5. QED
        BY <2>1, <4>1, <4>3, <4>4
    <3>4. QED
      BY <3>2, <3>3
  <2>9. PendingWrites'
    BY <2>8 DEF PendingWrites
  <2>10. QED
    BY <2>6, <2>7, <2>9
<1>6. QED
  BY <1>2, <1>3, <1>4, <1>5 DEF Passing

LEMMA FailKeeps ==
    ASSUME IInv, NEW h \in Handlers, Fail(h)
    PROVE  OwnerIsMember' /\ UsedIds' /\ PendingWrites'
<1>1. /\ UNCHANGED nextId
      /\ \A p \in PartyIds : SameRoster(parties[p], parties'[p])
      /\ \A g \in Handlers \ {h} : handling'[g] = handling[g]
      /\ handling'[h].pc # "write"
  BY DEF Fail, Goto, Idle, SameRoster, IInv, TypeOK
<1>2. QED
  BY <1>1, QuietStep

LEMMA RostersInductive == IInv /\ [Next]_vars => IInv'
<1> SUFFICES ASSUME IInv, [Next]_vars PROVE IInv'
  OBVIOUS
<1>1. TypeOK'
  BY TypeInductive DEF IInv
<1>2. CASE Next
  <2>1. ASSUME NEW h \in Handlers, Asked(h) \/ Continued(h) \/ Fail(h)
        PROVE  OwnerIsMember' /\ UsedIds' /\ PendingWrites'
    BY <2>1, AskedKeeps, ContinuedKeeps, FailKeeps
  <2>2. CASE Passing
    BY <1>1, <2>2, PassingKeeps DEF IInv
  <2>3. QED
    BY <1>1, <1>2, <2>1, <2>2 DEF Next, IInv
<1>3. CASE UNCHANGED vars
  BY <1>1, <1>3 DEF vars, IInv, OwnerIsMember, UsedIds, PendingWrites, Found
<1>4. QED
  BY <1>2, <1>3

LEMMA RostersStart == Init => IInv
<1> SUFFICES ASSUME Init PROVE IInv
  OBVIOUS
<1>1. TypeOK
  BY PartyAssumption DEF Init, TypeOK, Request
<1>2. OwnerIsMember /\ UsedIds /\ PendingWrites
  BY DEF Init, OwnerIsMember, UsedIds, PendingWrites, Found, Idle
<1>3. QED
  BY <1>1, <1>2 DEF IInv

\* Whatever requests overlap, fail or are cut off, a stored party always has its
\* owner among its members: `leave` by the owner and the reaping of the owner
\* dissolve, and no stale array can take the owner out.
THEOREM OwnerStays == Spec => []OwnerIsMember
<1>1. IInv => OwnerIsMember
  BY DEF IInv
<1>2. QED
  BY <1>1, RostersStart, RostersInductive, PTL DEF Spec

\* Whatever requests overlap, a write of the members array removes only those
\* its request meant to remove (the leaver, or the idle) and adds nobody: the
\* version check of the save turns a stale array away.
THEOREM WritesMerge == Spec => NobodyElseChanged
<1> DEFINE Kept == \A h \in Handlers :
          Write(h) =>
             LET r == handling[h]
                 before == XuidsOf(parties[r.party].members)
                 after == XuidsOf(parties'[r.party].members)
             IN  before \ r.gone \subseteq after /\ after \subseteq before
<1>1. IInv => Kept
  <2> SUFFICES ASSUME IInv, NEW h \in Handlers, Write(h)
               PROVE  LET r == handling[h]
                          before == XuidsOf(parties[r.party].members)
                          after == XuidsOf(parties'[r.party].members)
                      IN  before \ r.gone \subseteq after /\ after \subseteq before
    OBVIOUS
  <2> DEFINE p == handling[h].party
  <2>1. /\ handling[h].pc = "write" /\ handling[h].current /\ Found(p)
        /\ parties' = [parties EXCEPT ![p].members = handling[h].members]
    BY DEF Write
  <2>2. p \in PartyIds
    BY <2>1, RequestByPc DEF IInv, TypeOK, Rewriting
  <2>3. parties[p] \in Doc /\ DOMAIN parties = PartyIds
    BY <2>1, <2>2 DEF IInv, TypeOK, Found
  <2>4. parties'[p].members = handling[h].members
    BY <2>1, <2>2, <2>3 DEF Doc
  <2>5. /\ XuidsOf(parties[p].members) \ handling[h].gone \subseteq XuidsOf(handling[h].members)
        /\ XuidsOf(handling[h].members) \subseteq XuidsOf(parties[p].members)
    BY <2>1 DEF IInv, PendingWrites, PendingOK, Found
  <2>6. QED
    BY <2>4, <2>5
<1>2. IInv /\ [Next]_vars => [Kept]_vars
  BY <1>1
<1> HIDE DEF Kept
<1>3. Spec => [][Kept]_vars
  BY <1>2, RostersStart, RostersInductive, PTL DEF Spec
<1>4. QED
  BY <1>3 DEF NobodyElseChanged, Kept

-----------------------------------------------------------------------------
(* The service implements module Membership.                               *)

\* A document shows as a roster, and a deleted one as none.
LEMMA RosterOfDoc ==
    ASSUME NEW doc \in Doc \cup {NoParty}
    PROVE  /\ doc = NoParty => RosterOf(doc) = NoParty
           /\ doc # NoParty =>
                 /\ RosterOf(doc) = [owner |-> doc.owner, people |-> XuidsOf(doc.members)]
                 /\ RosterOf(doc) # NoParty
<1>1. CASE doc # NoParty
  <2>1. doc \in Doc
    BY <1>1
  <2>2. doc.owner \in Players /\ XuidsOf(doc.members) \in SUBSET Players
    BY <2>1 DEF Doc, XuidsOf, Entry
  <2>3. RosterOf(doc) = [owner |-> doc.owner, people |-> XuidsOf(doc.members)]
    BY <1>1 DEF RosterOf
  <2>4. RosterOf(doc) \in [owner : Players, people : SUBSET Players]
    BY <2>2, <2>3
  <2>5. QED
    BY <1>1, <2>3, <2>4, PartyAssumption
<1>2. QED
  BY <1>1 DEF RosterOf

LEMMA RosterOfFound ==
    ASSUME TypeOK, NEW p \in PartyIds
    PROVE  /\ Found(p) => /\ Rosters[p] # NoParty
                          /\ Rosters[p].owner = parties[p].owner
                          /\ Rosters[p].people = XuidsOf(parties[p].members)
           /\ ~Found(p) => Rosters[p] = NoParty
<1>1. parties[p] \in Doc \cup {NoParty} /\ Rosters[p] = RosterOf(parties[p])
  BY DEF TypeOK, Rosters
<1>2. QED
  BY <1>1, RosterOfDoc DEF Found

LEMMA RosterReplaced ==
    ASSUME NEW p \in PartyIds, \A q \in PartyIds \ {p} : parties'[q] = parties[q]
    PROVE  Rosters' = [Rosters EXCEPT ![p] = RosterOf(parties'[p])]
BY DEF Rosters

LEMMA RostersSame ==
    ASSUME \A p \in PartyIds : RosterOf(parties'[p]) = RosterOf(parties[p])
    PROVE  Rosters' = Rosters
BY DEF Rosters

(* What is under way when requests go on. *)
LEMMA CallsSame ==
    ASSUME \A g \in Handlers : CallsOf(handling'[g]) = CallsOf(handling[g])
    PROVE  PartyCalls' = PartyCalls
BY DEF PartyCalls

LEMMA CallsFewer ==
    ASSUME \A g \in Handlers : CallsOf(handling'[g]) \subseteq CallsOf(handling[g])
    PROVE  PartyCalls' \subseteq PartyCalls
BY DEF PartyCalls

LEMMA CallsMore ==
    ASSUME NEW h \in Handlers, CallsOf(handling[h]) = {},
           \A g \in Handlers \ {h} : handling'[g] = handling[g]
    PROVE  PartyCalls' = PartyCalls \cup CallsOf(handling'[h])
BY DEF PartyCalls

LEMMA CallStands ==
    ASSUME NEW h \in Handlers, NEW c \in CallsOf(handling[h])
    PROVE  c \in PartyCalls
BY DEF PartyCalls

LEMMA OutdatedCalls ==
    ASSUME NEW r \in Request, NEW p
    PROVE  CallsOf(Outdated(r, p)) = CallsOf(r)
<1>1. CASE r.pc \in {"stamp", "write"}
  <2>1. r \in Stamping \/ r \in Rewriting
    BY <1>1, RequestByPc
  <2>2. Outdated(r, p).pc = r.pc
    BY <2>1 DEF Outdated, Stamping, Rewriting
  <2>3. QED
    BY <1>1, <2>2 DEF CallsOf
<1>2. CASE r.pc \notin {"stamp", "write"}
  BY <1>2 DEF Outdated
<1>3. QED
  BY <1>1, <1>2

LEMMA GotoCalls ==
    ASSUME TypeOK, NEW h \in Handlers, NEW r, Goto(h, r)
    PROVE  /\ handling'[h] = r
           /\ \A g \in Handlers \ {h} : handling'[g] = handling[g]
           /\ CallsOf(r) \subseteq CallsOf(handling[h]) => PartyCalls' \subseteq PartyCalls
           /\ CallsOf(r) = CallsOf(handling[h]) => PartyCalls' = PartyCalls
<1>1. handling'[h] = r /\ \A g \in Handlers \ {h} : handling'[g] = handling[g]
  BY DEF Goto, TypeOK
<1>2. ASSUME CallsOf(r) \subseteq CallsOf(handling[h]) PROVE PartyCalls' \subseteq PartyCalls
  <2>1. \A g \in Handlers : CallsOf(handling'[g]) \subseteq CallsOf(handling[g])
    BY <1>1, <1>2
  <2>2. QED
    BY <2>1, CallsFewer
<1>3. ASSUME CallsOf(r) = CallsOf(handling[h]) PROVE PartyCalls' = PartyCalls
  <2>1. \A g \in Handlers : CallsOf(handling'[g]) = CallsOf(handling[g])
    BY <1>1, <1>3
  <2>2. QED
    BY <2>1, CallsSame
<1>4. QED
  BY <1>1, <1>2, <1>3

LEMMA SavedCalls ==
    ASSUME TypeOK, NEW h \in Handlers, NEW p, NEW r, SavedThenGoto(h, p, r)
    PROVE  /\ CallsOf(r) \subseteq CallsOf(handling[h]) => PartyCalls' \subseteq PartyCalls
           /\ CallsOf(r) = CallsOf(handling[h]) => PartyCalls' = PartyCalls
<1>1. /\ handling'[h] = r
      /\ \A g \in Handlers \ {h} : handling'[g] = Outdated(handling[g], p)
  BY DEF SavedThenGoto
<1>2. \A g \in Handlers \ {h} : CallsOf(handling'[g]) = CallsOf(handling[g])
  BY <1>1, OutdatedCalls DEF TypeOK
<1>3. ASSUME CallsOf(r) \subseteq CallsOf(handling[h]) PROVE PartyCalls' \subseteq PartyCalls
  <2>1. \A g \in Handlers : CallsOf(handling'[g]) \subseteq CallsOf(handling[g])
    BY <1>1, <1>2, <1>3
  <2>2. QED
    BY <2>1, CallsFewer
<1>4. ASSUME CallsOf(r) = CallsOf(handling[h]) PROVE PartyCalls' = PartyCalls
  <2>1. \A g \in Handlers : CallsOf(handling'[g]) = CallsOf(handling[g])
    BY <1>1, <1>2, <1>4
  <2>2. QED
    BY <2>1, CallsSame
<1>5. QED
  BY <1>3, <1>4

\* The variables of module Membership.
ToldVars == <<Rosters, 1..nextId-1, invites, PartyCalls>>

LEMMA Withdrawn ==
    ASSUME UNCHANGED nextId, Rosters' = Rosters, invites' \subseteq invites, PartyCalls' \subseteq PartyCalls
    PROVE  Told!MembershipNext
BY DEF Told!MembershipNext, Told!Withdraw

(* A request that begins to invite or to join does so in Membership. *)
LEMMA AskedTold ==
    ASSUME IInv, NEW h \in Handlers, Asked(h)
    PROVE  Told!MembershipNext
<1>0. TypeOK /\ CallsOf(Idle) = {}
  BY DEF IInv, CallsOf, Idle
<1>1. UNCHANGED <<parties, nextId, invites>> /\ handling[h] = Idle
  BY DEF Asked, Create, Invite, Join, FindPartyOf, Leave, Poll
<1>2. Rosters' = Rosters /\ (1..nextId-1)' = 1..nextId-1
  BY <1>1 DEF Rosters
<1>3. ASSUME NEW r, Goto(h, r), CallsOf(r) = {}
      PROVE  Told!MembershipNext
  <2>1. PartyCalls' = PartyCalls
    BY <1>0, <1>1, <1>3, GotoCalls
  <2>2. QED
    BY <1>1, <1>2, <2>1, Withdrawn
<1>4. ASSUME NEW r, Goto(h, r)
      PROVE  PartyCalls' = PartyCalls \cup CallsOf(r)
  BY <1>0, <1>1, <1>4, CallsMore, GotoCalls
<1>5. ASSUME NEW who \in Players, Create(h, who)
      PROVE  Told!MembershipNext
  BY <1>3, <1>5 DEF Create, CallsOf
<1>6. ASSUME NEW p \in PartyIds, NEW who \in Players, Invite(h, p, who)
      PROVE  Told!MembershipNext
  <2>1. PartyCalls' = PartyCalls \cup {<<"invite", p, who>>}
    BY <1>4, <1>6 DEF Invite, CallsOf
  <2>2. Rosters[p] # NoParty /\ who \notin Rosters[p].people
    BY <1>0, <1>6, RosterOfFound DEF Invite
  <2>3. Told!BeginInvite(p, who)
    BY <1>1, <1>2, <2>1, <2>2 DEF Told!BeginInvite
  <2>4. QED
    BY <2>3 DEF Told!MembershipNext
<1>7. ASSUME NEW p \in PartyIds, NEW who \in Players, Join(h, p, who)
      PROVE  Told!MembershipNext
  <2>1. PartyCalls' = PartyCalls \cup {<<"join", p, who>>} /\ <<p, who>> \in invites
    BY <1>4, <1>7 DEF Join, CallsOf
  <2>2. Told!BeginJoin(p, who)
    BY <1>1, <1>2, <2>1 DEF Told!BeginJoin
  <2>3. QED
    BY <2>2 DEF Told!MembershipNext
<1>8. ASSUME NEW p \in PartyIds, NEW who \in Players, Leave(h, p, who)
      PROVE  Told!MembershipNext
  <2>1. Goto(h, Departure(p, who)) /\ CallsOf(Departure(p, who)) = {}
    BY <1>8 DEF Leave, Departure, CallsOf
  <2>2. QED
    BY <1>3, <2>1
<1>9. ASSUME NEW p \in PartyIds, NEW who \in Players, FindPartyOf(h, p, who)
      PROVE  Told!MembershipNext
  BY <1>3, <1>9 DEF FindPartyOf, CallsOf
<1>10. ASSUME NEW p \in PartyIds, NEW who \in Players, Poll(h, p, who)
       PROVE  Told!MembershipNext
  <2>1. PICK r : Goto(h, r) /\ r.pc \in {"dissolve", "stamp", "write"}
    BY <1>10 DEF Poll
  <2>2. CallsOf(r) = {}
    BY <2>1 DEF CallsOf
  <2>3. QED
    BY <1>3, <2>1, <2>2
<1>11. QED
  BY <1>5, <1>6, <1>7, <1>8, <1>9, <1>10 DEF Asked

(* Steps that change no roster and begin nothing. *)
LEMMA QuietTold ==
    ASSUME IInv, NEW h \in Handlers,
           \/ Consume(h) \/ Sweep(h) \/ Admit(h) \/ Keep(h) \/ JoinGone(h)
           \/ LeaveFound(h) \/ SaveRefused(h) \/ Fail(h)
    PROVE  Told!MembershipNext
<1>0. TypeOK /\ CallsOf(Idle) = {}
  BY DEF IInv, CallsOf, Idle
<1>1. UNCHANGED <<parties, nextId>> /\ invites' \subseteq invites
  BY DEF Consume, Sweep, Admit, Keep, JoinGone, LeaveFound, SaveRefused, Fail
<1>2. \E r : Goto(h, r) /\ CallsOf(r) \subseteq CallsOf(handling[h])
  <2>1. CASE Consume(h) \/ Sweep(h) \/ JoinGone(h) \/ SaveRefused(h) \/ Fail(h)
    BY <1>0, <2>1 DEF Consume, Sweep, JoinGone, SaveRefused, Fail
  <2>2. CASE LeaveFound(h)
    <3>1. \A p, who : CallsOf(Departure(p, who)) = {}
      BY DEF Departure, CallsOf
    <3>2. QED
      BY <1>0, <2>2, <3>1 DEF LeaveFound
  <2>3. CASE Admit(h) \/ Keep(h)
    <3> DEFINE r == handling[h]
    <3>1. r \in [pc : {"invite", "admit", "push", "keep", "consume", "leaving"},
                 party : PartyIds, who : Players]
      BY <1>0, <2>3, RequestByPc DEF Admit, Keep, TypeOK
    <3>2. /\ CallsOf([r EXCEPT !.pc = "keep"]) = {}
          /\ CallsOf([r EXCEPT !.pc = "consume"]) = {}
          /\ r.pc = "admit" => CallsOf([r EXCEPT !.pc = "push"]) = CallsOf(r)
      BY <3>1 DEF CallsOf
    <3>3. QED
      BY <1>0, <2>3, <3>2 DEF Admit, Keep
  <2>4. QED
    BY <2>1, <2>2, <2>3
<1>3. PartyCalls' \subseteq PartyCalls
  BY <1>0, <1>2, GotoCalls
<1>4. Rosters' = Rosters
  BY <1>1 DEF Rosters
<1>5. QED
  BY <1>1, <1>3, <1>4, Withdrawn

LEMMA InsertForms ==
    ASSUME IInv, NEW h \in Handlers, Insert(h)
    PROVE  Told!MembershipNext
<1>0. TypeOK /\ CallsOf(Idle) = {} /\ handling[h] \in Request
  BY DEF IInv, CallsOf, Idle, TypeOK
<1> DEFINE who == handling[h].who
           doc == [owner |-> who, members |-> {[xuid |-> who, seat |-> 1, fresh |-> TRUE]}]
<1>1. /\ handling[h].pc = "create" /\ nextId \in PartyIds /\ nextId' = nextId + 1
      /\ parties' = [parties EXCEPT ![nextId] = doc]
      /\ Goto(h, Idle) /\ UNCHANGED invites
  BY DEF Insert
<1>2. who \in Players
  BY <1>0, <1>1, RequestByPc
<1>3. doc \in Doc
  BY <1>2, PartyAssumption DEF Doc, Entry, Seats
<1>4. doc.owner = who /\ XuidsOf(doc.members) = {who}
  BY DEF XuidsOf
<1> HIDE DEF doc
<1>5. RosterOf(doc) = [owner |-> who, people |-> {who}]
  <2>1. doc # NoParty
    BY <1>3, PartyAssumption
  <2>2. QED
    BY <1>3, <1>4, <2>1, RosterOfDoc
<1>6. Rosters' = [Rosters EXCEPT ![nextId] = [owner |-> who, people |-> {who}]]
  <2>1. /\ parties'[nextId] = doc
        /\ \A q \in PartyIds \ {nextId} : parties'[q] = parties[q]
    BY <1>0, <1>1 DEF TypeOK
  <2>2. QED
    BY <1>1, <1>5, <2>1, RosterReplaced
<1>7. PartyCalls' = PartyCalls
  <2>1. CallsOf(handling[h]) = {}
    BY <1>1 DEF CallsOf
  <2>2. QED
    BY <1>0, <1>1, <2>1, GotoCalls
<1>8. nextId \notin 1..nextId-1 /\ (1..nextId-1)' = (1..nextId-1) \cup {nextId}
  <2>1. nextId \in Nat \ {0}
    BY <1>1, PartyAssumption DEF PartyIds
  <2>2. (1..nextId-1)' = 1..nextId'-1
    OBVIOUS
  <2>3. nextId'-1 = nextId
    BY <1>1, <2>1
  <2>4. QED
    BY <2>1, <2>2, <2>3
<1>9. Told!Form(nextId, who)
  BY <1>1, <1>6, <1>7, <1>8 DEF Told!Form
<1>10. QED
  BY <1>1, <1>2, <1>9 DEF Told!MembershipNext

LEMMA SaveGives ==
    ASSUME IInv, NEW h \in Handlers, SaveInvite(h)
    PROVE  Told!MembershipNext
<1>0. TypeOK /\ CallsOf(Idle) = {} /\ handling[h] \in Request
  BY DEF IInv, CallsOf, Idle, TypeOK
<1> DEFINE p == handling[h].party
           who == handling[h].who
<1>1. /\ handling[h].pc = "invite" /\ Goto(h, Idle)
      /\ invites' = invites \cup {<<p, who>>}
      /\ UNCHANGED <<parties, nextId>>
  BY DEF SaveInvite
<1>2. p \in PartyIds /\ who \in Players
  BY <1>0, <1>1, RequestByPc
<1>3. <<"invite", p, who>> \in PartyCalls
  BY <1>1, CallStands DEF CallsOf
<1>4. PartyCalls' \subseteq PartyCalls
  BY <1>0, <1>1, GotoCalls
<1>5. Rosters' = Rosters /\ (1..nextId-1)' = 1..nextId-1
  BY <1>1 DEF Rosters
<1>6. Told!Give(p, who)
  BY <1>1, <1>3, <1>4, <1>5 DEF Told!Give
<1>7. QED
  BY <1>2, <1>6 DEF Told!MembershipNext

LEMMA PushEnters ==
    ASSUME IInv, NEW h \in Handlers, NEW seat \in Seats, Push(h, seat)
    PROVE  Told!MembershipNext
<1>0. TypeOK /\ handling[h] \in Request
  BY DEF IInv, TypeOK
<1> DEFINE p == handling[h].party
           who == handling[h].who
           next == [handling[h] EXCEPT !.pc = "consume"]
           seated == [xuid |-> who, seat |-> seat, fresh |-> TRUE]
<1>1. /\ handling[h].pc = "push" /\ Found(p) /\ SavedThenGoto(h, p, next)
      /\ parties' = [parties EXCEPT ![p].members = @ \cup {seated}]
      /\ UNCHANGED <<nextId, invites>>
  BY DEF Push
<1>2. handling[h] \in [pc : {"invite", "admit", "push", "keep", "consume", "leaving"},
                       party : PartyIds, who : Players]
  BY <1>0, <1>1, RequestByPc
<1>3. p \in PartyIds /\ who \in Players
  BY <1>2
<1>4. <<"join", p, who>> \in PartyCalls
  BY <1>1, CallStands DEF CallsOf
<1>5. PartyCalls' \subseteq PartyCalls
  <2>1. CallsOf(next) = {}
    BY <1>2 DEF CallsOf
  <2> HIDE DEF next, p
  <2>2. QED
    BY <1>0, <1>1, <2>1, SavedCalls
<1>6. parties[p] \in Doc
  BY <1>0, <1>1, <1>3 DEF TypeOK, Found
<1> DEFINE doc == [parties[p] EXCEPT !.members = @ \cup {seated}]
<1>7. /\ doc.owner = parties[p].owner /\ doc.members = parties[p].members \cup {seated}
      /\ parties'[p] = doc
      /\ \A q \in PartyIds \ {p} : parties'[q] = parties[q]
  BY <1>0, <1>1, <1>3, <1>6 DEF Doc, TypeOK
<1>8. XuidsOf(doc.members) = XuidsOf(parties[p].members) \cup {who}
  <2>1. seated.xuid = who
    OBVIOUS
  <2> HIDE DEF seated, who, doc
  <2>2. XuidsOf(parties[p].members \cup {seated}) = XuidsOf(parties[p].members) \cup {who}
    BY <2>1 DEF XuidsOf
  <2>3. QED
    BY <1>7, <2>2
<1>9. doc \in Doc
  <2>1. seated \in Entry
    BY <1>3 DEF Entry
  <2>2. QED
    BY <1>6, <2>1 DEF Doc
<1> HIDE DEF doc, p, who
<1>10. /\ Rosters[p] # NoParty
       /\ Rosters[p] = [owner |-> parties[p].owner, people |-> XuidsOf(parties[p].members)]
  <2>1. Rosters[p] = RosterOf(parties[p]) /\ parties[p] # NoParty
    BY <1>1, <1>3 DEF Rosters, Found
  <2>2. QED
    BY <1>6, <2>1, RosterOfDoc
<1>11. RosterOf(doc) = [owner |-> parties[p].owner,
                        people |-> XuidsOf(parties[p].members) \cup {who}]
  <2>1. doc # NoParty
    BY <1>9, PartyAssumption
  <2>2. QED
    <3>1. RosterOf(doc) = [owner |-> doc.owner, people |-> XuidsOf(doc.members)]
      BY <1>9, <2>1, RosterOfDoc
    <3>2. QED
      BY <1>7, <1>8, <3>1
<1>12. Rosters' = [Rosters EXCEPT ![p] = RosterOf(doc)]
  BY <1>3, <1>7, RosterReplaced
<1>13. Rosters' = [Rosters EXCEPT ![p].people = @ \cup {who}]
  <2> DEFINE people == XuidsOf(parties[p].members)
  <2>1. /\ Rosters[p] = [owner |-> parties[p].owner, people |-> people]
        /\ Rosters' = [Rosters EXCEPT ![p] = [owner |-> parties[p].owner,
                                           people |-> people \cup {who}]]
    BY <1>10, <1>11, <1>12
  <2> HIDE DEF people
  <2> DEFINE after == people \cup {who}
  <2> HIDE DEF after
  <2>2. [[owner |-> parties[p].owner, people |-> people] EXCEPT !.people = after]
            = [owner |-> parties[p].owner, people |-> after]
    OBVIOUS
  <2>3. [Rosters[p] EXCEPT !.people = after] = [owner |-> parties[p].owner, people |-> after]
    BY <2>1, <2>2
  <2>4. [Rosters EXCEPT ![p].people = after]
            = [Rosters EXCEPT ![p] = [Rosters[p] EXCEPT !.people = after]]
    OBVIOUS
  <2>5. Rosters' = [Rosters EXCEPT ![p].people = after]
    BY <2>1, <2>3, <2>4 DEF after
  <2>6. Rosters[p].people = people
    BY <2>1
  <2>7. QED
    BY <2>5, <2>6 DEF after
<1>14. (1..nextId-1)' = 1..nextId-1
  BY <1>1
<1>15. Told!Enter(p, who)
  BY <1>1, <1>4, <1>5, <1>10, <1>13, <1>14 DEF Told!Enter
<1>16. QED
  BY <1>3, <1>15 DEF Told!MembershipNext

LEMMA WriteGoes ==
    ASSUME IInv, NEW h \in Handlers, Write(h)
    PROVE  Told!MembershipNext
<1>0. TypeOK /\ CallsOf(Idle) = {} /\ handling[h] \in Request
  BY DEF IInv, TypeOK, CallsOf, Idle
<1> DEFINE r == handling[h]
           p == r.party
           people == XuidsOf(parties[p].members)
           gone == people \ XuidsOf(r.members)
<1>1. /\ r.pc = "write" /\ r.current /\ Found(p) /\ SavedThenGoto(h, p, Idle)
      /\ parties' = [parties EXCEPT ![p].members = r.members]
      /\ UNCHANGED <<nextId, invites>>
  BY DEF Write
<1>2. r \in Rewriting /\ p \in PartyIds /\ r.members \in SUBSET Entry
  BY <1>0, <1>1, RequestByPc DEF Rewriting
<1>3. parties[p] \in Doc /\ parties[p] # NoParty
  BY <1>0, <1>1, <1>2 DEF TypeOK, Found
<1>4. /\ XuidsOf(r.members) \subseteq people
      /\ parties[p].owner \in XuidsOf(r.members)
  BY <1>1, <1>3 DEF IInv, PendingWrites, PendingOK
<1>5. XuidsOf(r.members) = people \ gone /\ parties[p].owner \notin gone
  BY <1>4
<1>6. gone \in SUBSET Players
  BY <1>3 DEF XuidsOf, Entry, Doc
<1>7. PartyCalls' = PartyCalls
  <2>1. CallsOf(r) = {}
    BY <1>1 DEF CallsOf
  <2>2. QED
    BY <1>0, <1>1, <2>1, SavedCalls
<1> DEFINE doc == [parties[p] EXCEPT !.members = r.members]
<1>8. /\ doc.owner = parties[p].owner /\ doc.members = r.members
      /\ parties'[p] = doc /\ doc \in Doc
      /\ \A q \in PartyIds \ {p} : parties'[q] = parties[q]
  BY <1>0, <1>1, <1>2, <1>3 DEF Doc, TypeOK
<1> HIDE DEF doc, gone, people
<1>9. /\ Rosters[p] # NoParty
      /\ Rosters[p] = [owner |-> parties[p].owner, people |-> people]
  <2>1. Rosters[p] = RosterOf(parties[p])
    BY <1>2 DEF Rosters
  <2>2. QED
    BY <1>3, <2>1, RosterOfDoc DEF people
<1>10. RosterOf(doc) = [owner |-> parties[p].owner, people |-> people \ gone]
  <2>1. doc # NoParty
    BY <1>8, PartyAssumption
  <2>2. QED
    BY <1>5, <1>8, <2>1, RosterOfDoc
<1>11. Rosters' = [Rosters EXCEPT ![p] = RosterOf(doc)]
  BY <1>2, <1>8, RosterReplaced
<1>12. Rosters' = [Rosters EXCEPT ![p].people = @ \ gone]
  <2>1. Rosters' = [Rosters EXCEPT ![p] = [owner |-> parties[p].owner,
                                           people |-> people \ gone]]
    BY <1>10, <1>11
  <2> HIDE DEF p
  <2> DEFINE after == people \ gone
  <2> HIDE DEF after
  <2>2. [[owner |-> parties[p].owner, people |-> people] EXCEPT !.people = after]
            = [owner |-> parties[p].owner, people |-> after]
    OBVIOUS
  <2>3. [Rosters[p] EXCEPT !.people = after] = [owner |-> parties[p].owner, people |-> after]
    BY <1>9, <2>2
  <2>4. [Rosters EXCEPT ![p].people = after]
            = [Rosters EXCEPT ![p] = [Rosters[p] EXCEPT !.people = after]]
    OBVIOUS
  <2>5. Rosters' = [Rosters EXCEPT ![p].people = after]
    BY <2>1, <2>3, <2>4 DEF after
  <2>6. Rosters[p].people = people
    BY <1>9
  <2>7. QED
    BY <2>5, <2>6 DEF after
<1>13. (1..nextId-1)' = 1..nextId-1
  BY <1>1
<1>14. Told!Go(p, gone)
  BY <1>1, <1>5, <1>7, <1>9, <1>12, <1>13 DEF Told!Go
<1>15. QED
  BY <1>2, <1>6, <1>14 DEF Told!MembershipNext

LEMMA DissolveEnds ==
    ASSUME IInv, NEW h \in Handlers, Dissolve(h)
    PROVE  Told!MembershipNext
<1>0. TypeOK /\ handling[h] \in Request
  BY DEF IInv, TypeOK
<1> DEFINE p == handling[h].party
<1>1. /\ handling[h].pc = "dissolve" /\ Goto(h, [pc |-> "sweep", party |-> p])
      /\ parties' = [parties EXCEPT ![p] = NoParty]
      /\ UNCHANGED <<nextId, invites>>
  BY DEF Dissolve
<1>2. p \in PartyIds
  BY <1>0, <1>1, RequestByPc DEF Dissolving
<1>3. PartyCalls' = PartyCalls
  <2>1. CallsOf(handling[h]) = {} /\ CallsOf([pc |-> "sweep", party |-> p]) = {}
    BY <1>1 DEF CallsOf
  <2>2. QED
    BY <1>0, <1>1, <2>1, GotoCalls
<1>4. Rosters' = [Rosters EXCEPT ![p] = NoParty]
  <2>1. parties'[p] = NoParty /\ \A q \in PartyIds \ {p} : parties'[q] = parties[q]
    BY <1>0, <1>1, <1>2 DEF TypeOK
  <2>2. QED
    BY <1>2, <2>1, RosterReplaced DEF RosterOf
<1>5. Told!EndParty(p)
  BY <1>1, <1>3, <1>4 DEF Told!EndParty
<1>6. QED
  BY <1>2, <1>5 DEF Told!MembershipNext

LEMMA StampTold ==
    ASSUME IInv, NEW h \in Handlers, Stamp(h)
    PROVE  Told!MembershipNext
<1>0. TypeOK /\ CallsOf(Idle) = {} /\ handling[h] \in Request
  BY DEF IInv, TypeOK, CallsOf, Idle
<1> DEFINE p == handling[h].party
           who == handling[h].who
<1>1. /\ handling[h].pc = "stamp" /\ Goto(h, Idle) /\ Found(p)
      /\ parties' = [parties EXCEPT ![p].members = Stamped(@, who)]
      /\ UNCHANGED <<nextId, invites>>
  BY DEF Stamp
<1>2. p \in PartyIds /\ who \in Players
  BY <1>0, <1>1, RequestByPc DEF Stamping
<1>3. parties[p] \in Doc
  BY <1>0, <1>1, <1>2 DEF TypeOK, Found
<1> DEFINE doc == [parties[p] EXCEPT !.members = Stamped(@, who)]
<1>4. /\ doc.owner = parties[p].owner /\ doc.members = Stamped(parties[p].members, who)
      /\ parties'[p] = doc
      /\ \A q \in PartyIds \ {p} : parties'[q] = parties[q]
  BY <1>0, <1>1, <1>2, <1>3 DEF Doc, TypeOK
<1>5. /\ XuidsOf(doc.members) = XuidsOf(parties[p].members)
      /\ doc.members \in SUBSET Entry
  BY <1>2, <1>3, <1>4, StampedMembers DEF Doc
<1>6. doc \in Doc
  BY <1>3, <1>5 DEF Doc
<1> HIDE DEF doc
<1>7. RosterOf(doc) = RosterOf(parties[p])
  <2>1. doc # NoParty /\ parties[p] # NoParty
    BY <1>3, <1>6, PartyAssumption
  <2>2. QED
    BY <1>3, <1>4, <1>5, <1>6, <2>1, RosterOfDoc
<1>8. Rosters' = Rosters
  BY <1>4, <1>7, RostersSame
<1>9. PartyCalls' \subseteq PartyCalls
  BY <1>0, <1>1, GotoCalls
<1>10. QED
  BY <1>1, <1>8, <1>9, Withdrawn

LEMMA PassingTold ==
    ASSUME IInv, Passing
    PROVE  Told!MembershipNext
<1>0. TypeOK
  BY DEF IInv
<1>1. ASSUME NEW p \in PartyIds, NEW m \in Entry, Lapse(p, m)
      PROVE  Told!MembershipNext
  <2>1. /\ Found(p) /\ parties' = [parties EXCEPT ![p].members = Aged(@, m)]
        /\ handling' = [h \in Handlers |->
               IF handling[h].pc = "write" /\ handling[h].party = p
               THEN [handling[h] EXCEPT !.members = Aged(@, m)]
               ELSE handling[h]]
        /\ UNCHANGED <<nextId, invites>>
    BY <1>1 DEF Lapse
  <2>2. parties[p] \in Doc
    BY <1>0, <2>1 DEF TypeOK, Found
  <2> DEFINE doc == [parties[p] EXCEPT !.members = Aged(@, m)]
  <2>3. /\ doc.owner = parties[p].owner /\ doc.members = Aged(parties[p].members, m)
        /\ parties'[p] = doc
        /\ \A q \in PartyIds \ {p} : parties'[q] = parties[q]
    BY <1>0, <2>1, <2>2 DEF Doc, TypeOK
  <2>4. /\ XuidsOf(doc.members) = XuidsOf(parties[p].members)
        /\ doc.members \in SUBSET Entry
    BY <2>2, <2>3, AgedMembers DEF Doc
  <2>5. doc \in Doc
    BY <2>2, <2>4 DEF Doc
  <2> HIDE DEF doc
  <2>6. RosterOf(doc) = RosterOf(parties[p])
    <3>1. doc # NoParty /\ parties[p] # NoParty
      BY <2>2, <2>5, PartyAssumption
    <3>2. QED
      BY <2>2, <2>3, <2>4, <2>5, <3>1, RosterOfDoc
  <2>7. Rosters' = Rosters
    BY <2>3, <2>6, RostersSame
  <2>8. ASSUME NEW h \in Handlers PROVE CallsOf(handling'[h]) = CallsOf(handling[h])
    <3>1. CASE handling[h].pc = "write"
      <4>1. handling[h] \in Rewriting
        BY <1>0, <3>1, RequestByPc DEF TypeOK
      <4>2. handling'[h].pc = "write"
        BY <2>1, <3>1, <4>1 DEF Rewriting
      <4>3. QED
        BY <3>1, <4>2 DEF CallsOf
    <3>2. CASE handling[h].pc # "write"
      BY <2>1, <3>2
    <3>3. QED
      BY <3>1, <3>2
  <2>9. PartyCalls' = PartyCalls
    BY <2>8, CallsSame
  <2>10. QED
    BY <2>1, <2>7, <2>9, Withdrawn
<1>2. ASSUME NEW p \in PartyIds, ExpireParty(p)
      PROVE  Told!MembershipNext
  <2>1. parties' = [parties EXCEPT ![p] = NoParty] /\ UNCHANGED <<nextId, invites, handling>>
    BY <1>2 DEF ExpireParty
  <2>2. parties'[p] = NoParty /\ \A q \in PartyIds \ {p} : parties'[q] = parties[q]
    BY <1>0, <2>1 DEF TypeOK
  <2>3. Rosters' = [Rosters EXCEPT ![p] = NoParty]
    BY <2>2, RosterReplaced DEF RosterOf
  <2>4. PartyCalls' = PartyCalls
    BY <2>1 DEF PartyCalls
  <2>5. Told!EndParty(p)
    BY <2>1, <2>3, <2>4 DEF Told!EndParty
  <2>6. QED
    BY <2>5 DEF Told!MembershipNext
<1>3. ASSUME \/ \E p \in PartyIds, who \in Players : Decline(p, who)
             \/ \E i \in invites : ExpireInvite(i)
      PROVE  Told!MembershipNext
  <2>1. UNCHANGED <<parties, nextId, handling>> /\ invites' \subseteq invites
    BY <1>3 DEF Decline, ExpireInvite
  <2>2. Rosters' = Rosters /\ PartyCalls' = PartyCalls
    BY <2>1 DEF Rosters, PartyCalls
  <2>3. QED
    BY <2>1, <2>2, Withdrawn
<1>4. QED
  BY <1>1, <1>2, <1>3 DEF Passing

LEMMA StepTold == IInv /\ [Next]_vars => [Told!MembershipNext]_ToldVars
<1> SUFFICES ASSUME IInv, [Next]_vars PROVE [Told!MembershipNext]_ToldVars
  OBVIOUS
<1>1. CASE UNCHANGED vars
  BY <1>1 DEF vars, ToldVars, Rosters, PartyCalls
<1>2. ASSUME NEW h \in Handlers, Asked(h) \/ Continued(h) \/ Fail(h)
      PROVE  Told!MembershipNext
  BY <1>2, AskedTold, QuietTold, InsertForms, SaveGives, PushEnters, WriteGoes, DissolveEnds,
     StampTold DEF Continued
<1>3. QED
  BY <1>1, <1>2, PassingTold DEF Next

LEMMA StartTold == Init => Told!MembershipInit
<1> SUFFICES ASSUME Init PROVE Told!MembershipInit
  OBVIOUS
<1>1. Rosters = [p \in PartyIds |-> NoParty]
  BY DEF Init, Rosters, RosterOf
<1>2. 1..nextId-1 = {} /\ invites = {}
  BY DEF Init
<1>3. PartyCalls = {}
  BY DEF Init, PartyCalls, CallsOf, Idle
<1>4. QED
  BY <1>1, <1>2, <1>3 DEF Told!MembershipInit

(* The party service implements module Membership: however requests overlap and
   fail, and however invitations and parties go between a join's find of its
   invite and its $push, a player gets into a party only after an invitation to
   that party was asked for, was given and was there when the join began; its
   owner neither changes nor goes; and a party that ended does not come back. *)
THEOREM MembershipPromised == Spec => MembershipKept
<1>1. IInv /\ [Next]_vars => [Told!MembershipNext]_<<Rosters, 1..nextId-1, invites, PartyCalls>>
  BY StepTold DEF ToldVars
<1>2. QED
  BY <1>1, RostersStart, RostersInductive, StartTold, PTL
     DEF Spec, MembershipKept, Told!MembershipSpec

-----------------------------------------------------------------------------
(* The copies that requests hold.  A write that can still go through has no *)
(* places that the stored party lacks: what moves the version of a party    *)
(* outdates it, and the rest leaves the places of the party as they are.    *)

PlacesOf(members) == {<<m.xuid, m.seat>> : m \in members}

\* No two entries have the same place.
Apart(members) == \A m, n \in members : m.seat = n.seat => m = n

\* A party is gone, or still there with the same owner and places.
DocKept(old, new) ==
    \/ new = NoParty
    \/ /\ old # NoParty
       /\ new.owner = old.owner
       /\ PlacesOf(new.members) = PlacesOf(old.members)
       /\ Apart(old.members) => Apart(new.members)

Copied(r, doc) ==
    r.pc = "write" =>
        /\ Apart(r.members)
        /\ r.current /\ doc # NoParty =>
              PlacesOf(r.members) \subseteq PlacesOf(doc.members)

HeldCopies == \A h \in Handlers : Copied(handling[h], parties[handling[h].party])

StoredApart == \A p \in PartyIds : Found(p) => Apart(parties[p].members)

\* A party that is to get a member, or to be dissolved, has been stored.
Drawn ==
    \A h \in Handlers : handling[h].pc \in {"push", "dissolve"} =>
        handling[h].party < nextId

CInv == IInv /\ HeldCopies /\ StoredApart /\ Drawn

LEMMA StampedPlaces ==
    ASSUME NEW members \in SUBSET Entry, NEW who \in Players
    PROVE  /\ PlacesOf(Stamped(members, who)) = PlacesOf(members)
           /\ Apart(members) => Apart(Stamped(members, who))
<1> DEFINE S(m) == IF m.xuid = who THEN [m EXCEPT !.fresh = TRUE] ELSE m
<1>1. \A m \in members : S(m).xuid = m.xuid /\ S(m).seat = m.seat
  BY DEF Entry
<1>2. Stamped(members, who) = {S(m) : m \in members}
  BY DEF Stamped
<1> HIDE DEF S
<1>3. PlacesOf(Stamped(members, who)) = PlacesOf(members)
  BY <1>1, <1>2 DEF PlacesOf
<1>4. Apart(members) => Apart(Stamped(members, who))
  BY <1>1, <1>2 DEF Apart
<1>5. QED
  BY <1>3, <1>4

LEMMA AgedPlaces ==
    ASSUME NEW members \in SUBSET Entry, NEW e \in Entry
    PROVE  /\ PlacesOf(Aged(members, e)) = PlacesOf(members)
           /\ Apart(members) => Apart(Aged(members, e))
<1> DEFINE A(m) == IF m.xuid = e.xuid /\ m.seat = e.seat
                   THEN [m EXCEPT !.fresh = FALSE] ELSE m
<1>1. \A m \in members : A(m).xuid = m.xuid /\ A(m).seat = m.seat
  BY DEF Entry
<1>2. Aged(members, e) = {A(m) : m \in members}
  BY DEF Aged
<1> HIDE DEF A
<1>3. PlacesOf(Aged(members, e)) = PlacesOf(members)
  BY <1>1, <1>2 DEF PlacesOf
<1>4. Apart(members) => Apart(Aged(members, e))
  BY <1>1, <1>2 DEF Apart
<1>5. QED
  BY <1>3, <1>4

LEMMA FewerPlaces ==
    ASSUME NEW members, NEW some \in SUBSET members
    PROVE  /\ PlacesOf(some) \subseteq PlacesOf(members)
           /\ Apart(members) => Apart(some)
BY DEF PlacesOf, Apart

LEMMA CopiedKept ==
    ASSUME NEW r, NEW old, NEW new, Copied(r, old), DocKept(old, new)
    PROVE  Copied(r, new)
BY DEF Copied, DocKept

(* Any step that keeps the stored places keeps the copies, if the requests it
   leaves behind are old ones, but h's, which is checked. *)
LEMMA QuietCopies ==
    ASSUME CInv, NEW h \in Handlers, UNCHANGED nextId,
           \A p \in PartyIds : DocKept(parties[p], parties'[p]),
           \A g \in Handlers \ {h} : handling'[g] = handling[g],
           Copied(handling'[h], parties[handling'[h].party]),
           handling'[h].pc = "write" => handling'[h].party \in PartyIds,
           handling'[h].pc \in {"push", "dissolve"} => handling'[h].party < nextId
    PROVE  HeldCopies' /\ StoredApart' /\ Drawn'
<1>1. StoredApart'
  BY DEF CInv, StoredApart, DocKept, Found
<1>2. Drawn'
  BY DEF CInv, Drawn
<1>3. ASSUME NEW g \in Handlers
      PROVE  Copied(handling'[g], parties'[handling'[g].party])
  <2>1. CASE handling'[g].pc # "write"
    BY <2>1 DEF Copied
  <2>2. CASE handling'[g].pc = "write"
    <3>1. Copied(handling'[g], parties[handling'[g].party])
      BY DEF CInv, HeldCopies
    <3>2. handling'[g].party \in PartyIds
      <4>1. CASE g = h
        BY <2>2, <4>1
      <4>2. CASE g # h
        BY <2>2, <4>2, RequestByPc DEF CInv, IInv, TypeOK, Rewriting
      <4>3. QED
        BY <4>1, <4>2
    <3>3. QED
      BY <3>1, <3>2, CopiedKept
  <2>3. QED
    BY <2>1, <2>2
<1>4. HeldCopies'
  BY <1>3 DEF HeldCopies
<1>5. QED
  BY <1>1, <1>2, <1>4

LEMMA DepartureCopied ==
    ASSUME CInv, NEW p \in PartyIds, Found(p), NEW who \in Players
    PROVE  LET r == Departure(p, who)
           IN  /\ Copied(r, parties[r.party])
               /\ r.party = p /\ p < nextId
               /\ r.pc \in {"write", "dissolve"}
<1> DEFINE rest == WithoutXuid(parties[p].members, who)
<1>1. Apart(parties[p].members) /\ p < nextId
  BY DEF CInv, StoredApart, IInv, UsedIds
<1>2. rest \in SUBSET parties[p].members
  BY DEF WithoutXuid
<1>3. PlacesOf(rest) \subseteq PlacesOf(parties[p].members) /\ Apart(rest)
  BY <1>1, <1>2, FewerPlaces
<1>4. \/ Departure(p, who) = [pc |-> "dissolve", op |-> "leave", party |-> p]
      \/ Departure(p, who) = [pc |-> "write", op |-> "leave", party |-> p,
             members |-> rest, gone |-> {who}, current |-> TRUE]
  BY DEF Departure
<1> HIDE DEF rest
<1>5. QED
  BY <1>1, <1>3, <1>4 DEF Copied

LEMMA PollCopied ==
    ASSUME CInv, NEW h \in Handlers, NEW p \in PartyIds, NEW who \in Players,
           Poll(h, p, who)
    PROVE  /\ Copied(handling'[h], parties[handling'[h].party])
           /\ handling'[h].party = p /\ p < nextId
           /\ handling'[h].pc # "push"
<1> DEFINE members == parties[p].members
           stamped == Stamped(members, who)
           kept == FreshOf(stamped)
<1>1. Found(p) /\ members \in SUBSET Entry /\ Apart(members) /\ p < nextId
  BY FoundMembers DEF Poll, CInv, StoredApart, IInv, UsedIds
<1>2. PlacesOf(stamped) = PlacesOf(members) /\ Apart(stamped)
  BY <1>1, StampedPlaces
<1>3. kept \in SUBSET stamped
  BY DEF FreshOf
<1>4. PlacesOf(kept) \subseteq PlacesOf(members) /\ Apart(kept)
  BY <1>2, <1>3, FewerPlaces
<1>5. \/ handling'[h] = [pc |-> "dissolve", op |-> "reap", party |-> p]
      \/ handling'[h] = [pc |-> "stamp", party |-> p, who |-> who, current |-> TRUE]
      \/ handling'[h] = [pc |-> "write", op |-> "reap", party |-> p, members |-> kept,
                         gone |-> XuidsOf(stamped \ kept), current |-> TRUE]
  BY DEF Poll, Goto, CInv, IInv, TypeOK
<1> HIDE DEF kept, stamped
<1>6. QED
  BY <1>1, <1>4, <1>5 DEF Copied

LEMMA AskedCopies ==
    ASSUME CInv, NEW h \in Handlers, Asked(h)
    PROVE  HeldCopies' /\ StoredApart' /\ Drawn'
<1>1. /\ UNCHANGED <<parties, nextId>>
      /\ \E request : Goto(h, request)
  BY DEF Asked, Create, Invite, Join, FindPartyOf, Leave, Poll
<1>2. /\ \A p \in PartyIds : DocKept(parties[p], parties'[p])
      /\ \A g \in Handlers \ {h} : handling'[g] = handling[g]
  BY <1>1 DEF DocKept, Goto, CInv, IInv, TypeOK
<1> DEFINE Goal == /\ Copied(handling'[h], parties[handling'[h].party])
                   /\ handling'[h].pc = "write" => handling'[h].party \in PartyIds
                   /\ handling'[h].pc \in {"push", "dissolve"} =>
                         handling'[h].party < nextId
<1>3. ASSUME NEW p \in PartyIds, NEW who \in Players, Leave(h, p, who)
      PROVE  Goal
  <2>1. Found(p) /\ handling'[h] = Departure(p, who)
    BY <1>3 DEF Leave, Goto, CInv, IInv, TypeOK
  <2>2. QED
    BY <2>1, DepartureCopied
<1>4. ASSUME NEW p \in PartyIds, NEW who \in Players, Poll(h, p, who)
      PROVE  Goal
  BY <1>4, PollCopied
<1>5. ASSUME NEW p \in PartyIds, NEW who \in Players,
             Invite(h, p, who) \/ Join(h, p, who) \/ FindPartyOf(h, p, who)
      PROVE  Goal
  BY <1>5 DEF Invite, Join, FindPartyOf, Goto, CInv, IInv, TypeOK, Copied
<1>6. ASSUME NEW who \in Players, Create(h, who)
      PROVE  Goal
  BY <1>6 DEF Create, Goto, CInv, IInv, TypeOK, Copied
<1>7. Goal
  BY <1>3, <1>4, <1>5, <1>6 DEF Asked
<1>8. QED
  BY <1>1, <1>2, <1>7, QuietCopies

(* A save that moves the version of party p outdates the copies of p. *)
LEMMA SavingCopies ==
    ASSUME CInv, NEW h \in Handlers, NEW p \in PartyIds, NEW request \in Request,
           request.pc \notin {"write", "push", "dissolve"}, UNCHANGED nextId,
           Found(p), SavedThenGoto(h, p, request),
           \A q \in PartyIds \ {p} : parties'[q] = parties[q],
           Apart(parties'[p].members)
    PROVE  HeldCopies' /\ StoredApart' /\ Drawn'
<1>1. StoredApart'
  BY DEF CInv, StoredApart, Found
<1>2. ASSUME NEW g \in Handlers
      PROVE  /\ Copied(handling'[g], parties'[handling'[g].party])
             /\ handling'[g].pc \in {"push", "dissolve"} => handling'[g].party < nextId
  <2>1. CASE g = h
    BY <2>1 DEF SavedThenGoto, Copied
  <2>2. CASE g # h
    <3>1. handling'[g] = Outdated(handling[g], p) /\ handling[g] \in Request
      BY <2>2 DEF SavedThenGoto, CInv, IInv, TypeOK
    <3>2. Copied(handling[g], parties[handling[g].party])
      BY DEF CInv, HeldCopies
    <3>3. CASE handling[g].pc = "write" /\ handling[g].party = p
      <4>1. handling[g] \in Rewriting /\ handling'[g] = [handling[g] EXCEPT !.current = FALSE]
        BY <3>1, <3>3, RequestByPc DEF Outdated
      <4>2. /\ handling'[g].pc = "write" /\ handling'[g].current = FALSE
            /\ handling'[g].members = handling[g].members
        BY <3>3, <4>1 DEF Rewriting
      <4>3. QED
        BY <3>2, <3>3, <4>2 DEF Copied
    <3>4. CASE handling[g].pc = "write" /\ handling[g].party # p
      <4>1. handling[g].party \in PartyIds /\ handling'[g] = handling[g]
        BY <3>1, <3>4, RequestByPc DEF Outdated, Rewriting
      <4>2. QED
        BY <3>2, <3>4, <4>1
    <3>5. CASE handling[g].pc = "stamp"
      <4>1. handling[g] \in Stamping
        BY <3>1, <3>5, RequestByPc
      <4>2. handling'[g].pc = "stamp"
        BY <3>1, <4>1 DEF Outdated, Stamping
      <4>3. QED
        BY <4>2 DEF Copied
    <3>6. CASE handling[g].pc \notin {"stamp", "write"}
      <4>1. handling'[g] = handling[g]
        BY <3>1, <3>6 DEF Outdated
      <4>2. QED
        BY <3>6, <4>1 DEF Copied, CInv, Drawn
    <3>7. QED
      BY <3>3, <3>4, <3>5, <3>6
  <2>3. QED
    BY <2>1, <2>2
<1>3. QED
  BY <1>1, <1>2 DEF HeldCopies, Drawn

LEMMA ContinuedCopies ==
    ASSUME CInv, NEW h \in Handlers, Continued(h)
    PROVE  HeldCopies' /\ StoredApart' /\ Drawn'
<1>0. /\ handling[h] \in Request
      /\ DOMAIN handling = Handlers /\ DOMAIN parties = PartyIds
  BY DEF CInv, IInv, TypeOK
<1>a. ASSUME NEW request, Goto(h, request)
      PROVE  handling'[h] = request /\ \A g \in Handlers \ {h} : handling'[g] = handling[g]
  BY <1>0, <1>a DEF Goto
<1>b. \A p \in PartyIds : UNCHANGED parties => DocKept(parties[p], parties'[p])
  BY DEF DocKept
<1>c. ASSUME UNCHANGED nextId, \A p \in PartyIds : DocKept(parties[p], parties'[p]),
             NEW request, Goto(h, request), request.pc \notin {"write", "push", "dissolve"}
      PROVE  HeldCopies' /\ StoredApart' /\ Drawn'
  <2>1. Copied(handling'[h], parties[handling'[h].party])
    BY <1>a, <1>c DEF Copied
  <2>2. QED
    BY <1>a, <1>c, <2>1, QuietCopies
<1>1. CASE Insert(h)
  <2> DEFINE seated == [xuid |-> handling[h].who, seat |-> 1, fresh |-> TRUE]
  <2>1. /\ nextId \in PartyIds /\ nextId' = nextId + 1 /\ nextId \in Nat
        /\ Goto(h, Idle)
        /\ parties' = [parties EXCEPT ![nextId] =
              [owner |-> handling[h].who, members |-> {seated}]]
    BY <1>1 DEF Insert, PartyIds
  <2>2. /\ parties'[nextId].members = {seated}
        /\ \A q \in PartyIds \ {nextId} : parties'[q] = parties[q]
    BY <1>0, <2>1
  <2> HIDE DEF seated
  <2>3. StoredApart'
    BY <2>2 DEF CInv, StoredApart, Apart, Found
  <2>4. ASSUME NEW g \in Handlers
        PROVE  /\ Copied(handling'[g], parties'[handling'[g].party])
               /\ handling'[g].pc \in {"push", "dissolve"} => handling'[g].party < nextId'
    <3>1. CASE g = h
      BY <1>a, <2>1, <3>1 DEF Idle, Copied
    <3>2. CASE g # h
      <4>1. handling'[g] = handling[g] /\ handling[g] \in Request
        BY <1>a, <2>1, <3>2 DEF CInv, IInv, TypeOK
      <4>2. handling[g].pc = "write" =>
               handling[g].party \in PartyIds /\ handling[g].party < nextId
        BY <4>1, RequestByPc DEF CInv, IInv, PendingWrites, Rewriting
      <4>3. handling[g].pc = "write" => parties'[handling[g].party] = parties[handling[g].party]
        BY <2>1, <2>2, <4>2
      <4>4. Copied(handling'[g], parties'[handling'[g].party])
        BY <4>1, <4>3 DEF Copied, CInv, HeldCopies
      <4>5. handling[g].pc \in {"push", "dissolve"} =>
               handling[g].party \in PartyIds /\ handling[g].party < nextId
        BY <4>1, RequestByPc DEF CInv, Drawn, Dissolving
      <4>6. QED
        BY <2>1, <4>1, <4>4, <4>5 DEF PartyIds
    <3>3. QED
      BY <3>1, <3>2
  <2>5. QED
    BY <2>3, <2>4 DEF HeldCopies, Drawn
<1>2. CASE SaveInvite(h) \/ Consume(h) \/ Sweep(h) \/ JoinGone(h) \/ SaveRefused(h)
  <2>1. UNCHANGED <<parties, nextId>> /\ Goto(h, Idle)
    BY <1>2 DEF SaveInvite, Consume, Sweep, JoinGone, SaveRefused
  <2>2. Idle.pc = "idle"
    BY DEF Idle
  <2>3. QED
    BY <1>b, <1>c, <2>1, <2>2
<1>3. CASE Keep(h)
  <2>1. handling[h] \in [pc : {"invite", "admit", "push", "keep", "consume", "leaving"},
                         party : PartyIds, who : Players]
    BY <1>0, <1>3, RequestByPc DEF Keep
  <2>2. /\ UNCHANGED <<parties, nextId>> /\ Goto(h, [handling[h] EXCEPT !.pc = "consume"])
        /\ [handling[h] EXCEPT !.pc = "consume"].pc = "consume"
    BY <1>3, <2>1 DEF Keep
  <2>3. QED
    BY <1>b, <1>c, <2>2
<1>4. CASE Admit(h)
  <2> DEFINE r == handling[h]
  <2>1. r \in [pc : {"invite", "admit", "push", "keep", "consume", "leaving"},
               party : PartyIds, who : Players]
    BY <1>0, <1>4, RequestByPc DEF Admit
  <2>2. UNCHANGED <<parties, nextId>>
    BY <1>4 DEF Admit
  <2>3. \/ Goto(h, [r EXCEPT !.pc = "keep"])
        \/ Found(r.party) /\ Goto(h, [r EXCEPT !.pc = "push"])
        \/ Goto(h, Idle)
    BY <1>4 DEF Admit
  <2>4. [r EXCEPT !.pc = "keep"].pc = "keep" /\ Idle.pc = "idle"
    BY <2>1 DEF Idle
  <2>5. CASE Found(r.party) /\ Goto(h, [r EXCEPT !.pc = "push"])
    <3>1. r.party < nextId
      BY <2>1, <2>5 DEF CInv, IInv, UsedIds
    <3>2. handling'[h] = [r EXCEPT !.pc = "push"]
      BY <1>a, <2>5
    <3>3. handling'[h].pc = "push" /\ handling'[h].party = r.party
      BY <2>1, <3>2
    <3>4. Copied(handling'[h], parties[handling'[h].party])
      BY <3>3 DEF Copied
    <3>5. \A g \in Handlers \ {h} : handling'[g] = handling[g]
      BY <1>a, <2>5
    <3>6. \A p \in PartyIds : DocKept(parties[p], parties'[p])
      BY <1>b, <2>2
    <3> HIDE DEF r
    <3>7. QED
      BY <2>2, <3>1, <3>3, <3>4, <3>5, <3>6, QuietCopies
  <2> HIDE DEF r
  <2>6. QED
    BY <1>b, <1>c, <2>2, <2>3, <2>4, <2>5
<1>5. ASSUME NEW seat \in Seats, Push(h, seat)
      PROVE  HeldCopies' /\ StoredApart' /\ Drawn'
  <2> DEFINE p == handling[h].party
             seated == [xuid |-> handling[h].who, seat |-> seat, fresh |-> TRUE]
             next == [handling[h] EXCEPT !.pc = "consume"]
  <2>1. handling[h] \in [pc : {"invite", "admit", "push", "keep", "consume", "leaving"},
                         party : PartyIds, who : Players]
    BY <1>0, <1>5, RequestByPc DEF Push
  <2>2. /\ Found(p) /\ UNCHANGED nextId /\ SavedThenGoto(h, p, next)
        /\ seat \notin {m.seat : m \in parties[p].members}
        /\ parties' = [parties EXCEPT ![p].members = @ \cup {seated}]
    BY <1>5 DEF Push
  <2>3. p \in PartyIds /\ next \in Request /\ next.pc = "consume"
    BY <2>1 DEF Request, Asking
  <2>4. parties[p] \in Doc /\ Apart(parties[p].members)
    BY <2>2, <2>3 DEF CInv, IInv, TypeOK, StoredApart, Found
  <2>5. /\ parties'[p].members = parties[p].members \cup {seated}
        /\ \A q \in PartyIds \ {p} : parties'[q] = parties[q]
    BY <1>0, <2>2, <2>3, <2>4 DEF Doc
  <2>a. \A m \in parties[p].members : m.seat # seated.seat
    BY <2>2
  <2> HIDE DEF p, next, seated
  <2>6. Apart(parties'[p].members)
    <3>1. \A m \in parties'[p].members : m \in parties[p].members \/ m = seated
      BY <2>5
    <3>2. QED
      BY <2>4, <2>a, <3>1 DEF Apart
  <2>7. QED
    BY <2>2, <2>3, <2>5, <2>6, SavingCopies
<1>6. CASE LeaveFound(h)
  <2> DEFINE p == handling[h].party
             who == handling[h].who
  <2>1. p \in PartyIds /\ who \in Players
    BY <1>0, <1>6, RequestByPc DEF LeaveFound
  <2>2. /\ UNCHANGED <<parties, nextId>>
        /\ Goto(h, IF Found(p) /\ who \in XuidsOf(parties[p].members)
                   THEN Departure(p, who) ELSE Idle)
    BY <1>6 DEF LeaveFound
  <2> HIDE DEF p, who
  <2>3. CASE Found(p) /\ who \in XuidsOf(parties[p].members)
    <3>1. handling'[h] = Departure(p, who)
      BY <1>a, <2>2, <2>3
    <3>2. \A g \in Handlers \ {h} : handling'[g] = handling[g]
      BY <1>a, <2>2
    <3>3. /\ Copied(handling'[h], parties[handling'[h].party])
          /\ handling'[h].party = p /\ p < nextId /\ handling'[h].pc # "push"
      BY <2>1, <2>3, <3>1, DepartureCopied
    <3>4. QED
      BY <1>b, <2>1, <2>2, <3>2, <3>3, QuietCopies
  <2>4. CASE ~(Found(p) /\ who \in XuidsOf(parties[p].members))
    <3>1. Goto(h, Idle) /\ Idle.pc = "idle"
      BY <2>2, <2>4 DEF Idle
    <3>2. QED
      BY <1>b, <1>c, <2>2, <3>1
  <2>5. QED
    BY <2>3, <2>4
<1>7. CASE Stamp(h)
  <2> DEFINE p == handling[h].party
             stamped == Stamped(parties[p].members, handling[h].who)
  <2>1. p \in PartyIds /\ handling[h].who \in Players
    BY <1>0, <1>7, RequestByPc DEF Stamp, Stamping
  <2>2. /\ Found(p) /\ Goto(h, Idle) /\ UNCHANGED nextId /\ Idle.pc = "idle"
        /\ parties' = [parties EXCEPT ![p].members = stamped]
    BY <1>7 DEF Stamp, Idle
  <2>3. parties[p] \in Doc
    BY <2>1, <2>2 DEF CInv, IInv, TypeOK, Found
  <2>4. /\ PlacesOf(stamped) = PlacesOf(parties[p].members)
        /\ Apart(parties[p].members) => Apart(stamped)
    BY <2>1, <2>3, StampedPlaces DEF Doc
  <2> HIDE DEF stamped, p
  <2>5. /\ parties'[p].members = stamped /\ parties'[p].owner = parties[p].owner
        /\ \A q \in PartyIds \ {p} : parties'[q] = parties[q]
    BY <1>0, <2>1, <2>2, <2>3 DEF Doc
  <2>6. \A q \in PartyIds : DocKept(parties[q], parties'[q])
    BY <2>2, <2>4, <2>5 DEF DocKept, Found
  <2>7. QED
    BY <1>c, <2>2, <2>6
<1>8. CASE Write(h)
  <2> DEFINE p == handling[h].party
  <2>1. p \in PartyIds /\ handling[h] \in Rewriting
    BY <1>0, <1>8, RequestByPc DEF Write, Rewriting
  <2>2. /\ Found(p) /\ UNCHANGED nextId /\ SavedThenGoto(h, p, Idle)
        /\ parties' = [parties EXCEPT ![p].members = handling[h].members]
        /\ handling[h].pc = "write"
    BY <1>8 DEF Write
  <2>3. parties[p] \in Doc
    BY <2>1, <2>2 DEF CInv, IInv, TypeOK, Found
  <2>4. /\ parties'[p].members = handling[h].members
        /\ \A q \in PartyIds \ {p} : parties'[q] = parties[q]
    BY <1>0, <2>1, <2>2, <2>3 DEF Doc
  <2>5. Apart(handling[h].members)
    BY <2>2 DEF CInv, HeldCopies, Copied
  <2>6. Idle \in Request /\ Idle.pc = "idle"
    BY DEF Request, Idle
  <2> HIDE DEF p
  <2>7. QED
    BY <2>1, <2>2, <2>4, <2>5, <2>6, SavingCopies
<1>9. CASE Dissolve(h)
  <2> DEFINE next == [pc |-> "sweep", party |-> handling[h].party]
  <2>1. /\ parties' = [parties EXCEPT ![handling[h].party] = NoParty]
        /\ UNCHANGED nextId /\ Goto(h, next) /\ next.pc = "sweep"
    BY <1>9 DEF Dissolve
  <2>2. \A q \in PartyIds : DocKept(parties[q], parties'[q])
    BY <1>0, <2>1 DEF DocKept
  <2> HIDE DEF next
  <2>3. QED
    BY <1>c, <2>1, <2>2
<1>10. QED
  BY <1>1, <1>2, <1>3, <1>4, <1>5, <1>6, <1>7, <1>8, <1>9 DEF Continued

LEMMA FailCopies ==
    ASSUME CInv, NEW h \in Handlers, Fail(h)
    PROVE  HeldCopies' /\ StoredApart' /\ Drawn'
<1>1. /\ UNCHANGED <<parties, nextId>>
      /\ handling'[h].pc = "idle"
      /\ \A g \in Handlers \ {h} : handling'[g] = handling[g]
  BY DEF Fail, Goto, Idle, CInv, IInv, TypeOK
<1>2. Copied(handling'[h], parties[handling'[h].party])
  BY <1>1 DEF Copied
<1>3. \A p \in PartyIds : DocKept(parties[p], parties'[p])
  BY <1>1 DEF DocKept
<1>4. QED
  BY <1>1, <1>2, <1>3, QuietCopies

(* Thirty seconds pass for a member, in the party and in the copies of it. *)
LEMMA LapseShape ==
    ASSUME TypeOK, NEW p \in PartyIds, NEW m \in Entry, Lapse(p, m)
    PROVE  /\ \A q \in PartyIds : DocKept(parties[q], parties'[q])
           /\ \A g \in Handlers :
                 \/ handling'[g] = handling[g] /\ (handling[g].pc = "write" => handling[g].party # p)
                 \/ /\ handling[g] \in Rewriting /\ handling[g].party = p
                    /\ handling'[g] = [handling[g] EXCEPT !.members = Aged(@, m)]
<1>0. /\ DOMAIN parties = PartyIds /\ handling \in [Handlers -> Request]
  BY DEF TypeOK
<1>1. /\ Found(p)
      /\ parties' = [parties EXCEPT ![p].members = Aged(@, m)]
      /\ handling' = [h \in Handlers |->
             IF handling[h].pc = "write" /\ handling[h].party = p
             THEN [handling[h] EXCEPT !.members = Aged(@, m)]
             ELSE handling[h]]
  BY DEF Lapse
<1>2. parties[p] \in Doc
  BY <1>1 DEF TypeOK, Found
<1>3. /\ parties'[p].owner = parties[p].owner
      /\ parties'[p].members = Aged(parties[p].members, m)
      /\ \A q \in PartyIds \ {p} : parties'[q] = parties[q]
  BY <1>0, <1>1, <1>2 DEF Doc
<1>4. /\ PlacesOf(Aged(parties[p].members, m)) = PlacesOf(parties[p].members)
      /\ Apart(parties[p].members) => Apart(Aged(parties[p].members, m))
  BY <1>2, AgedPlaces DEF Doc
<1>5. \A q \in PartyIds : DocKept(parties[q], parties'[q])
  BY <1>1, <1>3, <1>4 DEF DocKept, Found
<1>6. ASSUME NEW g \in Handlers
      PROVE  \/ handling'[g] = handling[g] /\ (handling[g].pc = "write" => handling[g].party # p)
             \/ /\ handling[g] \in Rewriting /\ handling[g].party = p
                /\ handling'[g] = [handling[g] EXCEPT !.members = Aged(@, m)]
  <2>1. handling[g].pc = "write" => handling[g] \in Rewriting
    BY <1>0, RequestByPc
  <2>2. QED
    BY <1>1, <2>1
<1>7. QED
  BY <1>5, <1>6

LEMMA PassingCopies ==
    ASSUME CInv, Passing
    PROVE  HeldCopies' /\ StoredApart' /\ Drawn'
<1>0. /\ DOMAIN parties = PartyIds /\ handling \in [Handlers -> Request] /\ TypeOK
      /\ UNCHANGED nextId
  BY DEF CInv, IInv, TypeOK, Passing, Decline, ExpireParty, Lapse, ExpireInvite
<1>a. ASSUME \A p \in PartyIds : DocKept(parties[p], parties'[p])
      PROVE  StoredApart'
  BY <1>a DEF CInv, StoredApart, DocKept, Found
<1>1. CASE UNCHANGED handling /\ \A p \in PartyIds : DocKept(parties[p], parties'[p])
  <2>1. ASSUME NEW g \in Handlers
        PROVE  Copied(handling[g], parties'[handling[g].party])
    <3>1. CASE handling[g].pc # "write"
      BY <3>1 DEF Copied
    <3>2. CASE handling[g].pc = "write"
      <4>1. handling[g].party \in PartyIds
        BY <1>0, <3>2, RequestByPc DEF Rewriting
      <4>2. QED
        BY <1>1, <4>1, CopiedKept DEF CInv, HeldCopies
    <3>3. QED
      BY <3>1, <3>2
  <2>2. HeldCopies' /\ Drawn'
    BY <1>0, <1>1, <2>1 DEF HeldCopies, CInv, Drawn
  <2>3. QED
    BY <1>1, <1>a, <2>2
<1>2. ASSUME NEW p \in PartyIds, NEW who \in Players, Decline(p, who)
      PROVE  HeldCopies' /\ StoredApart' /\ Drawn'
  BY <1>1, <1>2 DEF Decline, DocKept
<1>3. ASSUME NEW p \in PartyIds, ExpireParty(p)
      PROVE  HeldCopies' /\ StoredApart' /\ Drawn'
  BY <1>0, <1>1, <1>3 DEF ExpireParty, DocKept
<1>4. ASSUME NEW i \in invites, ExpireInvite(i)
      PROVE  HeldCopies' /\ StoredApart' /\ Drawn'
  BY <1>1, <1>4 DEF ExpireInvite, DocKept
<1>5. ASSUME NEW p \in PartyIds, NEW m \in Entry, Lapse(p, m)
      PROVE  HeldCopies' /\ StoredApart' /\ Drawn'
  <2>1. \A q \in PartyIds : DocKept(parties[q], parties'[q])
    BY <1>0, <1>5, LapseShape
  <2>2. ASSUME NEW g \in Handlers
        PROVE  /\ Copied(handling'[g], parties'[handling'[g].party])
               /\ handling'[g].pc \in {"push", "dissolve"} => handling'[g].party < nextId
    <3>0. Copied(handling[g], parties[handling[g].party])
      BY DEF CInv, HeldCopies
    <3>1. CASE handling'[g] = handling[g]
      <4>1. Copied(handling[g], parties'[handling[g].party])
        <5>1. CASE handling[g].pc # "write"
          BY <5>1 DEF Copied
        <5>2. CASE handling[g].pc = "write"
          <6>1. handling[g].party \in PartyIds
            BY <1>0, <5>2, RequestByPc DEF Rewriting
          <6>2. QED
            BY <2>1, <3>0, <6>1, CopiedKept
        <5>3. QED
          BY <5>1, <5>2
      <4>2. QED
        BY <3>1, <4>1 DEF CInv, Drawn
    <3>2. CASE /\ handling[g] \in Rewriting /\ handling[g].party = p
               /\ handling'[g] = [handling[g] EXCEPT !.members = Aged(@, m)]
      <4>1. /\ handling'[g].pc = "write" /\ handling[g].pc = "write"
            /\ handling'[g].party = p
            /\ handling'[g].current = handling[g].current
            /\ handling'[g].members = Aged(handling[g].members, m)
        BY <3>2 DEF Rewriting
      <4>2. /\ PlacesOf(handling'[g].members) = PlacesOf(handling[g].members)
            /\ Apart(handling[g].members) => Apart(handling'[g].members)
        BY <3>2, <4>1, AgedPlaces DEF Rewriting
      <4>3. Copied(handling[g], parties'[p])
        BY <2>1, <3>0, <3>2, CopiedKept
      <4>4. QED
        BY <4>1, <4>2, <4>3 DEF Copied
    <3>3. QED
      BY <1>0, <1>5, <3>1, <3>2, LapseShape
  <2>3. HeldCopies' /\ Drawn'
    BY <1>0, <2>2 DEF HeldCopies, Drawn
  <2>4. QED
    BY <1>a, <2>1, <2>3
<1>6. QED
  BY <1>2, <1>3, <1>4, <1>5 DEF Passing

LEMMA CopiesInductive == CInv /\ [Next]_vars => CInv'
<1> SUFFICES ASSUME CInv, [Next]_vars PROVE CInv'
  OBVIOUS
<1>1. IInv'
  BY RostersInductive DEF CInv
<1>2. ASSUME NEW h \in Handlers, Asked(h) \/ Continued(h) \/ Fail(h)
      PROVE  HeldCopies' /\ StoredApart' /\ Drawn'
  BY <1>2, AskedCopies, ContinuedCopies, FailCopies
<1>3. CASE Passing
  BY <1>1, <1>3, PassingCopies DEF CInv
<1>4. CASE UNCHANGED vars
  BY <1>1, <1>4 DEF vars, CInv, HeldCopies, StoredApart, Drawn, Found
<1>5. QED
  BY <1>1, <1>2, <1>3, <1>4 DEF Next, CInv

LEMMA CopiesStart == Init => CInv
<1> SUFFICES ASSUME Init PROVE CInv
  OBVIOUS
<1>1. \A h \in Handlers : handling[h].pc = "idle"
  BY DEF Init, Idle
<1>2. HeldCopies /\ Drawn
  BY <1>1 DEF HeldCopies, Copied, Drawn
<1>3. StoredApart
  BY DEF Init, StoredApart, Found
<1>4. QED
  BY <1>2, <1>3, RostersStart DEF CInv

-----------------------------------------------------------------------------
(* How many are in a party.  The seats that the players of a set have in it, *)
(* with the joins of theirs that are past the check, are as many as there    *)
(* may be without company, and as many more as have passed the check         *)
(* together: a join passes only while it would be within the first bound.    *)

SeatsOf(members, some) == {m.seat : m \in {e \in members : e.xuid \in some}}

PushesAt(r, p) == r.pc = "push" /\ r.party = p

AllPushers(hand, p) == {h \in Handlers : PushesAt(hand[h], p)}

Pushers(hand, p, some) == {h \in AllPushers(hand, p) : hand[h].who \in some}

HasRoom(doc, pushers, room, some, alone) ==
    doc # NoParty =>
        Cardinality(SeatsOf(doc.members, some)) + Cardinality(pushers) <= alone + room

Company(doc, hand, room, p) ==
    /\ room \in Nat /\ 1 <= room
    /\ IsFiniteSet(AllPushers(hand, p)) /\ Cardinality(AllPushers(hand, p)) <= room
    /\ HasRoom(doc, Pushers(hand, p, Players), room, Players, MaxMembers - 1)
    /\ \A who \in Players : HasRoom(doc, Pushers(hand, p, {who}), room, {who}, 0)

Crowds ==
    /\ crowd \in [PartyIds -> Nat]
    /\ \A p \in PartyIds : Company(parties[p], handling, crowd[p], p)

LEMMA SeatsFinite ==
    ASSUME NEW members \in SUBSET Entry, NEW some
    PROVE  /\ IsFiniteSet(SeatsOf(members, some))
           /\ Cardinality(SeatsOf(members, some)) \in Nat
<1>1. SeatsOf(members, some) \in SUBSET (1..MaxSeats)
  BY DEF SeatsOf, Entry, Seats
<1>2. IsFiniteSet(1..MaxSeats)
  BY PartyAssumption, FS_Interval
<1>3. QED
  BY <1>1, <1>2, FS_Subset, FS_CardinalityType

LEMMA SeatsFewer ==
    ASSUME NEW a, NEW b, NEW some, PlacesOf(a) \subseteq PlacesOf(b)
    PROVE  SeatsOf(a, some) \subseteq SeatsOf(b, some)
<1> SUFFICES ASSUME NEW m \in a, m.xuid \in some
             PROVE  m.seat \in SeatsOf(b, some)
  BY DEF SeatsOf
<1>1. <<m.xuid, m.seat>> \in PlacesOf(b)
  BY DEF PlacesOf
<1>2. PICK e \in b : <<m.xuid, m.seat>> = <<e.xuid, e.seat>>
  BY <1>1 DEF PlacesOf
<1>3. QED
  BY <1>2 DEF SeatsOf

(* Entries with seats of their own are as many as the seats. *)
LEMMA SeatsCount ==
    ASSUME NEW members \in SUBSET Entry, NEW some, Apart(members)
    PROVE  LET theirs == {e \in members : e.xuid \in some}
           IN  /\ IsFiniteSet(theirs) /\ Cardinality(theirs) \in Nat
               /\ Cardinality(theirs) = Cardinality(SeatsOf(members, some))
<1> DEFINE theirs == {e \in members : e.xuid \in some}
           seats == SeatsOf(members, some)
           f == [e \in theirs |-> e.seat]
<1>1. IsFiniteSet(seats) /\ Cardinality(seats) \in Nat
  BY SeatsFinite
<1>2. f \in Injection(theirs, seats)
  BY DEF Injection, IsInjective, SeatsOf, Apart
<1>3. f \in Surjection(theirs, seats)
  BY DEF Surjection, SeatsOf
<1> HIDE DEF theirs, seats, f
<1>4. IsFiniteSet(theirs) /\ Cardinality(theirs) <= Cardinality(seats)
  BY <1>1, <1>2, FS_Injection
<1>5. Cardinality(seats) <= Cardinality(theirs)
  BY <1>3, <1>4, FS_Surjection
<1>6. Cardinality(theirs) \in Nat
  BY <1>4, FS_CardinalityType
<1>7. QED
  BY <1>1, <1>4, <1>5, <1>6 DEF theirs, seats

LEMMA OneMore ==
    ASSUME NEW few, IsFiniteSet(few), NEW x
    PROVE  /\ IsFiniteSet(few \cup {x}) /\ Cardinality(few \cup {x}) \in Nat
           /\ Cardinality(few \cup {x}) <= Cardinality(few) + 1
<1>1. Cardinality(few) \in Nat
  BY FS_CardinalityType
<1>2. /\ IsFiniteSet(few \cup {x})
      /\ Cardinality(few \cup {x}) = Cardinality(few) \/ Cardinality(few \cup {x}) = Cardinality(few) + 1
  BY FS_AddElement
<1>3. QED
  BY <1>1, <1>2

LEMMA FitsQuiet ==
    ASSUME NEW old, NEW new, NEW some, NEW alone \in Nat,
           NEW before, IsFiniteSet(before), NEW after \in SUBSET before,
           NEW room \in Nat, NEW more \in Nat, room <= more,
           new # NoParty => /\ old # NoParty
                            /\ old.members \in SUBSET Entry
                            /\ SeatsOf(new.members, some) \subseteq SeatsOf(old.members, some),
           HasRoom(old, before, room, some, alone)
    PROVE  HasRoom(new, after, more, some, alone)
<1> SUFFICES ASSUME new # NoParty
             PROVE  Cardinality(SeatsOf(new.members, some)) + Cardinality(after) <= alone + more
  BY DEF HasRoom
<1>1. /\ IsFiniteSet(SeatsOf(old.members, some))
      /\ Cardinality(SeatsOf(old.members, some)) \in Nat
  BY SeatsFinite
<1>2. /\ Cardinality(SeatsOf(new.members, some)) <= Cardinality(SeatsOf(old.members, some))
      /\ IsFiniteSet(SeatsOf(new.members, some))
  BY <1>1, FS_Subset
<1>3. Cardinality(SeatsOf(new.members, some)) \in Nat
  BY <1>2, FS_CardinalityType
<1>4. /\ Cardinality(after) <= Cardinality(before)
      /\ Cardinality(before) \in Nat /\ Cardinality(after) \in Nat
  BY FS_Subset, FS_CardinalityType
<1>5. Cardinality(SeatsOf(old.members, some)) + Cardinality(before) <= alone + room
  BY DEF HasRoom
<1>6. QED
  BY <1>1, <1>2, <1>3, <1>4, <1>5

LEMMA FitsAdmit ==
    ASSUME NEW doc, NEW some, NEW alone \in Nat, NEW after, NEW more \in Nat,
           Cardinality(after) \in Nat, Cardinality(after) <= more,
           doc # NoParty => /\ Cardinality(SeatsOf(doc.members, some)) \in Nat
                            /\ Cardinality(SeatsOf(doc.members, some)) <= alone
    PROVE  HasRoom(doc, after, more, some, alone)
BY DEF HasRoom

LEMMA FitsPush ==
    ASSUME NEW old, NEW new, old # NoParty, old.members \in SUBSET Entry,
           NEW some, NEW alone \in Nat,
           NEW before, IsFiniteSet(before), NEW h \in before,
           NEW after \in SUBSET (before \ {h}),
           NEW room \in Nat, NEW more \in Nat, room <= more,
           NEW seat,
           SeatsOf(new.members, some) \subseteq SeatsOf(old.members, some) \cup {seat},
           HasRoom(old, before, room, some, alone)
    PROVE  HasRoom(new, after, more, some, alone)
<1>1. /\ IsFiniteSet(SeatsOf(old.members, some))
      /\ Cardinality(SeatsOf(old.members, some)) \in Nat
  BY SeatsFinite
<1>2. /\ IsFiniteSet(SeatsOf(old.members, some) \cup {seat})
      /\ Cardinality(SeatsOf(old.members, some) \cup {seat})
            <= Cardinality(SeatsOf(old.members, some)) + 1
  BY <1>1, OneMore
<1>3. /\ IsFiniteSet(SeatsOf(new.members, some))
      /\ Cardinality(SeatsOf(new.members, some))
            <= Cardinality(SeatsOf(old.members, some) \cup {seat})
  BY <1>2, FS_Subset
<1>4. /\ Cardinality(SeatsOf(new.members, some)) \in Nat
      /\ Cardinality(SeatsOf(old.members, some) \cup {seat}) \in Nat
  BY <1>2, <1>3, FS_CardinalityType
<1>5. /\ IsFiniteSet(before \ {h})
      /\ Cardinality(before \ {h}) = Cardinality(before) - 1
      /\ Cardinality(before) \in Nat
  BY FS_RemoveElement, FS_CardinalityType
<1>6. /\ Cardinality(after) <= Cardinality(before \ {h})
      /\ Cardinality(after) \in Nat
  BY <1>5, FS_Subset, FS_CardinalityType
<1>7. Cardinality(SeatsOf(old.members, some)) + Cardinality(before) <= alone + room
  BY DEF HasRoom
<1>8. Cardinality(SeatsOf(new.members, some)) + Cardinality(after) <= alone + more
  BY <1>1, <1>2, <1>3, <1>4, <1>5, <1>6, <1>7
<1>9. QED
  BY <1>8 DEF HasRoom


(* What a step is to one party and the joins that are past its check: they   *)
(* go ahead or end with nobody new in it, one more passes the check, one     *)
(* takes its place, or the party is created.                                 *)

NoneComes(old, new, hand, hand2, p) ==
    /\ \A g \in Handlers : PushesAt(hand2[g], p) => hand2[g] = hand[g]
    /\ new # NoParty => old # NoParty /\ PlacesOf(new.members) \subseteq PlacesOf(old.members)

Admits(old, new, hand, hand2, p, h) ==
    /\ PushesAt(hand2[h], p)
    /\ \A g \in Handlers \ {h} : hand2[g] = hand[g]
    /\ new = old /\ old # NoParty
    /\ hand2[h].who \notin XuidsOf(old.members)
    /\ ~IsPartyFull(old.members)
    /\ Apart(old.members)

Pushes(old, new, hand, hand2, p, h) ==
    /\ PushesAt(hand[h], p) /\ ~PushesAt(hand2[h], p)
    /\ \A g \in Handlers : PushesAt(hand2[g], p) => hand2[g] = hand[g]
    /\ old # NoParty
    /\ \E seat : PlacesOf(new.members) =
          PlacesOf(old.members) \cup {<<hand[h].who, seat>>}

Creates(old, new, hand, hand2, p) ==
    /\ \A g \in Handlers : ~PushesAt(hand2[g], p)
    /\ \E m \in Entry : new.members = {m}

LEMMA Roomier ==
    ASSUME NEW room \in Nat, 1 <= room, NEW after, IsFiniteSet(after)
    PROVE  LET more == Larger(room, Cardinality(after))
           IN  /\ more \in Nat /\ 1 <= more /\ room <= more
               /\ Cardinality(after) \in Nat /\ Cardinality(after) <= more
<1>1. Cardinality(after) \in Nat
  BY FS_CardinalityType
<1>2. QED
  BY <1>1 DEF Larger

LEMMA CompanyQuiet ==
    ASSUME NEW p, NEW old \in Doc \cup {NoParty}, NEW new, NEW hand, NEW hand2, NEW room,
           Company(old, hand, room, p), NoneComes(old, new, hand, hand2, p)
    PROVE  Company(new, hand2, Larger(room, Cardinality(AllPushers(hand2, p))), p)
<1> DEFINE more == Larger(room, Cardinality(AllPushers(hand2, p)))
<1>1. AllPushers(hand2, p) \in SUBSET AllPushers(hand, p)
  BY DEF NoneComes, AllPushers
<1>2. IsFiniteSet(AllPushers(hand, p)) /\ room \in Nat /\ 1 <= room
  BY DEF Company
<1>3. IsFiniteSet(AllPushers(hand2, p))
  BY <1>1, <1>2, FS_Subset
<1>4. /\ more \in Nat /\ 1 <= more /\ room <= more
      /\ Cardinality(AllPushers(hand2, p)) <= more
  BY <1>2, <1>3, Roomier
<1> HIDE DEF more
<1>5. ASSUME NEW some, NEW alone \in Nat, HasRoom(old, Pushers(hand, p, some), room, some, alone)
      PROVE  HasRoom(new, Pushers(hand2, p, some), more, some, alone)
  <2>1. Pushers(hand2, p, some) \in SUBSET Pushers(hand, p, some)
    BY DEF NoneComes, AllPushers, Pushers
  <2>2. Pushers(hand, p, some) \in SUBSET AllPushers(hand, p)
    BY DEF Pushers
  <2>3. IsFiniteSet(Pushers(hand, p, some))
    BY <1>2, <2>2, FS_Subset
  <2>4. new # NoParty =>
           /\ old # NoParty /\ old.members \in SUBSET Entry
           /\ SeatsOf(new.members, some) \subseteq SeatsOf(old.members, some)
    BY SeatsFewer DEF NoneComes, Doc
  <2>5. QED
    BY <1>2, <1>4, <1>5, <2>1, <2>3, <2>4, FitsQuiet
<1>6. MaxMembers - 1 \in Nat /\ 0 \in Nat
  BY PartyAssumption
<1>7. QED
  BY <1>3, <1>4, <1>5, <1>6 DEF Company, more

LEMMA CompanyAdmits ==
    ASSUME NEW p, NEW old \in Doc \cup {NoParty}, NEW new, NEW hand, NEW hand2, NEW room,
           NEW h \in Handlers,
           Company(old, hand, room, p), Admits(old, new, hand, hand2, p, h)
    PROVE  Company(new, hand2, Larger(room, Cardinality(AllPushers(hand2, p))), p)
<1> DEFINE more == Larger(room, Cardinality(AllPushers(hand2, p)))
           after(some) == Pushers(hand2, p, some)
<1>1. AllPushers(hand2, p) \in SUBSET (AllPushers(hand, p) \cup {h})
  BY DEF Admits, AllPushers
<1>2. IsFiniteSet(AllPushers(hand, p)) /\ room \in Nat /\ 1 <= room
  BY DEF Company
<1>3. IsFiniteSet(AllPushers(hand, p) \cup {h})
  BY <1>2, OneMore
<1>4. IsFiniteSet(AllPushers(hand2, p))
  BY <1>1, <1>3, FS_Subset
<1>5. /\ more \in Nat /\ 1 <= more /\ room <= more
      /\ Cardinality(AllPushers(hand2, p)) <= more
      /\ Cardinality(AllPushers(hand2, p)) \in Nat
  BY <1>2, <1>4, Roomier
<1> HIDE DEF more
<1>6. ASSUME NEW some
      PROVE  Cardinality(after(some)) \in Nat /\ Cardinality(after(some)) <= more
  <2>1. after(some) \in SUBSET AllPushers(hand2, p)
    BY DEF Pushers
  <2> HIDE DEF after
  <2>2. /\ IsFiniteSet(after(some))
        /\ Cardinality(after(some)) <= Cardinality(AllPushers(hand2, p))
    BY <1>4, <2>1, FS_Subset
  <2>3. Cardinality(after(some)) \in Nat
    BY <2>2, FS_CardinalityType
  <2>4. QED
    BY <1>5, <2>2, <2>3
<1> HIDE DEF after
<1>7. /\ old \in Doc /\ new = old /\ new # NoParty /\ new.members \in SUBSET Entry
      /\ Apart(new.members)
  BY DEF Admits, Doc
<1>8. HasRoom(new, after(Players), more, Players, MaxMembers - 1)
  <2>1. {e \in new.members : e.xuid \in Players} = new.members
    BY <1>7 DEF Entry
  <2>2. /\ Cardinality(new.members) \in Nat
        /\ Cardinality(new.members) = Cardinality(SeatsOf(new.members, Players))
    BY <1>7, <2>1, SeatsCount
  <2>3. ~(Cardinality(new.members) >= MaxMembers)
    BY <1>7 DEF Admits, IsPartyFull
  <2>4. /\ Cardinality(SeatsOf(new.members, Players)) \in Nat
        /\ Cardinality(SeatsOf(new.members, Players)) <= MaxMembers - 1
        /\ MaxMembers - 1 \in Nat
    BY <2>2, <2>3, PartyAssumption
  <2>5. QED
    BY <1>5, <1>6, <2>4, FitsAdmit
<1>9. ASSUME NEW who \in Players
      PROVE  HasRoom(new, after({who}), more, {who}, 0)
  <2>1. CASE who = hand2[h].who
    <3>1. SeatsOf(new.members, {who}) = {}
      BY <1>7, <2>1 DEF Admits, XuidsOf, SeatsOf
    <3>2. /\ Cardinality(SeatsOf(new.members, {who})) \in Nat
          /\ Cardinality(SeatsOf(new.members, {who})) <= 0
          /\ 0 \in Nat
      BY <3>1, FS_EmptySet
    <3>3. QED
      BY <1>5, <1>6, <3>2, FitsAdmit
  <2>2. CASE who # hand2[h].who
    <3>1. after({who}) \in SUBSET Pushers(hand, p, {who})
      BY <2>2 DEF Admits, AllPushers, Pushers, after
    <3>2. Pushers(hand, p, {who}) \in SUBSET AllPushers(hand, p)
      BY DEF Pushers
    <3>3. IsFiniteSet(Pushers(hand, p, {who}))
      BY <1>2, <3>2, FS_Subset
    <3>4. HasRoom(old, Pushers(hand, p, {who}), room, {who}, 0) /\ 0 \in Nat
      BY DEF Company
    <3>5. QED
      BY <1>2, <1>5, <1>7, <3>1, <3>3, <3>4, FitsQuiet
  <2>3. QED
    BY <2>1, <2>2
<1>10. QED
  BY <1>4, <1>5, <1>8, <1>9 DEF Company, more, after

LEMMA CompanyPushes ==
    ASSUME NEW p, NEW old \in Doc \cup {NoParty}, NEW new, NEW hand, NEW hand2, NEW room,
           NEW h \in Handlers,
           Company(old, hand, room, p), Pushes(old, new, hand, hand2, p, h)
    PROVE  Company(new, hand2, Larger(room, Cardinality(AllPushers(hand2, p))), p)
<1> DEFINE more == Larger(room, Cardinality(AllPushers(hand2, p)))
<1>1. AllPushers(hand2, p) \in SUBSET AllPushers(hand, p)
  BY DEF Pushes, AllPushers
<1>2. IsFiniteSet(AllPushers(hand, p)) /\ room \in Nat /\ 1 <= room
  BY DEF Company
<1>3. IsFiniteSet(AllPushers(hand2, p))
  BY <1>1, <1>2, FS_Subset
<1>4. /\ more \in Nat /\ 1 <= more /\ room <= more
      /\ Cardinality(AllPushers(hand2, p)) <= more
  BY <1>2, <1>3, Roomier
<1> HIDE DEF more
<1>5. old # NoParty /\ old.members \in SUBSET Entry
  BY DEF Pushes, Doc
<1>6. PICK seat : PlacesOf(new.members) = PlacesOf(old.members) \cup {<<hand[h].who, seat>>}
  BY DEF Pushes
<1>7. ASSUME NEW m \in new.members
      PROVE  \/ m.xuid = hand[h].who /\ m.seat = seat
             \/ \E e \in old.members : e.xuid = m.xuid /\ e.seat = m.seat
  <2>1. <<m.xuid, m.seat>> \in PlacesOf(new.members)
    BY DEF PlacesOf
  <2>2. CASE <<m.xuid, m.seat>> = <<hand[h].who, seat>>
    BY <2>2
  <2>3. CASE <<m.xuid, m.seat>> \in PlacesOf(old.members)
    BY <2>3 DEF PlacesOf
  <2>4. QED
    BY <1>6, <2>1, <2>2, <2>3
<1>8. ASSUME NEW some, NEW alone \in Nat, HasRoom(old, Pushers(hand, p, some), room, some, alone)
      PROVE  HasRoom(new, Pushers(hand2, p, some), more, some, alone)
  <2>1. Pushers(hand, p, some) \in SUBSET AllPushers(hand, p)
    BY DEF Pushers
  <2>2. IsFiniteSet(Pushers(hand, p, some))
    BY <1>2, <2>1, FS_Subset
  <2>3. CASE hand[h].who \in some
    <3>1. h \in Pushers(hand, p, some)
      BY <2>3 DEF Pushes, Pushers, AllPushers
    <3>2. Pushers(hand2, p, some) \in SUBSET (Pushers(hand, p, some) \ {h})
      BY DEF Pushes, Pushers, AllPushers
    <3>3. SeatsOf(new.members, some) \subseteq SeatsOf(old.members, some) \cup {seat}
      BY <1>7 DEF SeatsOf
    <3>4. QED
      BY <1>2, <1>4, <1>5, <1>8, <2>2, <3>1, <3>2, <3>3, FitsPush
  <2>4. CASE hand[h].who \notin some
    <3>1. Pushers(hand2, p, some) \in SUBSET Pushers(hand, p, some)
      BY DEF Pushes, Pushers, AllPushers
    <3>2. SeatsOf(new.members, some) \subseteq SeatsOf(old.members, some)
      BY <1>7, <2>4 DEF SeatsOf
    <3>3. QED
      BY <1>2, <1>4, <1>5, <1>8, <2>2, <3>1, <3>2, FitsQuiet
  <2>5. QED
    BY <2>3, <2>4
<1>9. MaxMembers - 1 \in Nat /\ 0 \in Nat
  BY PartyAssumption
<1>10. QED
  BY <1>3, <1>4, <1>8, <1>9 DEF Company, more

LEMMA CompanyCreates ==
    ASSUME NEW p, NEW old, NEW new, NEW hand, NEW hand2, NEW room,
           Company(old, hand, room, p), Creates(old, new, hand, hand2, p)
    PROVE  Company(new, hand2, Larger(room, Cardinality(AllPushers(hand2, p))), p)
<1> DEFINE more == Larger(room, Cardinality(AllPushers(hand2, p)))
<1>1. AllPushers(hand2, p) = {}
  BY DEF Creates, AllPushers
<1>2. IsFiniteSet({}) /\ Cardinality({}) = 0
  BY FS_EmptySet
<1>3. room \in Nat /\ 1 <= room
  BY DEF Company
<1>4. more \in Nat /\ 1 <= more
  BY <1>1, <1>2, <1>3, Roomier
<1> HIDE DEF more
<1>5. PICK m \in Entry : new.members = {m}
  BY DEF Creates
<1>6. ASSUME NEW some, NEW alone \in Nat
      PROVE  HasRoom(new, Pushers(hand2, p, some), more, some, alone)
  <2>1. Pushers(hand2, p, some) = {}
    BY <1>1 DEF Pushers
  <2>2. SeatsOf(new.members, some) \in SUBSET ({} \cup {m.seat})
    BY <1>5 DEF SeatsOf
  <2>3. /\ IsFiniteSet({} \cup {m.seat})
        /\ Cardinality({} \cup {m.seat}) \in Nat
        /\ Cardinality({} \cup {m.seat}) <= Cardinality({}) + 1
    BY <1>2, OneMore
  <2>4. /\ IsFiniteSet(SeatsOf(new.members, some))
        /\ Cardinality(SeatsOf(new.members, some)) <= Cardinality({} \cup {m.seat})
    BY <2>2, <2>3, FS_Subset
  <2>5. Cardinality(SeatsOf(new.members, some)) \in Nat
    BY <2>4, FS_CardinalityType
  <2>6. Cardinality(SeatsOf(new.members, some)) <= 1
    BY <1>2, <2>3, <2>4, <2>5
  <2>7. Cardinality(SeatsOf(new.members, some)) + 0 <= alone + more
    BY <1>4, <2>5, <2>6
  <2>8. QED
    BY <1>2, <2>1, <2>7 DEF HasRoom
<1>7. MaxMembers - 1 \in Nat /\ 0 \in Nat
  BY PartyAssumption
<1>8. QED
  BY <1>1, <1>2, <1>3, <1>4, <1>6, <1>7 DEF Company, more


Turn(p) ==
    \/ NoneComes(parties[p], parties'[p], handling, handling', p)
    \/ \E h \in Handlers :
          \/ Admits(parties[p], parties'[p], handling, handling', p, h)
          \/ Pushes(parties[p], parties'[p], handling, handling', p, h)
    \/ Creates(parties[p], parties'[p], handling, handling', p)

LEMMA MorePlaces ==
    ASSUME NEW members, NEW m
    PROVE  PlacesOf(members \cup {m}) = PlacesOf(members) \cup {<<m.xuid, m.seat>>}
BY DEF PlacesOf

LEMMA QuietTurn ==
    ASSUME NEW p \in PartyIds, NEW h \in Handlers,
           DocKept(parties[p], parties'[p]),
           \A g \in Handlers \ {h} : handling'[g] = handling[g],
           handling'[h].pc # "push"
    PROVE  Turn(p)
<1>1. NoneComes(parties[p], parties'[p], handling, handling', p)
  BY DEF NoneComes, DocKept, PushesAt
<1>2. QED
  BY <1>1 DEF Turn

LEMMA SavingTurn ==
    ASSUME TypeOK, NEW h \in Handlers, NEW q \in PartyIds, NEW request,
           request.pc # "push", SavedThenGoto(h, q, request)
    PROVE  /\ handling'[h] = request
           /\ \A p, g : g \in Handlers /\ PushesAt(handling'[g], p) =>
                 handling'[g] = handling[g]
<1>1. handling'[h] = request
  BY DEF SavedThenGoto
<1>2. ASSUME NEW p, NEW g \in Handlers, PushesAt(handling'[g], p)
      PROVE  handling'[g] = handling[g]
  <2>1. g # h
    BY <1>1, <1>2 DEF PushesAt
  <2>2. handling'[g] = Outdated(handling[g], q) /\ handling[g] \in Request
    BY <2>1 DEF SavedThenGoto, TypeOK
  <2>3. CASE handling[g].pc \in {"stamp", "write"}
    <3>1. handling[g] \in Stamping \cup Rewriting
      BY <2>2, <2>3, RequestByPc
    <3>2. [handling[g] EXCEPT !.current = FALSE].pc = handling[g].pc
      BY <3>1 DEF Stamping, Rewriting
    <3>3. QED
      BY <1>2, <2>2, <2>3, <3>2 DEF Outdated, PushesAt
  <2>4. CASE handling[g].pc \notin {"stamp", "write"}
    BY <2>2, <2>4 DEF Outdated
  <2>5. QED
    BY <2>3, <2>4
<1>3. QED
  BY <1>1, <1>2

LEMMA AskedTurn ==
    ASSUME CInv, NEW p \in PartyIds, NEW h \in Handlers, Asked(h)
    PROVE  Turn(p)
<1>1. /\ UNCHANGED <<parties, nextId>>
      /\ \E request : Goto(h, request)
  BY DEF Asked, Create, Invite, Join, FindPartyOf, Leave, Poll
<1>2. /\ DocKept(parties[p], parties'[p])
      /\ \A g \in Handlers \ {h} : handling'[g] = handling[g]
  BY <1>1 DEF DocKept, Goto, CInv, IInv, TypeOK
<1>3. ASSUME NEW q \in PartyIds, NEW who \in Players, Leave(h, q, who)
      PROVE  handling'[h].pc # "push"
  <2>1. Found(q) /\ handling'[h] = Departure(q, who)
    BY <1>3 DEF Leave, Goto, CInv, IInv, TypeOK
  <2>2. QED
    BY <2>1, DepartureCopied
<1>4. ASSUME NEW q \in PartyIds, NEW who \in Players, Poll(h, q, who)
      PROVE  handling'[h].pc # "push"
  BY <1>4, PollCopied
<1>5. ASSUME NEW q \in PartyIds, NEW who \in Players,
             Invite(h, q, who) \/ Join(h, q, who) \/ FindPartyOf(h, q, who)
      PROVE  handling'[h].pc # "push"
  BY <1>5 DEF Invite, Join, FindPartyOf, Goto, CInv, IInv, TypeOK
<1>6. ASSUME NEW who \in Players, Create(h, who)
      PROVE  handling'[h].pc # "push"
  BY <1>6 DEF Create, Goto, CInv, IInv, TypeOK
<1>7. handling'[h].pc # "push"
  BY <1>3, <1>4, <1>5, <1>6 DEF Asked
<1>8. QED
  BY <1>2, <1>7, QuietTurn

LEMMA ContinuedTurn ==
    ASSUME CInv, NEW p \in PartyIds, NEW h \in Handlers, Continued(h)
    PROVE  Turn(p)
<1>0. /\ handling[h] \in Request /\ TypeOK
      /\ DOMAIN handling = Handlers /\ DOMAIN parties = PartyIds
  BY DEF CInv, IInv, TypeOK
<1>a. ASSUME NEW request, Goto(h, request)
      PROVE  handling'[h] = request /\ \A g \in Handlers \ {h} : handling'[g] = handling[g]
  BY <1>0, <1>a DEF Goto
<1>c. ASSUME DocKept(parties[p], parties'[p]),
             NEW request, Goto(h, request), request.pc # "push"
      PROVE  Turn(p)
  BY <1>a, <1>c, QuietTurn
<1>1. CASE Insert(h)
  <2> DEFINE seated == [xuid |-> handling[h].who, seat |-> 1, fresh |-> TRUE]
  <2>1. /\ nextId \in PartyIds /\ Goto(h, Idle) /\ Idle.pc = "idle"
        /\ handling[h].who \in Players
        /\ parties' = [parties EXCEPT ![nextId] =
              [owner |-> handling[h].who, members |-> {seated}]]
    BY <1>0, <1>1, RequestByPc DEF Insert, Idle
  <2>2. seated \in Entry
    BY <2>1, PartyAssumption DEF Entry, Seats
  <2>3. /\ parties'[nextId].members = {seated}
        /\ \A q \in PartyIds \ {nextId} : parties'[q] = parties[q]
    BY <1>0, <2>1
  <2> HIDE DEF seated
  <2>4. CASE p = nextId
    <3>1. ASSUME NEW g \in Handlers
          PROVE  ~PushesAt(handling'[g], p)
      <4>1. CASE g = h
        BY <1>a, <2>1, <4>1 DEF PushesAt
      <4>2. CASE g # h
        <5>1. handling'[g] = handling[g]
          BY <1>a, <2>1, <4>2
        <5>2. handling[g].pc = "push" => handling[g].party < nextId
          BY DEF CInv, Drawn
        <5>3. QED
          BY <2>1, <2>4, <5>1, <5>2 DEF PushesAt, PartyIds
      <4>3. QED
        BY <4>1, <4>2
    <3>2. Creates(parties[p], parties'[p], handling, handling', p)
      BY <2>2, <2>3, <2>4, <3>1 DEF Creates
    <3>3. QED
      BY <3>2 DEF Turn
  <2>5. CASE p # nextId
    <3>1. DocKept(parties[p], parties'[p])
      BY <2>3, <2>5 DEF DocKept
    <3>2. QED
      BY <1>c, <2>1, <3>1
  <2>6. QED
    BY <2>4, <2>5
<1>2. CASE SaveInvite(h) \/ Consume(h) \/ Sweep(h) \/ JoinGone(h) \/ SaveRefused(h)
  <2>1. UNCHANGED parties /\ Goto(h, Idle) /\ Idle.pc = "idle"
    BY <1>2 DEF SaveInvite, Consume, Sweep, JoinGone, SaveRefused, Idle
  <2>2. QED
    BY <1>c, <2>1 DEF DocKept
<1>3. CASE Keep(h)
  <2> DEFINE next == [handling[h] EXCEPT !.pc = "consume"]
  <2>1. handling[h] \in [pc : {"invite", "admit", "push", "keep", "consume", "leaving"},
                         party : PartyIds, who : Players]
    BY <1>0, <1>3, RequestByPc DEF Keep
  <2>2. UNCHANGED parties /\ Goto(h, next) /\ next.pc = "consume"
    BY <1>3, <2>1 DEF Keep
  <2>3. DocKept(parties[p], parties'[p])
    BY <2>2 DEF DocKept
  <2> HIDE DEF next
  <2>4. QED
    BY <1>c, <2>2, <2>3
<1>4. CASE Admit(h)
  <2> DEFINE r == handling[h]
             next == [r EXCEPT !.pc = "push"]
             kept == [r EXCEPT !.pc = "keep"]
  <2>1. r \in [pc : {"invite", "admit", "push", "keep", "consume", "leaving"},
               party : PartyIds, who : Players]
    BY <1>0, <1>4, RequestByPc DEF Admit
  <2>2. UNCHANGED parties
    BY <1>4 DEF Admit
  <2>3. \/ Goto(h, kept)
        \/ /\ Found(r.party) /\ Goto(h, next)
           /\ r.who \notin XuidsOf(parties[r.party].members)
           /\ ~IsPartyFull(parties[r.party].members)
        \/ Goto(h, Idle)
    BY <1>4 DEF Admit
  <2>4. /\ kept.pc = "keep" /\ Idle.pc = "idle"
        /\ next.pc = "push" /\ next.party = r.party /\ next.who = r.who
        /\ r.party \in PartyIds
    BY <2>1 DEF Idle
  <2>5. DocKept(parties[p], parties'[p])
    BY <2>2 DEF DocKept
  <2> HIDE DEF r, next, kept
  <2>6. CASE /\ Found(r.party) /\ Goto(h, next)
             /\ r.who \notin XuidsOf(parties[r.party].members)
             /\ ~IsPartyFull(parties[r.party].members)
    <3>1. handling'[h] = next /\ \A g \in Handlers \ {h} : handling'[g] = handling[g]
      BY <1>a, <2>6
    <3>2. CASE p = r.party
      <4>1. Apart(parties[p].members)
        BY <2>6, <3>2 DEF CInv, StoredApart
      <4>2. Admits(parties[p], parties'[p], handling, handling', p, h)
        BY <2>2, <2>4, <2>6, <3>1, <3>2, <4>1 DEF Admits, PushesAt, Found
      <4>3. QED
        BY <4>2 DEF Turn
    <3>3. CASE p # r.party
      <4>1. NoneComes(parties[p], parties'[p], handling, handling', p)
        BY <2>2, <2>4, <3>1, <3>3 DEF NoneComes, PushesAt
      <4>2. QED
        BY <4>1 DEF Turn
    <3>4. QED
      BY <3>2, <3>3
  <2>7. QED
    BY <1>c, <2>3, <2>4, <2>5, <2>6
<1>5. ASSUME NEW seat \in Seats, Push(h, seat)
      PROVE  Turn(p)
  <2> DEFINE q == handling[h].party
             seated == [xuid |-> handling[h].who, seat |-> seat, fresh |-> TRUE]
             next == [handling[h] EXCEPT !.pc = "consume"]
  <2>1. handling[h] \in [pc : {"invite", "admit", "push", "keep", "consume", "leaving"},
                         party : PartyIds, who : Players]
    BY <1>0, <1>5, RequestByPc DEF Push
  <2>2. /\ Found(q) /\ SavedThenGoto(h, q, next) /\ handling[h].pc = "push"
        /\ parties' = [parties EXCEPT ![q].members = @ \cup {seated}]
    BY <1>5 DEF Push
  <2>3. q \in PartyIds /\ next.pc = "consume"
    BY <2>1
  <2>4. parties[q] \in Doc
    BY <2>2, <2>3 DEF CInv, IInv, TypeOK, Found
  <2>5. /\ parties'[q].members = parties[q].members \cup {seated}
        /\ \A other \in PartyIds \ {q} : parties'[other] = parties[other]
    BY <1>0, <2>2, <2>3, <2>4 DEF Doc
  <2>6. PlacesOf(parties[q].members \cup {seated})
           = PlacesOf(parties[q].members) \cup {<<handling[h].who, seat>>}
    <3>1. seated.xuid = handling[h].who /\ seated.seat = seat
      OBVIOUS
    <3> HIDE DEF seated
    <3>2. QED
      BY <3>1, MorePlaces
  <2> HIDE DEF seated, next
  <2>7. /\ handling'[h] = next
        /\ \A g \in Handlers : PushesAt(handling'[g], p) => handling'[g] = handling[g]
    <3> HIDE DEF q
    <3>1. QED
      BY <1>0, <2>2, <2>3, SavingTurn
  <2>8. CASE p = q
    <3>1. Pushes(parties[p], parties'[p], handling, handling', p, h)
      BY <2>2, <2>3, <2>5, <2>6, <2>7, <2>8 DEF Pushes, PushesAt, Found
    <3>2. QED
      BY <3>1 DEF Turn
  <2>9. CASE p # q
    <3>1. NoneComes(parties[p], parties'[p], handling, handling', p)
      BY <2>5, <2>7, <2>9 DEF NoneComes
    <3>2. QED
      BY <3>1 DEF Turn
  <2>10. QED
    BY <2>8, <2>9
<1>6. CASE LeaveFound(h)
  <2> DEFINE q == handling[h].party
             who == handling[h].who
  <2>1. q \in PartyIds /\ who \in Players
    BY <1>0, <1>6, RequestByPc DEF LeaveFound
  <2>2. /\ UNCHANGED parties
        /\ Goto(h, IF Found(q) /\ who \in XuidsOf(parties[q].members)
                   THEN Departure(q, who) ELSE Idle)
    BY <1>6 DEF LeaveFound
  <2>3. DocKept(parties[p], parties'[p])
    BY <2>2 DEF DocKept
  <2> HIDE DEF q, who
  <2>4. CASE Found(q) /\ who \in XuidsOf(parties[q].members)
    <3>1. Goto(h, Departure(q, who))
      BY <2>2, <2>4
    <3>2. Departure(q, who).pc # "push"
      BY <2>1, <2>4, DepartureCopied
    <3>3. QED
      BY <1>c, <2>3, <3>1, <3>2
  <2>5. CASE ~(Found(q) /\ who \in XuidsOf(parties[q].members))
    <3>1. Goto(h, Idle) /\ Idle.pc = "idle"
      BY <2>2, <2>5 DEF Idle
    <3>2. QED
      BY <1>c, <2>3, <3>1
  <2>6. QED
    BY <2>4, <2>5
<1>7. CASE Stamp(h)
  <2> DEFINE q == handling[h].party
             stamped == Stamped(parties[q].members, handling[h].who)
  <2>1. q \in PartyIds /\ handling[h].who \in Players
    BY <1>0, <1>7, RequestByPc DEF Stamp, Stamping
  <2>2. /\ Found(q) /\ Goto(h, Idle) /\ Idle.pc = "idle"
        /\ parties' = [parties EXCEPT ![q].members = stamped]
    BY <1>7 DEF Stamp, Idle
  <2>3. parties[q] \in Doc
    BY <2>1, <2>2 DEF CInv, IInv, TypeOK, Found
  <2>4. /\ PlacesOf(stamped) = PlacesOf(parties[q].members)
        /\ Apart(parties[q].members) => Apart(stamped)
    BY <2>1, <2>3, StampedPlaces DEF Doc
  <2> HIDE DEF stamped, q
  <2>5. /\ parties'[q].members = stamped /\ parties'[q].owner = parties[q].owner
        /\ \A other \in PartyIds \ {q} : parties'[other] = parties[other]
    BY <1>0, <2>1, <2>2, <2>3 DEF Doc
  <2>6. DocKept(parties[p], parties'[p])
    BY <2>2, <2>4, <2>5 DEF DocKept, Found
  <2>7. QED
    BY <1>c, <2>2, <2>6
<1>8. CASE Write(h)
  <2> DEFINE q == handling[h].party
  <2>1. q \in PartyIds /\ handling[h] \in Rewriting
    BY <1>0, <1>8, RequestByPc DEF Write, Rewriting
  <2>2. /\ Found(q) /\ SavedThenGoto(h, q, Idle) /\ Idle.pc = "idle"
        /\ parties' = [parties EXCEPT ![q].members = handling[h].members]
        /\ handling[h].pc = "write" /\ handling[h].current
    BY <1>8 DEF Write, Idle
  <2>3. parties[q] \in Doc
    BY <2>1, <2>2 DEF CInv, IInv, TypeOK, Found
  <2>4. /\ parties'[q].members = handling[h].members
        /\ \A other \in PartyIds \ {q} : parties'[other] = parties[other]
    BY <1>0, <2>1, <2>2, <2>3 DEF Doc
  <2>5. PlacesOf(handling[h].members) \subseteq PlacesOf(parties[q].members)
    BY <2>2 DEF CInv, HeldCopies, Copied, Found
  <2> HIDE DEF q
  <2>6. \A g \in Handlers : PushesAt(handling'[g], p) => handling'[g] = handling[g]
    BY <1>0, <2>1, <2>2, SavingTurn
  <2>7. NoneComes(parties[p], parties'[p], handling, handling', p)
    BY <2>2, <2>4, <2>5, <2>6 DEF NoneComes, Found
  <2>8. QED
    BY <2>7 DEF Turn
<1>9. CASE Dissolve(h)
  <2> DEFINE next == [pc |-> "sweep", party |-> handling[h].party]
  <2>1. /\ parties' = [parties EXCEPT ![handling[h].party] = NoParty]
        /\ Goto(h, next) /\ next.pc = "sweep"
    BY <1>9 DEF Dissolve
  <2>2. DocKept(parties[p], parties'[p])
    BY <1>0, <2>1 DEF DocKept
  <2> HIDE DEF next
  <2>3. QED
    BY <1>c, <2>1, <2>2
<1>10. QED
  BY <1>1, <1>2, <1>3, <1>4, <1>5, <1>6, <1>7, <1>8, <1>9 DEF Continued

LEMMA PassingTurn ==
    ASSUME CInv, NEW p \in PartyIds, Passing
    PROVE  Turn(p)
<1>0. DOMAIN parties = PartyIds /\ TypeOK
  BY DEF CInv, IInv, TypeOK
<1>1. CASE UNCHANGED handling /\ DocKept(parties[p], parties'[p])
  BY <1>1 DEF Turn, NoneComes, DocKept
<1>2. ASSUME NEW q \in PartyIds, NEW who \in Players, Decline(q, who)
      PROVE  Turn(p)
  BY <1>1, <1>2 DEF Decline, DocKept
<1>3. ASSUME NEW q \in PartyIds, ExpireParty(q)
      PROVE  Turn(p)
  BY <1>0, <1>1, <1>3 DEF ExpireParty, DocKept
<1>4. ASSUME NEW i \in invites, ExpireInvite(i)
      PROVE  Turn(p)
  BY <1>1, <1>4 DEF ExpireInvite, DocKept
<1>5. ASSUME NEW q \in PartyIds, NEW m \in Entry, Lapse(q, m)
      PROVE  Turn(p)
  <2>1. DocKept(parties[p], parties'[p])
    BY <1>0, <1>5, LapseShape
  <2>2. ASSUME NEW g \in Handlers, PushesAt(handling'[g], p)
        PROVE  handling'[g] = handling[g]
    <3>1. CASE handling'[g] = handling[g]
      BY <3>1
    <3>2. CASE /\ handling[g] \in Rewriting
               /\ handling'[g] = [handling[g] EXCEPT !.members = Aged(@, m)]
      <4>1. handling'[g].pc = "write"
        BY <3>2 DEF Rewriting
      <4>2. QED
        BY <2>2, <4>1 DEF PushesAt
    <3>3. QED
      BY <1>0, <1>5, <3>1, <3>2, LapseShape
  <2>3. QED
    BY <2>1, <2>2 DEF Turn, NoneComes, DocKept
<1>6. QED
  BY <1>2, <1>3, <1>4, <1>5 DEF Passing

LEMMA PartyTurns ==
    ASSUME CInv, [Next]_vars, NEW p \in PartyIds
    PROVE  Turn(p)
<1>1. ASSUME NEW h \in Handlers, Fail(h)
      PROVE  Turn(p)
  <2>1. /\ UNCHANGED parties
        /\ handling'[h].pc = "idle"
        /\ \A g \in Handlers \ {h} : handling'[g] = handling[g]
    BY <1>1 DEF Fail, Goto, Idle, CInv, IInv, TypeOK
  <2>2. QED
    BY <2>1, QuietTurn DEF DocKept
<1>2. CASE UNCHANGED vars
  BY <1>2 DEF vars, Turn, NoneComes
<1>3. QED
  BY <1>1, <1>2, AskedTurn, ContinuedTurn, PassingTurn DEF Next

LEMMA CompanyTurn ==
    ASSUME NEW p, NEW old \in Doc \cup {NoParty}, NEW new, NEW hand, NEW hand2, NEW room,
           Company(old, hand, room, p),
           \/ NoneComes(old, new, hand, hand2, p)
           \/ \E h \in Handlers : \/ Admits(old, new, hand, hand2, p, h)
                                  \/ Pushes(old, new, hand, hand2, p, h)
           \/ Creates(old, new, hand, hand2, p)
    PROVE  Company(new, hand2, Larger(room, Cardinality(AllPushers(hand2, p))), p)
BY CompanyQuiet, CompanyAdmits, CompanyPushes, CompanyCreates

LEMMA PushingIsAllPushers ==
    ASSUME NEW p
    PROVE  Pushing(p) = AllPushers(handling, p)
BY DEF Pushing, AllPushers, PushesAt

LEMMA CrowdsStep == CInv /\ Crowds /\ [ONext]_partyVars => Crowds'
<1> SUFFICES ASSUME CInv, Crowds, [ONext]_partyVars PROVE Crowds'
  OBVIOUS
<1>1. CASE UNCHANGED partyVars
  BY <1>1 DEF partyVars, vars, Crowds
<1>2. CASE ONext
  <2> DEFINE Now(p) == Larger(crowd[p], Cardinality(AllPushers(handling', p)))
  <2>1. Next /\ crowd' = [p \in PartyIds |-> Larger(crowd[p], Cardinality(Pushing(p)'))]
    BY <1>2 DEF ONext
  <2>2. crowd' = [p \in PartyIds |-> Now(p)]
    <3>1. ASSUME NEW p \in PartyIds
          PROVE  Pushing(p)' = AllPushers(handling', p)
      BY DEF Pushing, AllPushers, PushesAt
    <3>2. QED
      BY <2>1, <3>1
  <2> HIDE DEF Now
  <2>3. ASSUME NEW p \in PartyIds
        PROVE  /\ Company(parties'[p], handling', crowd'[p], p)
               /\ crowd'[p] \in Nat
    <3>1. Turn(p)
      BY <2>1, PartyTurns
    <3>2. parties[p] \in Doc \cup {NoParty} /\ Company(parties[p], handling, crowd[p], p)
      BY DEF CInv, IInv, TypeOK, Crowds
    <3>3. Company(parties'[p], handling', Now(p), p)
      BY <3>1, <3>2, CompanyTurn DEF Turn, Now
    <3>4. crowd'[p] = Now(p)
      BY <2>2
    <3>5. QED
      BY <3>3, <3>4 DEF Company
  <2>4. crowd' \in [PartyIds -> Nat]
    BY <2>2, <2>3
  <2>5. QED
    BY <2>3, <2>4 DEF Crowds
<1>3. QED
  BY <1>1, <1>2

LEMMA CrowdsStart == OInit => Crowds
<1> SUFFICES ASSUME OInit PROVE Crowds
  OBVIOUS
<1>1. /\ crowd = [p \in PartyIds |-> 1]
      /\ \A p \in PartyIds : parties[p] = NoParty
      /\ \A h \in Handlers : handling[h].pc = "idle"
  BY DEF OInit, Init, Idle
<1>2. ASSUME NEW p \in PartyIds
      PROVE  Company(parties[p], handling, crowd[p], p)
  <2>1. AllPushers(handling, p) = {}
    BY <1>1 DEF AllPushers, PushesAt
  <2>2. IsFiniteSet({}) /\ Cardinality({}) = 0
    BY FS_EmptySet
  <2>3. QED
    BY <1>1, <2>1, <2>2 DEF Company, HasRoom
<1>3. QED
  BY <1>1, <1>2 DEF Crowds

LEMMA PlainStep == [ONext]_partyVars => [Next]_vars
BY DEF ONext, partyVars, vars

LEMMA PlainSpec == OSpec => Spec
<1>1. OInit => Init
  BY DEF OInit
<1>2. QED
  BY <1>1, PlainStep, PTL DEF OSpec, Spec

LEMMA CrowdsAlways == OSpec => [](CInv /\ Crowds)
<1>1. OInit => CInv /\ Crowds
  BY CopiesStart, CrowdsStart DEF OInit
<1>2. CInv /\ Crowds /\ [ONext]_partyVars => CInv' /\ Crowds'
  BY CopiesInductive, CrowdsStep, PlainStep
<1>3. QED
  BY <1>1, <1>2, PTL DEF OSpec

(* What the accounting says of a party: its entries have seats of their own. *)
LEMMA CountedTogether ==
    ASSUME CInv, Crowds, NEW p \in PartyIds, Found(p),
           NEW some, NEW alone \in Nat,
           HasRoom(parties[p], Pushers(handling, p, some), crowd[p], some, alone)
    PROVE  Cardinality({m \in parties[p].members : m.xuid \in some}) <= alone + crowd[p]
<1> DEFINE theirs == {m \in parties[p].members : m.xuid \in some}
           pushers == Pushers(handling, p, some)
<1>1. parties[p].members \in SUBSET Entry /\ Apart(parties[p].members)
  BY DEF CInv, IInv, TypeOK, StoredApart, Found, Doc
<1>2. /\ Cardinality(theirs) \in Nat
      /\ Cardinality(theirs) = Cardinality(SeatsOf(parties[p].members, some))
  BY <1>1, SeatsCount
<1>3. IsFiniteSet(AllPushers(handling, p)) /\ crowd[p] \in Nat
  BY DEF Crowds, Company
<1>4. pushers \in SUBSET AllPushers(handling, p)
  BY DEF Pushers
<1> HIDE DEF theirs, pushers
<1>5. IsFiniteSet(pushers)
  BY <1>3, <1>4, FS_Subset
<1>6. Cardinality(pushers) \in Nat
  BY <1>5, FS_CardinalityType
<1>7. Cardinality(SeatsOf(parties[p].members, some)) + Cardinality(pushers) <= alone + crowd[p]
  BY DEF HasRoom, Found, pushers
<1>8. Cardinality(theirs) <= alone + crowd[p]
  BY <1>2, <1>3, <1>6, <1>7
<1>9. QED
  BY <1>8 DEF theirs

(* However joins, leaves, polls and failures overlap, a party has as many
   members more than MAX_PARTY_MEMBERS as joins beside one were past its cap
   check at the same time, and no more. *)
THEOREM CapKept == OSpec => []CapPassedTogether
<1>1. CInv /\ Crowds => CapPassedTogether
  <2> SUFFICES ASSUME CInv, Crowds, NEW p \in PartyIds, Found(p)
               PROVE  Cardinality(parties[p].members) <= MaxMembers + crowd[p] - 1
    BY DEF CapPassedTogether
  <2>1. {m \in parties[p].members : m.xuid \in Players} = parties[p].members
    BY DEF CInv, IInv, TypeOK, Found, Doc, Entry
  <2>2. MaxMembers - 1 \in Nat /\ crowd[p] \in Nat
    BY PartyAssumption DEF Crowds
  <2>3. HasRoom(parties[p], Pushers(handling, p, Players), crowd[p], Players, MaxMembers - 1)
    BY DEF Crowds, Company
  <2>4. Cardinality(parties[p].members) <= (MaxMembers - 1) + crowd[p]
    BY <2>1, <2>2, <2>3, CountedTogether
  <2>5. /\ parties[p].members \in SUBSET Entry /\ Apart(parties[p].members)
    BY DEF CInv, IInv, TypeOK, StoredApart, Found, Doc
  <2>6. Cardinality(parties[p].members) \in Nat
    BY <2>1, <2>5, SeatsCount
  <2>7. QED
    BY <2>2, <2>4, <2>6, PartyAssumption
<1>2. QED
  BY <1>1, CrowdsAlways, PTL

(* A player has as many seats in a party as joins were past its cap check at
   the same time, and no more: one, when joins do not overlap. *)
THEOREM OneSeatEach == OSpec => []SeatsTakenTogether
<1>1. CInv /\ Crowds => SeatsTakenTogether
  <2> SUFFICES ASSUME CInv, Crowds, NEW p \in PartyIds, Found(p), NEW who \in Players
               PROVE  Cardinality({m \in parties[p].members : m.xuid = who}) <= crowd[p]
    BY DEF SeatsTakenTogether
  <2> DEFINE seats == Cardinality({m \in parties[p].members : m.xuid = who})
  <2>1. {m \in parties[p].members : m.xuid \in {who}} = {m \in parties[p].members : m.xuid = who}
    OBVIOUS
  <2>2. HasRoom(parties[p], Pushers(handling, p, {who}), crowd[p], {who}, 0)
        /\ 0 \in Nat /\ crowd[p] \in Nat
    BY DEF Crowds, Company
  <2>3. Cardinality({m \in parties[p].members : m.xuid \in {who}}) <= 0 + crowd[p]
    BY <2>2, CountedTogether
  <2>4. QED
    BY <2>1, <2>2, <2>3
<1>2. QED
  BY <1>1, CrowdsAlways, PTL

-----------------------------------------------------------------------------
(* Whom a poll takes for idle.  While it is on its way to its save, whoever  *)
(* is fresh in the party is either kept by it or has come back since.        *)

FreshDoc(doc) == XuidsOf(FreshOf(doc.members))

ReapsIdle(r, doc, h, back) ==
    Reaping(r) /\ doc # NoParty =>
        /\ r.pc = "write" => \A who \in FreshDoc(doc) :
              who \in XuidsOf(r.members) \/ <<h, who>> \in back
        /\ r.pc = "dissolve" /\ doc.owner \in FreshDoc(doc) => <<h, doc.owner>> \in back

Reaps ==
    \A h \in Handlers : ReapsIdle(handling[h], parties[handling[h].party], h, returned)

(* A poll that is on its way, one step later. *)
CarriedOn(old, new) ==
    /\ Reaping(old) /\ new.pc = old.pc /\ new.party = old.party
    /\ new.pc = "write" => XuidsOf(new.members) = XuidsOf(old.members)

LEMMA CarriedSame == ASSUME NEW r, Reaping(r) PROVE CarriedOn(r, r)
BY DEF CarriedOn

LEMMA CarriedOutdated ==
    ASSUME NEW r \in Request, NEW p, Reaping(Outdated(r, p))
    PROVE  CarriedOn(r, Outdated(r, p))
<1>1. CASE r.pc \in {"stamp", "write"} /\ r.party = p
  <2>1. r \in Stamping \cup Rewriting /\ Outdated(r, p) = [r EXCEPT !.current = FALSE]
    BY <1>1, RequestByPc DEF Outdated
  <2>2. CASE r \in Stamping
    BY <2>1, <2>2 DEF Stamping, Reaping
  <2>3. CASE r \in Rewriting
    <3>1. /\ Outdated(r, p).pc = r.pc /\ Outdated(r, p).op = r.op
          /\ Outdated(r, p).party = r.party /\ Outdated(r, p).members = r.members
      BY <2>1, <2>3 DEF Rewriting
    <3>2. QED
      BY <3>1 DEF CarriedOn, Reaping
  <2>4. QED
    BY <2>1, <2>2, <2>3
<1>2. CASE ~(r.pc \in {"stamp", "write"} /\ r.party = p)
  BY <1>2, CarriedSame DEF Outdated
<1>3. QED
  BY <1>1, <1>2

LEMMA StampedFresh ==
    ASSUME NEW members \in SUBSET Entry, NEW who \in Players
    PROVE  XuidsOf(FreshOf(members)) \subseteq XuidsOf(FreshOf(Stamped(members, who)))
<1> DEFINE S(m) == IF m.xuid = who THEN [m EXCEPT !.fresh = TRUE] ELSE m
<1>1. \A m \in members : S(m).xuid = m.xuid /\ (m.fresh => S(m).fresh)
  BY DEF Entry
<1>2. Stamped(members, who) = {S(m) : m \in members}
  BY DEF Stamped
<1> HIDE DEF S
<1>3. QED
  BY <1>1, <1>2 DEF XuidsOf, FreshOf

(* A poll that has just read the party drops nobody who is fresh in it. *)
LEMMA PollReady ==
    ASSUME TypeOK, NEW h \in Handlers, NEW p \in PartyIds, NEW who \in Players,
           Poll(h, p, who), NEW back
    PROVE  /\ ReapsIdle(handling'[h], parties'[handling'[h].party], h, back)
           /\ UNCHANGED parties
<1> DEFINE members == parties[p].members
           stamped == Stamped(members, who)
           kept == FreshOf(stamped)
           dissolve == [pc |-> "dissolve", op |-> "reap", party |-> p]
           stamp == [pc |-> "stamp", party |-> p, who |-> who, current |-> TRUE]
           write == [pc |-> "write", op |-> "reap", party |-> p, members |-> kept,
                     gone |-> XuidsOf(stamped \ kept), current |-> TRUE]
<1>1. Found(p) /\ UNCHANGED parties /\ handling' = [handling EXCEPT ![h] =
          IF ShouldDissolve(kept, parties[p].owner) THEN dissolve
          ELSE IF kept = stamped THEN stamp ELSE write]
  BY DEF Poll, Goto
<1>2. members \in SUBSET Entry
  BY <1>1, FoundMembers
<1>3. FreshDoc(parties[p]) \subseteq XuidsOf(kept)
  BY <1>2, StampedFresh DEF FreshDoc
<1>4. ShouldDissolve(kept, parties[p].owner) => parties[p].owner \notin XuidsOf(kept)
  BY DEF ShouldDissolve, XuidsOf
<1> HIDE DEF members, stamped, kept
<1>5. ShouldDissolve(kept, parties[p].owner) => ReapsIdle(dissolve, parties[p], h, back)
  BY <1>3, <1>4 DEF ReapsIdle
<1>6. ReapsIdle(stamp, parties[p], h, back)
  BY DEF ReapsIdle, Reaping
<1>7. ReapsIdle(write, parties[p], h, back)
  BY <1>3 DEF ReapsIdle
<1>8. stamp.party = p /\ dissolve.party = p /\ write.party = p
  OBVIOUS
<1> HIDE DEF dissolve, stamp, write
<1>9. DOMAIN handling = Handlers
  BY DEF TypeOK
<1>10. QED
  BY <1>1, <1>5, <1>6, <1>7, <1>8, <1>9

LEMMA AskedCarries ==
    ASSUME CInv, NEW h \in Handlers, Asked(h), NEW g \in Handlers, Reaping(handling'[g])
    PROVE  \/ CarriedOn(handling[g], handling'[g])
           \/ \E p \in PartyIds, who \in Players : Poll(g, p, who)
<1>1. /\ \E request : Goto(h, request)
      /\ DOMAIN handling = Handlers
  BY DEF Asked, Create, Invite, Join, FindPartyOf, Leave, Poll, CInv, IInv, TypeOK
<1>2. CASE g # h
  BY <1>1, <1>2, CarriedSame DEF Goto
<1>3. CASE g = h
  <2>1. ASSUME NEW p \in PartyIds, NEW who \in Players, Leave(h, p, who)
        PROVE  FALSE
    <3>1. handling'[h] = Departure(p, who)
      BY <1>1, <2>1 DEF Leave, Goto
    <3>2. Departure(p, who).op = "leave"
      BY DEF Departure
    <3>3. QED
      BY <1>3, <3>1, <3>2 DEF Reaping
  <2>2. ASSUME NEW p \in PartyIds, NEW who \in Players,
               Invite(h, p, who) \/ Join(h, p, who) \/ FindPartyOf(h, p, who)
        PROVE  FALSE
    BY <1>1, <1>3, <2>2 DEF Invite, Join, FindPartyOf, Goto, Reaping
  <2>3. ASSUME NEW who \in Players, Create(h, who)
        PROVE  FALSE
    BY <1>1, <1>3, <2>3 DEF Create, Goto, Reaping
  <2>4. QED
    BY <1>3, <2>1, <2>2, <2>3 DEF Asked
<1>4. QED
  BY <1>2, <1>3

LEMMA ContinuedCarries ==
    ASSUME CInv, NEW h \in Handlers, Continued(h), NEW g \in Handlers, Reaping(handling'[g])
    PROVE  CarriedOn(handling[g], handling'[g])
<1>0. handling \in [Handlers -> Request]
  BY DEF CInv, IInv, TypeOK
<1>a. ASSUME NEW request, ~Reaping(request),
             \/ Goto(h, request)
             \/ \E p \in PartyIds : SavedThenGoto(h, p, request)
      PROVE  CarriedOn(handling[g], handling'[g])
  <2>1. handling'[h] = request
    BY <1>0, <1>a DEF Goto, SavedThenGoto
  <2>2. g # h
    BY <1>a, <2>1
  <2>3. CASE Goto(h, request)
    BY <1>0, <2>2, <2>3, CarriedSame DEF Goto
  <2>4. ASSUME NEW p \in PartyIds, SavedThenGoto(h, p, request)
        PROVE  CarriedOn(handling[g], handling'[g])
    <3>1. handling'[g] = Outdated(handling[g], p) /\ handling[g] \in Request
      BY <1>0, <2>2, <2>4 DEF SavedThenGoto
    <3>2. QED
      BY <3>1, CarriedOutdated
  <2>5. QED
    BY <1>a, <2>3, <2>4
<1>b. ~Reaping(Idle)
  BY DEF Idle, Reaping
<1>1. CASE \/ Insert(h) \/ SaveInvite(h) \/ Consume(h) \/ Sweep(h) \/ JoinGone(h)
           \/ SaveRefused(h) \/ Stamp(h)
  <2>1. Goto(h, Idle)
    BY <1>1 DEF Insert, SaveInvite, Consume, Sweep, JoinGone, SaveRefused, Stamp
  <2>2. QED
    BY <1>a, <1>b, <2>1
<1>2. CASE Keep(h) \/ Admit(h) \/ \E seat \in Seats : Push(h, seat)
  <2> DEFINE r == handling[h]
             Next1(pc) == [r EXCEPT !.pc = pc]
  <2>1. r \in [pc : {"invite", "admit", "push", "keep", "consume", "leaving"},
               party : PartyIds, who : Players]
    BY <1>0, <1>2, RequestByPc DEF Keep, Admit, Push
  <2>2. \/ Goto(h, Next1("consume")) \/ Goto(h, Next1("keep")) \/ Goto(h, Next1("push"))
        \/ Goto(h, Idle)
        \/ SavedThenGoto(h, r.party, Next1("consume"))
    BY <1>2 DEF Keep, Admit, Push
  <2>3. r.party \in PartyIds
    BY <2>1
  <2>4. ~Reaping(Next1("consume")) /\ ~Reaping(Next1("keep")) /\ ~Reaping(Next1("push"))
    BY <2>1 DEF Reaping
  <2> HIDE DEF r, Next1
  <2>5. QED
    BY <1>a, <1>b, <2>2, <2>3, <2>4
<1>3. CASE LeaveFound(h)
  <2> DEFINE p == handling[h].party
             who == handling[h].who
  <2>1. Goto(h, Departure(p, who)) \/ Goto(h, Idle)
    BY <1>3 DEF LeaveFound
  <2>2. Departure(p, who).op = "leave"
    BY DEF Departure
  <2>3. ~Reaping(Departure(p, who))
    BY <2>2 DEF Reaping
  <2>4. QED
    BY <1>a, <1>b, <2>1, <2>3
<1>4. CASE Write(h)
  <2>1. SavedThenGoto(h, handling[h].party, Idle) /\ handling[h].party \in PartyIds
    BY <1>0, <1>4, RequestByPc DEF Write, Rewriting
  <2>2. QED
    BY <1>a, <1>b, <2>1
<1>5. CASE Dissolve(h)
  <2> DEFINE next == [pc |-> "sweep", party |-> handling[h].party]
  <2>1. Goto(h, next) /\ ~Reaping(next)
    BY <1>5 DEF Dissolve, Reaping
  <2> HIDE DEF next
  <2>2. QED
    BY <1>a, <2>1
<1>6. QED
  BY <1>1, <1>2, <1>3, <1>4, <1>5 DEF Continued

LEMMA OtherwiseCarries ==
    ASSUME CInv, Passing \/ (\E h \in Handlers : Fail(h)) \/ UNCHANGED vars,
           NEW g \in Handlers, Reaping(handling'[g])
    PROVE  CarriedOn(handling[g], handling'[g])
<1>0. handling \in [Handlers -> Request] /\ TypeOK
  BY DEF CInv, IInv, TypeOK
<1>1. CASE UNCHANGED handling
  BY <1>1, CarriedSame
<1>2. ASSUME NEW h \in Handlers, Fail(h)
      PROVE  CarriedOn(handling[g], handling'[g])
  BY <1>0, <1>2, CarriedSame DEF Fail, Goto, Idle, Reaping
<1>3. ASSUME NEW p \in PartyIds, NEW m \in Entry, Lapse(p, m)
      PROVE  CarriedOn(handling[g], handling'[g])
  <2>1. CASE handling'[g] = handling[g]
    BY <2>1, CarriedSame
  <2>2. CASE /\ handling[g] \in Rewriting
             /\ handling'[g] = [handling[g] EXCEPT !.members = Aged(@, m)]
    <3>1. /\ handling'[g].pc = handling[g].pc /\ handling'[g].op = handling[g].op
          /\ handling'[g].party = handling[g].party
          /\ handling'[g].members = Aged(handling[g].members, m)
      BY <2>2 DEF Rewriting
    <3>2. XuidsOf(handling'[g].members) = XuidsOf(handling[g].members)
      BY <2>2, <3>1, AgedMembers DEF Rewriting
    <3>3. QED
      BY <3>1, <3>2 DEF CarriedOn, Reaping
  <2>3. QED
    BY <1>0, <1>3, <2>1, <2>2, LapseShape
<1>4. CASE Passing
  <2>1. \/ \E p \in PartyIds, m \in Entry : Lapse(p, m)
        \/ UNCHANGED handling
    BY <1>4 DEF Passing, Decline, ExpireParty, ExpireInvite
  <2>2. QED
    BY <1>1, <1>3, <2>1
<1>5. QED
  BY <1>1, <1>2, <1>4 DEF vars

(* A stored party keeps its owner as long as it is stored. *)
LEMMA OwnerKept ==
    ASSUME CInv, [Next]_vars, NEW p \in PartyIds, p < nextId, parties'[p] # NoParty
    PROVE  parties[p] # NoParty /\ parties'[p].owner = parties[p].owner
<1>0. TypeOK /\ DOMAIN parties = PartyIds /\ nextId \in Nat
  BY DEF CInv, IInv, TypeOK, PartyIds
<1>a. ASSUME NEW q \in PartyIds, Found(q), NEW members,
             parties' = [parties EXCEPT ![q].members = members]
      PROVE  parties[p] # NoParty /\ parties'[p].owner = parties[p].owner
  <2>1. parties[q] \in Doc
    BY <1>0, <1>a DEF TypeOK, Found
  <2>2. QED
    BY <1>0, <1>a, <2>1 DEF Found, Doc
<1>b. ASSUME NEW q \in PartyIds, parties' = [parties EXCEPT ![q] = NoParty]
      PROVE  parties[p] # NoParty /\ parties'[p].owner = parties[p].owner
  BY <1>0, <1>b
<1>1. ASSUME NEW h \in Handlers, Asked(h)
      PROVE  UNCHANGED parties
  BY <1>1 DEF Asked, Create, Invite, Join, FindPartyOf, Leave, Poll
<1>2. ASSUME NEW h \in Handlers, Continued(h)
      PROVE  parties[p] # NoParty /\ parties'[p].owner = parties[p].owner
  <2>0. handling[h] \in Request
    BY <1>0 DEF TypeOK
  <2>1. CASE Insert(h)
    BY <1>0, <2>1 DEF Insert, PartyIds
  <2>2. CASE \/ SaveInvite(h) \/ Consume(h) \/ Sweep(h) \/ JoinGone(h) \/ SaveRefused(h)
             \/ Keep(h) \/ Admit(h) \/ LeaveFound(h)
    BY <2>2 DEF SaveInvite, Consume, Sweep, JoinGone, SaveRefused, Keep, Admit, LeaveFound
  <2>3. ASSUME NEW seat \in Seats, Push(h, seat)
        PROVE  parties[p] # NoParty /\ parties'[p].owner = parties[p].owner
    <3> DEFINE q == handling[h].party
               members == parties[q].members
                  \cup {[xuid |-> handling[h].who, seat |-> seat, fresh |-> TRUE]}
    <3>1. q \in PartyIds
      BY <2>0, <2>3, RequestByPc DEF Push
    <3>2. Found(q) /\ parties' = [parties EXCEPT ![q].members = members]
      BY <2>3 DEF Push
    <3> HIDE DEF members, q
    <3>3. QED
      BY <1>a, <3>1, <3>2
  <2>4. CASE Stamp(h)
    <3> DEFINE q == handling[h].party
               members == Stamped(parties[q].members, handling[h].who)
    <3>1. q \in PartyIds
      BY <2>0, <2>4, RequestByPc DEF Stamp, Stamping
    <3>2. Found(q) /\ parties' = [parties EXCEPT ![q].members = members]
      BY <2>4 DEF Stamp
    <3> HIDE DEF members, q
    <3>3. QED
      BY <1>a, <3>1, <3>2
  <2>5. CASE Write(h)
    <3> DEFINE q == handling[h].party
               members == handling[h].members
    <3>1. q \in PartyIds
      BY <2>0, <2>5, RequestByPc DEF Write, Rewriting
    <3>2. Found(q) /\ parties' = [parties EXCEPT ![q].members = members]
      BY <2>5 DEF Write
    <3> HIDE DEF members, q
    <3>3. QED
      BY <1>a, <3>1, <3>2
  <2>6. CASE Dissolve(h)
    BY <1>b, <2>0, <2>6, RequestByPc DEF Dissolve, Dissolving
  <2>7. QED
    BY <1>2, <2>1, <2>2, <2>3, <2>4, <2>5, <2>6 DEF Continued
<1>3. ASSUME NEW h \in Handlers, Fail(h)
      PROVE  UNCHANGED parties
  BY <1>3 DEF Fail
<1>4. CASE Passing
  <2>1. ASSUME NEW q \in PartyIds, NEW m \in Entry, Lapse(q, m)
        PROVE  parties[p] # NoParty /\ parties'[p].owner = parties[p].owner
    BY <1>a, <2>1 DEF Lapse
  <2>2. ASSUME NEW q \in PartyIds, ExpireParty(q)
        PROVE  parties[p] # NoParty /\ parties'[p].owner = parties[p].owner
    BY <1>b, <2>2 DEF ExpireParty
  <2>3. QED
    BY <1>4, <2>1, <2>2 DEF Passing, Decline, ExpireInvite
<1>5. CASE UNCHANGED vars
  BY <1>5 DEF vars
<1>6. QED
  BY <1>1, <1>2, <1>3, <1>4, <1>5 DEF Next

LEMMA ReapingParty ==
    ASSUME CInv, NEW h \in Handlers, Reaping(handling[h])
    PROVE  handling[h].party \in PartyIds /\ handling[h].party < nextId
<1>1. handling[h] \in Request /\ handling[h].pc \in {"write", "dissolve"}
  BY DEF CInv, IInv, TypeOK, Reaping
<1>2. CASE handling[h].pc = "write"
  BY <1>1, <1>2, RequestByPc DEF CInv, IInv, PendingWrites, Rewriting
<1>3. CASE handling[h].pc = "dissolve"
  <2>1. handling[h] \in Dissolving /\ handling[h].party < nextId
    BY <1>1, <1>3, RequestByPc DEF CInv, Drawn
  <2>2. QED
    BY <2>1 DEF Dissolving
<1>4. QED
  BY <1>1, <1>2, <1>3

LEMMA ReapsStep == CInv /\ Reaps /\ [ONext]_partyVars => Reaps'
<1> SUFFICES ASSUME CInv, Reaps, [ONext]_partyVars PROVE Reaps'
  OBVIOUS
<1>1. CASE UNCHANGED partyVars
  BY <1>1 DEF partyVars, vars, Reaps
<1>2. CASE ONext
  <2>0. Next /\ returned' = {hx \in returned \cup Missed : Reaping(handling'[hx[1]])}
    BY <1>2 DEF ONext
  <2>1. ASSUME NEW g \in Handlers, Reaping(handling'[g])
        PROVE  ReapsIdle(handling'[g], parties'[handling'[g].party], g, returned')
    <3>1. ASSUME NEW p \in PartyIds, NEW who \in Players, Poll(g, p, who)
          PROVE  ReapsIdle(handling'[g], parties'[handling'[g].party], g, returned')
      <4>1. TypeOK
        BY DEF CInv, IInv
      <4>2. QED
        BY <3>1, <4>1, PollReady
    <3>2. CASE CarriedOn(handling[g], handling'[g])
      <4>a. PICK p \in PartyIds : p = handling[g].party
        BY <3>2, ReapingParty DEF CarriedOn
      <4> DEFINE old == parties[p]
                 new == parties'[p]
      <4>1. /\ Reaping(handling[g]) /\ handling'[g].pc = handling[g].pc
            /\ handling'[g].party = p
            /\ handling'[g].pc = "write" =>
                  XuidsOf(handling'[g].members) = XuidsOf(handling[g].members)
        BY <3>2, <4>a DEF CarriedOn
      <4>2. p < nextId
        BY <4>1, <4>a, ReapingParty
      <4>3. new # NoParty => old # NoParty /\ new.owner = old.owner
        BY <2>0, <4>2, OwnerKept
      <4>4. ReapsIdle(handling[g], old, g, returned)
        BY <4>a DEF Reaps
      <4>5. ASSUME NEW who, <<g, who>> \in returned
            PROVE  <<g, who>> \in returned'
        BY <2>0, <2>1, <4>5
      <4>6. ASSUME new # NoParty, NEW who \in FreshDoc(new), who \notin FreshDoc(old)
            PROVE  <<g, who>> \in returned'
        <5>1. CInv'
          BY <2>0, CopiesInductive
        <5>2. new \in Doc
          BY <4>6, <5>1 DEF CInv, IInv, TypeOK
        <5>3. who \in Players
          BY <4>6, <5>2 DEF FreshDoc, XuidsOf, FreshOf, Doc, Entry
        <5>4. who \in FreshIn(p)' /\ who \notin FreshIn(p)
          BY <4>3, <4>6 DEF FreshIn, FreshDoc, Found
        <5>5. <<g, who>> \in Missed
          BY <4>1, <4>a, <5>3, <5>4 DEF Missed
        <5>6. QED
          BY <2>0, <2>1, <5>5
      <4> HIDE DEF old, new
      <4>7. ASSUME new # NoParty, handling'[g].pc = "write", NEW who \in FreshDoc(new)
            PROVE  who \in XuidsOf(handling'[g].members) \/ <<g, who>> \in returned'
        <5>1. CASE who \in FreshDoc(old)
          <6>1. who \in XuidsOf(handling[g].members) \/ <<g, who>> \in returned
            BY <4>1, <4>3, <4>4, <4>7, <5>1 DEF ReapsIdle
          <6>2. QED
            BY <4>1, <4>5, <4>7, <6>1
        <5>2. QED
          BY <4>6, <4>7, <5>1
      <4>8. ASSUME new # NoParty, handling'[g].pc = "dissolve", new.owner \in FreshDoc(new)
            PROVE  <<g, new.owner>> \in returned'
        <5>1. CASE new.owner \in FreshDoc(old)
          <6>1. <<g, new.owner>> \in returned
            BY <4>1, <4>3, <4>4, <4>8, <5>1 DEF ReapsIdle
          <6>2. QED
            BY <4>5, <6>1
        <5>2. QED
          BY <4>6, <4>8, <5>1
      <4>9. ReapsIdle(handling'[g], new, g, returned')
        BY <4>7, <4>8 DEF ReapsIdle
      <4>10. QED
        BY <4>1, <4>9 DEF new
    <3>3. QED
      BY <2>0, <2>1, <3>1, <3>2, AskedCarries, ContinuedCarries, OtherwiseCarries DEF Next
  <2>2. QED
    BY <2>1 DEF Reaps, ReapsIdle
<1>3. QED
  BY <1>1, <1>2

LEMMA ReapsStart == OInit => Reaps
BY DEF OInit, Init, Idle, Reaps, ReapsIdle, Reaping

(* Whatever overlaps it, a poll drops or dissolves on account of nobody but
   players that were idle when it read the party and are idle still, or that
   came back while it was on its way to the save. *)
THEOREM ReapsOnlyIdle == OSpec => OnlyAwayReaped
<1> DEFINE Saves(h) ==
       LET r == handling[h]
       IN  /\ Write(h) /\ r.op = "reap" =>
                 \A who \in FreshIn(r.party) :
                     \/ who \in XuidsOf(parties'[r.party].members)
                     \/ <<h, who>> \in returned
           /\ Dissolve(h) /\ r.op = "reap" /\ Found(r.party) =>
                 LET owner == parties[r.party].owner
                 IN  owner \in FreshIn(r.party) => <<h, owner>> \in returned
<1>1. ASSUME CInv, Reaps, NEW h \in Handlers
      PROVE  Saves(h)
  <2>1. ReapsIdle(handling[h], parties[handling[h].party], h, returned)
    BY <1>1 DEF Reaps
  <2>2. ASSUME Write(h), handling[h].op = "reap", NEW who \in FreshIn(handling[h].party)
        PROVE  who \in XuidsOf(parties'[handling[h].party].members) \/ <<h, who>> \in returned
    <3> DEFINE p == handling[h].party
    <3>1. /\ Found(p) /\ handling[h].pc = "write"
          /\ parties' = [parties EXCEPT ![p].members = handling[h].members]
      BY <2>2 DEF Write
    <3>2. p \in PartyIds
      BY <1>1, <2>2, <3>1, ReapingParty DEF Reaping
    <3>3. parties[p] \in Doc /\ DOMAIN parties = PartyIds
      BY <1>1, <3>1, <3>2 DEF CInv, IInv, TypeOK, Found
    <3>4. parties'[p].members = handling[h].members
      BY <3>1, <3>2, <3>3 DEF Doc
    <3>5. QED
      BY <2>1, <2>2, <3>1, <3>4 DEF ReapsIdle, Reaping, FreshIn, FreshDoc, Found
  <2>3. ASSUME Dissolve(h), handling[h].op = "reap", Found(handling[h].party),
               parties[handling[h].party].owner \in FreshIn(handling[h].party)
        PROVE  <<h, parties[handling[h].party].owner>> \in returned
    <3>1. handling[h].pc = "dissolve"
      BY <2>3 DEF Dissolve
    <3>2. QED
      BY <2>1, <2>3, <3>1 DEF ReapsIdle, Reaping, FreshIn, FreshDoc, Found
  <2>4. QED
    BY <2>2, <2>3
<1>2. OInit => CInv /\ Reaps
  BY CopiesStart, ReapsStart DEF OInit
<1>3. CInv /\ Reaps /\ [ONext]_partyVars => CInv' /\ Reaps'
  BY CopiesInductive, ReapsStep, PlainStep
<1>4. CInv /\ Reaps => \A h \in Handlers : Saves(h)
  BY <1>1
<1>5. CInv /\ Reaps /\ [ONext]_partyVars => [\A h \in Handlers : Saves(h)]_partyVars
  BY <1>4
<1>6. QED
  BY <1>2, <1>3, <1>5, PTL DEF OSpec, OnlyAwayReaped
=============================================================================
