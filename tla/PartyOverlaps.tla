---------------------------- MODULE PartyOverlaps ----------------------------
(***************************************************************************)
(* Parties with a record of which requests overlapped.  It adds history    *)
(* variables and no behaviour: every step is a step of Party.              *)
(***************************************************************************)
EXTENDS Party

VARIABLES
    crowd,    \* party -> the most joins that were past its cap check at once
    returned  \* <<handler, player>>: polled since the handler's poll read the party

partyVars == <<vars, crowd, returned>>

-----------------------------------------------------------------------------
\* The joins that have found a place in the party and not taken it yet.
Pushing(p) == {h \in Handlers : handling[h].pc = "push" /\ handling[h].party = p}

Larger(m, n) == IF m >= n THEN m ELSE n

\* A poll that is about to drop members, or the party.
Reaping(r) == r.pc \in {"write", "dissolve"} /\ r.op = "reap"

FreshIn(p) == IF Found(p) THEN XuidsOf(FreshOf(parties[p].members)) ELSE {}

\* The step saves a lastPoll that a poll in flight has not read.
Missed ==
    {hx \in Handlers \X Players :
        \E p \in PartyIds :
            /\ Reaping(handling[hx[1]])
            /\ handling[hx[1]].party = p
            /\ hx[2] \in FreshIn(p)' \ FreshIn(p)}

OInit ==
    /\ Init
    /\ crowd = [p \in PartyIds |-> 1]
    /\ returned = {}

ONext ==
    /\ Next
    /\ crowd' = [p \in PartyIds |-> Larger(crowd[p], Cardinality(Pushing(p)'))]
    /\ returned' = {hx \in returned \cup Missed : Reaping(handling'[hx[1]])}

OSpec == OInit /\ [][ONext]_partyVars

-----------------------------------------------------------------------------
(* What overlapping requests can do to a party, and no more.               *)

\* isPartyFull caps the membership at MAX_PARTY_MEMBERS, and a party goes past
\* the cap only by as many as joined it at the same time: when one by one,
\* never, however requests fail half-way and whoever leaves or is reaped.
CapPassedTogether ==
    \A p \in PartyIds : Found(p) =>
        Cardinality(parties[p].members) <= MaxMembers + crowd[p] - 1

\* A player takes a second seat only when joins overlap, and not by joining
\* again with an invite that a failed request left behind.
SeatsTakenTogether ==
    \A p \in PartyIds : Found(p) =>
        \A who \in Players :
            Cardinality({m \in parties[p].members : m.xuid = who}) <= crowd[p]

\* A poll takes out of a party only members that have not polled for thirty
\* seconds, or whose poll was saved after it read the party; and it dissolves a
\* party only when one or the other is true of its owner.
OnlyAwayReaped ==
    [][\A h \in Handlers :
          LET r == handling[h]
          IN  /\ Write(h) /\ r.op = "reap" =>
                    \A who \in FreshIn(r.party) :
                        \/ who \in XuidsOf(parties'[r.party].members)
                        \/ <<h, who>> \in returned
              /\ Dissolve(h) /\ r.op = "reap" /\ Found(r.party) =>
                    LET owner == parties[r.party].owner
                    IN  owner \in FreshIn(r.party) => <<h, owner>> \in returned]_partyVars
=============================================================================
