------------------------------ MODULE Membership ------------------------------
(***************************************************************************)
(* What the party service promises of who is in a party, whatever requests *)
(* overlap (party.service: a join needs a pending invite, the owner's      *)
(* departure dissolves).                                                   *)
(*                                                                         *)
(* A player gets into a party in three turns: someone begins to invite     *)
(* them while it stands and they are not in it, the invitation is given,   *)
(* and they begin to join while it is there.  Nobody else ever gets in.    *)
(* Its owner never changes and never goes before the party ends, and a     *)
(* party that has ended does not come back.                                *)
(***************************************************************************)
CONSTANTS PartyIds, Players, NoParty

VARIABLES
    party,    \* id -> its owner and its people, or NoParty
    drawn,    \* the ids that a party had
    invited,  \* the <<party, player>> whose invitation is there
    calls     \* under way: <<"invite" or "join", party, player>>

MembershipInit ==
    /\ party = [p \in PartyIds |-> NoParty]
    /\ drawn = {}
    /\ invited = {}
    /\ calls = {}

Form(p, x) ==
    /\ p \notin drawn
    /\ party' = [party EXCEPT ![p] = [owner |-> x, people |-> {x}]]
    /\ drawn' = drawn \cup {p}
    /\ UNCHANGED <<invited, calls>>

BeginInvite(p, x) ==
    /\ party[p] # NoParty
    /\ x \notin party[p].people
    /\ calls' = calls \cup {<<"invite", p, x>>}
    /\ UNCHANGED <<party, drawn, invited>>

Give(p, x) ==
    /\ <<"invite", p, x>> \in calls
    /\ invited' = invited \cup {<<p, x>>}
    /\ calls' \subseteq calls
    /\ UNCHANGED <<party, drawn>>

BeginJoin(p, x) ==
    /\ <<p, x>> \in invited
    /\ calls' = calls \cup {<<"join", p, x>>}
    /\ UNCHANGED <<party, drawn, invited>>

Enter(p, x) ==
    /\ <<"join", p, x>> \in calls
    /\ party[p] # NoParty
    /\ party' = [party EXCEPT ![p].people = @ \cup {x}]
    /\ calls' \subseteq calls
    /\ UNCHANGED <<drawn, invited>>

\* Those who leave or are idle.
Go(p, xs) ==
    /\ party[p] # NoParty
    /\ party[p].owner \notin xs
    /\ party' = [party EXCEPT ![p].people = @ \ xs]
    /\ UNCHANGED <<drawn, invited, calls>>

EndParty(p) ==
    /\ party' = [party EXCEPT ![p] = NoParty]
    /\ UNCHANGED <<drawn, invited, calls>>

\* Invitations are used, declined or expire; requests end.
Withdraw ==
    /\ invited' \subseteq invited
    /\ calls' \subseteq calls
    /\ UNCHANGED <<party, drawn>>

MembershipNext ==
    \/ Withdraw
    \/ \E p \in PartyIds :
          \/ \E x \in Players : \/ Form(p, x)
                                \/ BeginInvite(p, x) \/ Give(p, x)
                                \/ BeginJoin(p, x) \/ Enter(p, x)
          \/ \E xs \in SUBSET Players : Go(p, xs)
          \/ EndParty(p)

MembershipSpec ==
    MembershipInit /\ [][MembershipNext]_<<party, drawn, invited, calls>>

=============================================================================
