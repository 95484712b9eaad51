----------------------------- MODULE Friendship -----------------------------
(***************************************************************************)
(* What the friends service promises of a pair of players, whatever calls  *)
(* are in flight (friends.controller: "a relationship is only 'accepted'   *)
(* after the recipient accepts"; friendship.schema: one row per pair,      *)
(* "Never 'accepted' without an accept").                                  *)
(*                                                                         *)
(* A pair has no bond, one of the two is asking, or they are friends.      *)
(* `agreed` are those of the two who have said yes to the bond as it       *)
(* stands; ending a bond forgets what was said of it.                      *)
(***************************************************************************)
CONSTANTS Folk, NoBond, Friendly

Ties == {t \in SUBSET Folk : \E x, y \in Folk : x # y /\ t = {x, y}}

VARIABLES bond, agreed

FriendshipInit ==
    /\ bond = [t \in Ties |-> NoBond]
    /\ agreed = [t \in Ties |-> {}]

Ask(t, x) ==
    /\ bond[t] = NoBond
    /\ x \in t
    /\ bond' = [bond EXCEPT ![t] = x]
    /\ agreed' = [agreed EXCEPT ![t] = {x}]

Agree(t, x) ==
    /\ bond[t] \in t \ {x}
    /\ x \in t
    /\ agreed' = [agreed EXCEPT ![t] = @ \cup {x}]
    /\ UNCHANGED bond

Befriend(t) ==
    /\ bond[t] \in t
    /\ agreed[t] = t
    /\ bond' = [bond EXCEPT ![t] = Friendly]
    /\ UNCHANGED agreed

End(t) ==
    /\ bond' = [bond EXCEPT ![t] = NoBond]
    /\ agreed' = [agreed EXCEPT ![t] = {}]

FriendshipNext ==
    \E t \in Ties : \/ End(t)
                    \/ \E x \in t : Ask(t, x) \/ Agree(t, x)
                    \/ Befriend(t)

FriendshipSpec == FriendshipInit /\ [][FriendshipNext]_<<bond, agreed>>

=============================================================================
