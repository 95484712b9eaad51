--------------------------- MODULE ServicesProofs ----------------------------
(***************************************************************************)
(* The services that are checked together, for any constants: the argument *)
(* of module MCServices that a behaviour of their composition is one of    *)
(* each service alone, and what follows from it.                           *)
(***************************************************************************)
EXTENDS MCServices, PeopleProofs, UploadsProofs, PartyProofs

servicesVars ==
    <<active, playersVars, storageVars, friendsVars, recentVars, accountsVars,
      logsVars, propertiesVars, qosVars, partyVars>>

LEMMA ServicesStart ==
    ServicesInit => /\ PlayersInit /\ StorageInit /\ FriendsInit /\ RecentInit
                    /\ AccountsInit /\ LogsInit /\ PropertiesInit /\ QosInit /\ OInit
BY DEF ServicesInit

(* Whoever moves, a service makes one of its own steps or rests. *)
LEMMA ServicesStep ==
    [ServicesNext]_servicesVars =>
        /\ [PlayersNext]_playersVars /\ [StorageNext]_storageVars
        /\ [FriendsNext]_friendsVars /\ [RecentNext]_recentVars
        /\ [AccountsNext]_accountsVars /\ [LogsNext]_logsVars
        /\ [PropertiesNext]_propertiesVars /\ [QosNext]_qosVars
        /\ [ONext]_partyVars
<1>1. CASE ServicesNext
  <2>1. OthersRest
    BY <1>1 DEF ServicesNext
  <2>2. /\ active # "players" => UNCHANGED playersVars
        /\ active # "storage" => UNCHANGED storageVars
        /\ active # "friends" => UNCHANGED friendsVars
        /\ active # "recent" => UNCHANGED recentVars
        /\ active # "accounts" => UNCHANGED accountsVars
        /\ active # "logs" => UNCHANGED logsVars
        /\ active # "properties" => UNCHANGED propertiesVars
        /\ active # "qos" => UNCHANGED qosVars
        /\ active # "parties" => UNCHANGED partyVars
    BY <2>1 DEF OthersRest, Only
  <2>3. QED
    BY <1>1, <2>2 DEF ServicesNext
<1>2. CASE UNCHANGED servicesVars
  BY <1>2 DEF servicesVars
<1>3. QED
  BY <1>1, <1>2

(* A behaviour of the composition is one of every service: that one of them is
   chosen at the start and the others rest takes nothing from what is checked.
   This is how the composition is written; nothing of the code is in it. *)
LEMMA EachServiceAlone ==
    ServicesSpec => /\ PlayersSpec /\ StorageSpec /\ FriendsSpec /\ RecentSpec
                    /\ AccountsSpec /\ LogsSpec /\ PropertiesSpec /\ QosSpec
                    /\ OSpec /\ Spec
<1>1. ServicesSpec <=> ServicesInit /\ [][ServicesNext]_servicesVars
  BY DEF ServicesSpec, servicesVars
<1>2. QED
  BY <1>1, ServicesStart, ServicesStep, PlainSpec, PTL
     DEF PlayersSpec, StorageSpec, FriendsSpec, RecentSpec, AccountsSpec, LogsSpec,
         PropertiesSpec, QosSpec, OSpec

(* Every service keeps its types. *)
THEOREM ServicesAreTyped == ServicesSpec => []ServicesTypeOK
<1>1. PlayersTypeOK /\ StorageTypeOK /\ FriendsTypeOK /\ RecentTypeOK /\ AccountsTypeOK
      /\ LogsTypeOK /\ PropertiesTypeOK /\ QosTypeOK /\ TypeOK => ServicesTypeOK
  BY DEF ServicesTypeOK
<1>2. QED
  BY <1>1, EachServiceAlone, PlayersAreTyped, StorageIsTyped, FriendsAreTyped,
     RecentIsTyped, AccountsAreTyped, LogsAreTyped, PropertiesAreTyped, QosIsTyped,
     TypeCorrect, PTL

(* Every promise of the services that is checked of their composition holds of
   it, with the requests of each service overlapping and failing as they may. *)
THEOREM ServicesKeepPromises ==
    ServicesSpec => /\ []UncrossedUpdatesKept /\ []SettingsAllOrNothing
                    /\ []FilesWithinLimit /\ []StoredWhole /\ []ServedAsAnnounced
                    /\ []SeesTheRow /\ FriendshipKept
                    /\ []RecentCapped /\ NewestSurvive
                    /\ []TokensFromPasswords /\ []RecoveryComplete /\ ClaimedOnce
                    /\ []RateKept /\ []CapTold /\ []ContextsServe /\ []QosPurged
                    /\ []OwnerIsMember /\ NobodyElseChanged /\ MembershipKept
                    /\ []CapPassedTogether /\ []SeatsTakenTogether /\ OnlyAwayReaped
<1>1. ServicesSpec => /\ []OwnerIsMember /\ NobodyElseChanged /\ MembershipKept
                      /\ []CapPassedTogether /\ []SeatsTakenTogether /\ OnlyAwayReaped
  BY EachServiceAlone, OwnerStays, WritesMerge, MembershipPromised, CapKept, OneSeatEach,
     ReapsOnlyIdle, PTL
<1>2. ServicesSpec => /\ []UncrossedUpdatesKept /\ []SettingsAllOrNothing
                      /\ []FilesWithinLimit /\ []StoredWhole /\ []ServedAsAnnounced
                      /\ []SeesTheRow /\ FriendshipKept
                      /\ []RecentCapped /\ NewestSurvive
  BY EachServiceAlone, OnlyCrossedUpdatesLost, SettingsStayWhole, FilesStayWithinLimit,
     FilesStayWhole, DownloadsMatch, FriendsStayInStep, FriendshipPromised,
     ListsAreCapped, TheNewestSurvive, PTL
<1>3. ServicesSpec => /\ []TokensFromPasswords /\ []RecoveryComplete /\ ClaimedOnce
                      /\ []RateKept /\ []CapTold /\ []ContextsServe /\ []QosPurged
  BY EachServiceAlone, TokensTraceBack, RecoveryRevokes, FirstClaimOwns, RateIsKept,
     CapIsTold, ContextsAreServed, PurgeLeavesNoFile, PTL
<1>4. QED
  BY <1>1, <1>2, <1>3, PTL

=============================================================================
