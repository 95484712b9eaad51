--------------------------- MODULE PresenceProofs ---------------------------
(***************************************************************************)
(* Theorems about Presence, for any consoles, any number of connections of *)
(* each, and any number of faults.                                         *)
(***************************************************************************)
EXTENDS Presence, TLAPS

(* The steps that change no connection and take no open socket out of the
   registry: the timers, the teardowns and the readers. *)
Elsewhere ==
    /\ UNCHANGED <<wire, conn>>
    /\ \A c \in Consoles : OpenOf(c) \subseteq registry'[c]

-----------------------------------------------------------------------------
(* Type correctness. *)

LEMMA PruneType ==
    ASSUME TypeOK, NEW c \in Consoles, Prune(c)
    PROVE  registry' \in [Consoles -> SUBSET Sockets]
BY DEF Prune, OpenOf, TypeOK

LEMMA RegisterType ==
    ASSUME TypeOK, NEW s \in Sockets, NEW here, Register(s, here)
    PROVE  /\ registry' \in [Consoles -> SUBSET Sockets]
           /\ conn' \in [Sockets ->
                            {"none", "resolve", "snapshot", "done", "refused"}]
           /\ alive' \in [Sockets -> BOOLEAN]
           /\ disc' \in [Sockets -> {"none", "snapshot", "done"} \cup Waiting]
<1>1. Owner[s] \in Consoles
  BY PresenceAssumption
<1>2. registry' \in [Consoles -> SUBSET Sockets]
  BY <1>1 DEF Register, Add, TypeOK
<1>3. disc' \in [Sockets -> {"none", "snapshot", "done"} \cup Waiting]
  BY DEF Register, Waiting, TypeOK
<1>4. QED
  BY <1>2, <1>3 DEF Register, TypeOK

LEMMA PeerType ==
    ASSUME TypeOK, NEW s \in Sockets, Peer(s)
    PROVE  TypeOK'
<1>1. CASE Connect(s)
  <2>1. Register(s, TRUE)
    BY <1>1 DEF Connect
  <2>2. QED
    BY <1>1, <2>1, RegisterType DEF Connect, TypeOK
<1>2. CASE ConnectWithToken(s)
  BY <1>2 DEF ConnectWithToken, TypeOK
<1>3. CASE PeerGone(s)
  BY <1>3 DEF PeerGone, TypeOK
<1>4. CASE PeerCloses(s)
  BY <1>4 DEF PeerCloses, TypeOK
<1>5. CASE Pong(s)
  BY <1>5 DEF Pong, TypeOK
<1>6. QED
  BY <1>1, <1>2, <1>3, <1>4, <1>5 DEF Peer

LEMMA GatewayType ==
    ASSUME TypeOK, NEW s \in Sockets, Gateway(s)
    PROVE  TypeOK'
<1>1. Owner[s] \in Consoles
  BY PresenceAssumption
<1>2. CASE Resolve(s)
  <2>1. Register(s, wire[s] = "open")
    BY <1>2 DEF Resolve
  <2>2. QED
    BY <1>2, <2>1, RegisterType DEF Resolve, TypeOK
<1>3. CASE Refuse(s)
  BY <1>3 DEF Refuse, TypeOK
<1>4. CASE Announce(s)
  BY <1>1, <1>4, PruneType DEF Announce, TypeOK
<1>5. CASE Close(s)
  <2>1. registry' \in [Consoles -> SUBSET Sockets]
    BY <1>1, <1>5 DEF Close, TypeOK
  <2>2. disc' \in [Sockets -> {"none", "snapshot", "done"} \cup Waiting]
    BY <1>5 DEF Close, TypeOK
  <2>3. QED
    BY <1>5, <2>1, <2>2 DEF Close, TypeOK
<1>6. CASE Arm(s)
  <2>1. disc' \in [Sockets -> {"none", "snapshot", "done"} \cup Waiting]
    BY <1>6 DEF Arm, Waiting, TypeOK
  <2>2. QED
    BY <1>1, <1>6, <2>1, PruneType DEF Arm, TypeOK
<1>7. CASE Fire(s)
  <2>1. hook' \in [Triggers -> {"idle", "mac"} \cup Parts]
    BY <1>7 DEF Fire, Goto, TypeOK
  <2>2. disc' \in [Sockets -> {"none", "snapshot", "done"} \cup Waiting]
    BY <1>7 DEF Fire, TypeOK
  <2>3. QED
    BY <1>1, <1>7, <2>1, <2>2, PruneType DEF Fire, TypeOK
<1>8. QED
  BY <1>2, <1>3, <1>4, <1>5, <1>6, <1>7 DEF Gateway

LEMMA TeardownType ==
    ASSUME TypeOK, NEW t \in Triggers, Teardown(t) \/ FailHook(t)
    PROVE  TypeOK'
<1>1. Console(t) \in Consoles
  BY PresenceAssumption DEF Console, Triggers
<1>2. CASE FindMac(t)
  BY <1>2 DEF FindMac, Goto, Parts, TypeOK
<1>3. CASE RunHook(t)
  <2>1. hook' \in [Triggers -> {"idle", "mac"} \cup Parts]
    BY <1>3 DEF RunHook, Goto, Parts, TypeOK
  <2>2. left' \in [Consoles -> SUBSET Parts]
    BY <1>1, <1>3 DEF RunHook, TypeOK
  <2>3. QED
    BY <1>3, <2>1, <2>2 DEF RunHook, TypeOK
<1>4. CASE FailHook(t)
  <2>1. SkippedParts(hook[t]) \in SUBSET Parts
    BY DEF SkippedParts, Parts
  <2>2. skipped' \in [Consoles -> SUBSET Parts]
    BY <1>1, <1>4, <2>1 DEF FailHook, TypeOK
  <2>3. hook' \in [Triggers -> {"idle", "mac"} \cup Parts]
    BY <1>4 DEF FailHook, Goto, Parts, TypeOK
  <2>4. faults' \in 0..MaxFaults
    BY <1>4, PresenceAssumption DEF FailHook, TypeOK
  <2>5. QED
    BY <1>4, <2>2, <2>3, <2>4 DEF FailHook, TypeOK
<1>5. QED
  BY <1>2, <1>3, <1>4 DEF Teardown

LEMMA CrashType ==
    ASSUME TypeOK, Crash
    PROVE  TypeOK'
<1>1. faults' \in 0..MaxFaults
  BY PresenceAssumption DEF Crash, TypeOK
<1>2. disc' \in [Sockets -> {"none", "snapshot", "done"} \cup Waiting]
  BY DEF Crash
<1>3. /\ registry' \in [Consoles -> SUBSET Sockets]
      /\ skipped' \in [Consoles -> SUBSET Parts]
      /\ hook' \in [Triggers -> {"idle", "mac"} \cup Parts]
  BY DEF Crash
<1>4. QED
  BY <1>1, <1>2, <1>3 DEF Crash, TypeOK

LEMMA NextType ==
    ASSUME TypeOK, [Next]_vars
    PROVE  TypeOK'
<1>1. ASSUME NEW s \in Sockets, Peer(s) \/ Gateway(s)
      PROVE  TypeOK'
  BY <1>1, PeerType, GatewayType
<1>2. CASE Heartbeat
  <2>1. alive' \in [Sockets -> BOOLEAN]
    BY <1>2, Zenon DEF Heartbeat, TypeOK
  <2>2. QED
    BY <1>2, <2>1 DEF Heartbeat, TypeOK
<1>3. ASSUME NEW t \in Triggers, Teardown(t) \/ FailHook(t)
      PROVE  TypeOK'
  BY <1>3, TeardownType
<1>4. ASSUME NEW c \in Consoles, ReadPresence(c)
      PROVE  TypeOK'
  BY <1>4, PruneType DEF ReadPresence, TypeOK
<1>5. ASSUME NEW c \in Consoles, NEW step \in {"mac", "sessions"},
             Goodbye(c, step)
      PROVE  TypeOK'
  BY <1>5 DEF Goodbye, Goto, Triggers, Parts, TypeOK
<1>6. ASSUME NEW c \in Consoles, NEW parts \in Played, Play(c, parts)
      PROVE  TypeOK'
  <2>1. parts \in SUBSET Parts
    BY PresenceAssumption
  <2>2. left' \in [Consoles -> SUBSET Parts]
    BY <1>6, <2>1 DEF Play, TypeOK
  <2>3. QED
    BY <1>6, <2>2 DEF Play, TypeOK
<1>7. CASE Crash
  BY <1>7, CrashType
<1>8. CASE UNCHANGED vars
  BY <1>8 DEF vars, TypeOK
<1>9. QED
  BY <1>1, <1>2, <1>3, <1>4, <1>5, <1>6, <1>7, <1>8 DEF Next

LEMMA InitType == Init => TypeOK
<1> SUFFICES ASSUME Init PROVE TypeOK
  OBVIOUS
<1>1. faults \in 0..MaxFaults
  BY PresenceAssumption DEF Init
<1>2. QED
  BY <1>1 DEF Init, TypeOK

(* The registry, the connections, the timers and the teardowns keep their
   types. *)
THEOREM TypeCorrect == Spec => []TypeOK
<1>1. Init => TypeOK
  BY InitType
<1>2. TypeOK /\ [Next]_vars => TypeOK'
  BY NextType
<1>3. QED
  BY <1>1, <1>2, PTL DEF Spec

-----------------------------------------------------------------------------
(* The registry is complete. *)

LEMMA PruneKeepsOpen ==
    ASSUME TypeOK, NEW c \in Consoles, Prune(c), UNCHANGED <<wire, conn>>
    PROVE  Elsewhere
BY DEF Prune, OpenOf, Open, TypeOK, Elsewhere

LEMMA ElsewhereKeeps ==
    ASSUME TypeOK, OpenIsRegistered, Elsewhere
    PROVE  OpenIsRegistered'
<1> SUFFICES ASSUME NEW s \in Sockets, (Open(s) /\ Identified(s))'
             PROVE  s \in registry'[Owner[s]]
  BY DEF OpenIsRegistered
<1>1. Open(s) /\ Identified(s)
  BY DEF Elsewhere, Open, Identified
<1>2. s \in OpenOf(Owner[s])
  BY <1>1 DEF OpenIsRegistered, OpenOf
<1>3. QED
  BY <1>2, PresenceAssumption DEF Elsewhere

(* A new socket is added, and no other is taken out. *)
LEMMA RegisterKeeps ==
    ASSUME TypeOK, OpenIsRegistered, NEW s \in Sockets, NEW here,
           Register(s, here), wire' = wire \/ wire' = [wire EXCEPT ![s] = "open"]
    PROVE  OpenIsRegistered'
<1> SUFFICES ASSUME NEW t \in Sockets, (Open(t) /\ Identified(t))'
             PROVE  t \in registry'[Owner[t]]
  BY DEF OpenIsRegistered
<1>1. Owner[s] \in Consoles /\ Owner[t] \in Consoles
  BY PresenceAssumption
<1>2. registry[Owner[t]] \subseteq registry'[Owner[t]]
  BY <1>1 DEF Register, Add, TypeOK
<1>3. CASE t = s
  BY <1>1, <1>3 DEF Register, Add, TypeOK
<1>4. CASE t # s
  <2>1. Open(t) /\ Identified(t)
    BY <1>4 DEF Register, Open, Identified, TypeOK
  <2>2. QED
    BY <1>2, <2>1 DEF OpenIsRegistered
<1>5. QED
  BY <1>3, <1>4

LEMMA PeerKeeps ==
    ASSUME TypeOK, OpenIsRegistered, NEW s \in Sockets, Peer(s)
    PROVE  OpenIsRegistered'
<1>1. CASE Connect(s)
  <2>1. Register(s, TRUE) /\ wire' = [wire EXCEPT ![s] = "open"]
    BY <1>1 DEF Connect
  <2>2. QED
    BY <2>1, RegisterKeeps
<1>2. CASE ConnectWithToken(s)
  BY <1>2 DEF ConnectWithToken, OpenIsRegistered, Open, Identified, TypeOK
<1>3. CASE PeerGone(s) \/ PeerCloses(s)
  BY <1>3 DEF PeerGone, PeerCloses, OpenIsRegistered, Open, Identified, TypeOK
<1>4. CASE Pong(s)
  BY <1>4 DEF Pong, OpenIsRegistered, Open, Identified
<1>5. QED
  BY <1>1, <1>2, <1>3, <1>4 DEF Peer

LEMMA GatewayKeeps ==
    ASSUME TypeOK, OpenIsRegistered, NEW s \in Sockets, Gateway(s)
    PROVE  OpenIsRegistered'
<1>1. Owner[s] \in Consoles
  BY PresenceAssumption
<1>2. CASE Resolve(s)
  <2>1. Register(s, wire[s] = "open") /\ wire' = wire
    BY <1>2 DEF Resolve
  <2>2. QED
    BY <2>1, RegisterKeeps
<1>3. CASE Refuse(s)
  BY <1>3 DEF Refuse, OpenIsRegistered, Open, Identified, TypeOK
\* An announced socket was identified before, and pruning keeps it if open.
<1>4. CASE Announce(s)
  <2> SUFFICES ASSUME NEW t \in Sockets, (Open(t) /\ Identified(t))'
               PROVE  t \in registry'[Owner[t]]
    BY DEF OpenIsRegistered
  <2>1. Open(t) /\ Identified(t)
    BY <1>4 DEF Announce, Open, Identified, TypeOK
  <2>2. t \in OpenOf(Owner[t])
    BY <2>1 DEF OpenIsRegistered, OpenOf
  <2>3. Owner[t] \in Consoles
    BY PresenceAssumption
  <2>4. QED
    BY <1>4, <2>2, <2>3 DEF Announce, Prune, OpenOf, TypeOK
\* Only the socket that is now closed is taken out.
<1>5. CASE Close(s)
  <2> SUFFICES ASSUME NEW t \in Sockets, (Open(t) /\ Identified(t))'
               PROVE  t \in registry'[Owner[t]]
    BY DEF OpenIsRegistered
  <2>1. t # s /\ Open(t) /\ Identified(t)
    BY <1>5 DEF Close, Open, Identified, TypeOK
  <2>2. t \in registry[Owner[t]]
    BY <2>1 DEF OpenIsRegistered
  <2>3. Owner[t] \in Consoles
    BY PresenceAssumption
  <2>4. QED
    BY <1>1, <1>5, <2>1, <2>2, <2>3 DEF Close, TypeOK
<1>6. CASE Arm(s) \/ Fire(s)
  <2>1. Prune(Owner[s]) /\ UNCHANGED <<wire, conn>>
    BY <1>6 DEF Arm, Fire
  <2>2. QED
    BY <1>1, <2>1, PruneKeepsOpen, ElsewhereKeeps
<1>7. QED
  BY <1>2, <1>3, <1>4, <1>5, <1>6 DEF Gateway

LEMMA NextKeeps ==
    ASSUME TypeOK, OpenIsRegistered, [Next]_vars
    PROVE  OpenIsRegistered'
<1>1. ASSUME NEW s \in Sockets, Peer(s) \/ Gateway(s)
      PROVE  OpenIsRegistered'
  BY <1>1, PeerKeeps, GatewayKeeps
<1>2. CASE Heartbeat
  BY <1>2 DEF Heartbeat, OpenIsRegistered, Open, Identified, Clients
<1>3. ASSUME NEW c \in Consoles, ReadPresence(c)
      PROVE  OpenIsRegistered'
  BY <1>3, PruneKeepsOpen, ElsewhereKeeps DEF ReadPresence
\* Teardowns, goodbyes and play concern neither sockets nor registry.
<1>4. CASE UNCHANGED <<wire, conn, registry>>
  BY <1>4 DEF OpenIsRegistered, Open, Identified
<1>5. CASE Crash
  BY <1>5 DEF Crash, OpenIsRegistered, Open
<1>6. QED
  BY <1>1, <1>2, <1>3, <1>4, <1>5
     DEF Next, vars, Teardown, FindMac, RunHook, FailHook, Goodbye, Play

(* However often a console reconnects, and whatever closes late, vanishes, is
   pruned or is refused meanwhile, its open sockets are in the registry. *)
THEOREM RegistryComplete == Spec => []OpenIsRegistered
<1>1. Init => OpenIsRegistered
  BY DEF Init, OpenIsRegistered, Open
<1>2. TypeOK /\ OpenIsRegistered /\ [Next]_vars => OpenIsRegistered'
  BY NextKeeps
<1>3. QED
  BY <1>1, <1>2, TypeCorrect, PTL DEF Spec
=============================================================================
