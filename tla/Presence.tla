------------------------------ MODULE Presence ------------------------------
(***************************************************************************)
(* Live events and the exit teardown: which consoles the server takes to   *)
(* be online, and what it clears when one goes away.                       *)
(*                                                                         *)
(* EventsService keeps, in memory, the sockets of every console.  The      *)
(* gateway adds a socket once it knows whose it is, which takes a database *)
(* call when the client sends a token, and removes it when its close event *)
(* comes.  The last one to go starts a grace timer; when that fires and    *)
(* the console is offline, its sessions, presence and party are torn down, *)
(* as they are by POST /goodbye.  Every read of presence also removes the  *)
(* sockets that are no longer open.                                        *)
(*                                                                         *)
(* A socket of the model is used for one connection.  Left out: snapshots  *)
(* and deltas, and the reading and saving inside each hook of a teardown.  *)
(***************************************************************************)
EXTENDS Naturals

CONSTANTS
    Consoles,     \* xuids
    Sockets,      \* the connections that may be made
    Owner,        \* socket -> the console that opens it
    Played,       \* what the requests of a console may leave at a time
    MaxFaults     \* bound: how many hooks fail and how often the server stops

\* What a console leaves on the server.
Parts == {"sessions", "presence", "party"}

ASSUME PresenceAssumption ==
    /\ Owner \in [Sockets -> Consoles]
    /\ Played \subseteq SUBSET Parts
    /\ Sockets \cap Consoles = {}
    /\ MaxFaults \in Nat

\* A teardown is started by the timer of a socket, or by a console's goodbye.
Triggers == Sockets \cup Consoles

VARIABLES
    wire,     \* socket -> its connection; "dead" is half-open: the peer is gone
    alive,    \* socket -> no ping is unanswered
    conn,     \* socket -> how far handleConnection is
    disc,     \* socket -> how far handleDisconnect and its timer are
    registry, \* console -> its sockets
    hook,     \* trigger -> the hook its teardown is about to run
    left,     \* console -> what it has on the server
    faults,   \* failed hooks and restarts so far
    skipped   \* history: console -> what a fault kept from being cleared

vars == <<wire, alive, conn, disc, registry, hook, left, faults, skipped>>

\* A timer is "crossed" when the console came back after it was armed; the code
\* does not tell it from one that is "armed".
Waiting == {"armed", "crossed"}

TypeOK ==
    /\ wire \in [Sockets -> {"none", "open", "dead", "closing", "closed"}]
    /\ alive \in [Sockets -> BOOLEAN]
    /\ conn \in [Sockets -> {"none", "resolve", "snapshot", "done", "refused"}]
    /\ disc \in [Sockets -> {"none", "snapshot", "done"} \cup Waiting]
    /\ registry \in [Consoles -> SUBSET Sockets]
    /\ hook \in [Triggers -> {"idle", "mac"} \cup Parts]
    /\ left \in [Consoles -> SUBSET Parts]
    /\ faults \in 0..MaxFaults
    /\ skipped \in [Consoles -> SUBSET Parts]

-----------------------------------------------------------------------------
\* readyState is OPEN until the server notices: also when the peer is gone.
Open(s) == wire[s] \in {"open", "dead"}

\* server.clients: from the handshake to the close event.
Clients == {s \in Sockets : wire[s] \in {"open", "dead", "closing"}}

\* The gateway has told the socket whose it is.
Identified(s) == conn[s] \in {"snapshot", "done"}

OpenOf(c) == {s \in registry[c] : Open(s)}

Online(c) == OpenOf(c) # {}

Console(t) == IF t \in Sockets THEN Owner[t] ELSE t

\* isOnline: it answers Online(c), and prunes.
Prune(c) == registry' = [registry EXCEPT ![c] = OpenOf(c)]

\* Slip: the newest socket of a console replaces the others.
AddAlone(s) == [registry EXCEPT ![Owner[s]] = {s}]

Add(s) == [registry EXCEPT ![Owner[s]] = @ \cup {s}]

Goto(t, step) == hook' = [hook EXCEPT ![t] = step]

-----------------------------------------------------------------------------
Init ==
    /\ wire = [s \in Sockets |-> "none"]
    /\ alive = [s \in Sockets |-> TRUE]
    /\ conn = [s \in Sockets |-> "none"]
    /\ disc = [s \in Sockets |-> "none"]
    /\ registry = [c \in Consoles |-> {}]
    /\ hook = [t \in Triggers |-> "idle"]
    /\ left = [c \in Consoles |-> {}]
    /\ faults = 0
    /\ skipped = [c \in Consoles |-> {}]

(* handleConnection.  Without a token the socket is registered at once ... *)
Register(s, here) ==
    /\ registry' = Add(s)
    /\ conn' = [conn EXCEPT ![s] = "snapshot"]
    /\ alive' = [alive EXCEPT ![s] = TRUE]
    /\ disc' = [t \in Sockets |->
          IF disc[t] = "armed" /\ Owner[t] = Owner[s] /\ here
          THEN "crossed" ELSE disc[t]]

Connect(s) ==
    /\ wire[s] = "none"
    /\ wire' = [wire EXCEPT ![s] = "open"]
    /\ Register(s, TRUE)
    /\ UNCHANGED <<hook, left, faults, skipped>>

\* ... and with one, when the token was found: nothing checks that the socket
\* is still open by then.
ConnectWithToken(s) ==
    /\ wire[s] = "none"
    /\ wire' = [wire EXCEPT ![s] = "open"]
    /\ conn' = [conn EXCEPT ![s] = "resolve"]
    /\ UNCHANGED <<alive, disc, registry, hook, left, faults, skipped>>

Resolve(s) ==
    /\ conn[s] = "resolve"
    /\ Register(s, wire[s] = "open")
    /\ UNCHANGED <<wire, hook, left, faults, skipped>>

Refuse(s) ==
    /\ conn[s] = "resolve"
    /\ conn' = [conn EXCEPT ![s] = "refused"]
    /\ wire' = [wire EXCEPT ![s] = IF Open(s) THEN "closing" ELSE @]
    /\ UNCHANGED <<alive, disc, registry, hook, left, faults, skipped>>

\* The snapshot is sent, and presenceFor reads whether the console is online.
Announce(s) ==
    /\ conn[s] = "snapshot"
    /\ conn' = [conn EXCEPT ![s] = "done"]
    /\ Prune(Owner[s])
    /\ UNCHANGED <<wire, alive, disc, hook, left, faults, skipped>>

(* The connection: the peer vanishes, closes, or answers a ping. *)
PeerGone(s) ==
    /\ wire[s] = "open"
    /\ wire' = [wire EXCEPT ![s] = "dead"]
    /\ UNCHANGED <<alive, conn, disc, registry, hook, left, faults, skipped>>

PeerCloses(s) ==
    /\ wire[s] = "open"
    /\ wire' = [wire EXCEPT ![s] = "closing"]
    /\ UNCHANGED <<alive, conn, disc, registry, hook, left, faults, skipped>>

Pong(s) ==
    /\ wire[s] = "open"
    /\ Identified(s)
    /\ ~alive[s]
    /\ alive' = [alive EXCEPT ![s] = TRUE]
    /\ UNCHANGED <<wire, conn, disc, registry, hook, left, faults, skipped>>

\* Slip: the flag is not cleared when the ping is sent.
HeartbeatTrusts ==
    /\ wire' = [s \in Sockets |->
          IF s \in Clients /\ ~alive[s] THEN "closing" ELSE wire[s]]
    /\ UNCHANGED <<alive, conn, disc, registry, hook, left, faults, skipped>>

(* Every 15 seconds: terminate who did not answer, and ping the others. *)
Heartbeat ==
    /\ wire' = [s \in Sockets |->
          IF s \in Clients /\ ~alive[s] THEN "closing" ELSE wire[s]]
    /\ alive' = [s \in Sockets |-> s \notin Clients /\ alive[s]]
    /\ UNCHANGED <<conn, disc, registry, hook, left, faults, skipped>>

(* The close event: handleDisconnect up to its first await.  unregister tells
   whether it removed the console's last socket. *)
Close(s) ==
    /\ wire[s] = "closing"
    /\ wire' = [wire EXCEPT ![s] = "closed"]
    /\ alive' = [alive EXCEPT ![s] = TRUE] \* nobody reads it any more
    /\ LET rest == registry[Owner[s]] \ {s}
       IN  IF Identified(s)
           THEN /\ registry' = [registry EXCEPT ![Owner[s]] = rest]
                /\ disc' = [disc EXCEPT ![s] =
                      IF registry[Owner[s]] # {} /\ rest = {}
                      THEN "snapshot" ELSE "done"]
           ELSE /\ disc' = [disc EXCEPT ![s] = "done"]
                /\ UNCHANGED registry
    /\ UNCHANGED <<conn, hook, left, faults, skipped>>

\* Its friends and party are told, and then the timer is set.
Arm(s) ==
    /\ disc[s] = "snapshot"
    /\ disc' = [disc EXCEPT ![s] = "armed"]
    /\ Prune(Owner[s])
    /\ UNCHANGED <<wire, alive, conn, hook, left, faults, skipped>>

Fire(s) ==
    /\ disc[s] \in Waiting
    /\ disc' = [disc EXCEPT ![s] = "done"]
    /\ Prune(Owner[s])
    /\ Goto(s, IF Online(Owner[s]) THEN "idle" ELSE "mac")
    /\ UNCHANGED <<wire, alive, conn, left, faults, skipped>>

(* GET /friends, GET /recent and the snapshots of friends ask isOnline. *)
ReadPresence(c) ==
    /\ Prune(c)
    /\ UNCHANGED <<wire, alive, conn, disc, hook, left, faults, skipped>>

(* POST /goodbye, with or without a usable console address. *)
Goodbye(c, step) ==
    /\ hook[c] = "idle"
    /\ Goto(c, step)
    /\ UNCHANGED <<wire, alive, conn, disc, registry, left, faults, skipped>>

(* teardown: look the console address up, then one hook after the other. *)
FindMac(t) ==
    /\ hook[t] = "mac"
    /\ Goto(t, "sessions")
    /\ UNCHANGED <<wire, alive, conn, disc, registry, left, faults, skipped>>

RunHook(t) ==
    /\ hook[t] \in Parts
    /\ left' = [left EXCEPT ![Console(t)] = @ \ {hook[t]}]
    /\ Goto(t, CASE hook[t] = "sessions" -> "presence"
                 [] hook[t] = "presence" -> "party"
                 [] hook[t] = "party"    -> "idle")
    /\ UNCHANGED <<wire, alive, conn, disc, registry, faults, skipped>>

\* Slip: what is skipped is the step and not the parts it stands for.
SkippedStep(step) == {step}

\* The presence record is reset by the hook that deletes the sessions.
SkippedParts(step) ==
    IF step = "party" THEN {"party"}
    ELSE IF step = "presence" THEN {"presence"}
    ELSE {"sessions", "presence"}

\* Slip: the first hook that fails ends the teardown.
FailedHookEnds(t) ==
    /\ hook[t] # "idle"
    /\ faults < MaxFaults
    /\ faults' = faults + 1
    /\ skipped' = [skipped EXCEPT ![Console(t)] = @ \cup SkippedParts(hook[t])]
    /\ Goto(t, "idle")
    /\ UNCHANGED <<wire, alive, conn, disc, registry, left>>

\* A database call of a hook rejects, or the console's record is gone: the
\* next hook runs all the same.
FailHook(t) ==
    /\ hook[t] # "idle"
    /\ faults < MaxFaults
    /\ faults' = faults + 1
    /\ skipped' = [skipped EXCEPT ![Console(t)] = @ \cup SkippedParts(hook[t])]
    /\ Goto(t, IF hook[t] = "party" THEN "idle" ELSE "party")
    /\ UNCHANGED <<wire, alive, conn, disc, registry, left>>

(* HTTP requests give a console sessions, a presence and a party. *)
Play(c, parts) ==
    /\ left' = [left EXCEPT ![c] = @ \cup parts]
    /\ UNCHANGED <<wire, alive, conn, disc, registry, hook, faults, skipped>>

(* The server stops: sockets, registry, timers and teardowns are gone.  So it
   does when a database call of the gateway rejects: nothing catches that. *)
Crash ==
    /\ faults < MaxFaults
    /\ faults' = faults + 1
    /\ wire' = [s \in Sockets |-> IF wire[s] = "none" THEN "none" ELSE "closed"]
    /\ conn' = [s \in Sockets |-> IF wire[s] = "none" THEN "none" ELSE "done"]
    /\ disc' = [s \in Sockets |-> IF wire[s] = "none" THEN "none" ELSE "done"]
    /\ registry' = [c \in Consoles |-> {}]
    /\ alive' = [s \in Sockets |-> TRUE]
    /\ hook' = [t \in Triggers |-> "idle"]
    /\ skipped' = [c \in Consoles |-> Parts]
    /\ UNCHANGED left

Gateway(s) ==
    \/ Resolve(s) \/ Refuse(s) \/ Announce(s)
    \/ Close(s) \/ Arm(s) \/ Fire(s)

Peer(s) ==
    \/ Connect(s) \/ ConnectWithToken(s)
    \/ PeerGone(s) \/ PeerCloses(s) \/ Pong(s)

Teardown(t) == FindMac(t) \/ RunHook(t)

Next ==
    \/ \E s \in Sockets : Peer(s) \/ Gateway(s)
    \/ Heartbeat
    \/ \E t \in Triggers : Teardown(t) \/ FailHook(t)
    \/ \E c \in Consoles :
          \/ ReadPresence(c)
          \/ \E step \in {"mac", "sessions"} : Goodbye(c, step)
          \/ \E parts \in Played : Play(c, parts)
    \/ Crash

Spec == Init /\ [][Next]_vars

(* Node runs every continuation, timer and interval, and the driver and the
   sockets answer or fail.  Nothing is assumed of the consoles. *)
FairSpec ==
    /\ Spec
    /\ WF_vars(Heartbeat)
    /\ \A s \in Sockets :
          /\ WF_vars(Resolve(s) \/ Refuse(s))
          /\ WF_vars(Announce(s))
          /\ WF_vars(Close(s))
          /\ WF_vars(Arm(s) \/ Fire(s))
    /\ \A t \in Triggers : WF_vars(Teardown(t))

-----------------------------------------------------------------------------
\* No console with an open, identified socket is missing from the registry: a
\* reconnect survives the late close of the old socket and every pruning read,
\* so the events pushed to its xuid reach it.
OpenIsRegistered ==
    \A s \in Sockets : Open(s) /\ Identified(s) => s \in registry[Owner[s]]

\* A registered socket whose peer vanished without a word is dropped: the
\* heartbeat notices, so presence is not stale for ever.
DeadIsDropped ==
    \A s \in Sockets :
        wire[s] = "dead" /\ s \in registry[Owner[s]] ~> s \notin registry[Owner[s]]

\* Once the grace timer is set, the console comes back or each thing it left is
\* cleared, unless that thing's own hook failed or the server stopped.
DepartureTornDown ==
    \A s \in Sockets, part \in Parts :
        disc[s] \in Waiting /\ part \in left[Owner[s]] ~>
            \/ Online(Owner[s])
            \/ part \notin left[Owner[s]]
            \/ part \in skipped[Owner[s]]

\* A console is torn down by a timer only if it stayed offline since that timer
\* was set.  The code does not cancel the timer, so two disconnects in a row
\* break this.
GraceKept ==
    [][\A s \in Sockets : Fire(s) /\ hook'[s] # "idle" => disc[s] = "armed"]_vars
=============================================================================
