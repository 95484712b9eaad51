-------------------------- MODULE SessionPromises ---------------------------
(***************************************************************************)
(* Sessions with a record of what clients have been told, and of which     *)
(* requests were in flight together.  It adds history variables and no     *)
(* behaviour: every step is a step of Sessions.                            *)
(***************************************************************************)
EXTENDS Sessions

VARIABLES
    seated,    \* <<id, xuid>>: the join was answered and nothing undid it since
    exposed,   \* the seats answered while another copy of the session was held
    handoffs,  \* <<old, new>>: the migration of old was answered with new
    rivalled,  \* the hand-offs answered while another such copy had a pointer
    overtaken  \* the handlers whose copy another one's save has made stale

promises == <<seated, exposed, handoffs, rivalled, overtaken>>

Of(id, pairs) == {p \in pairs : p[1] = id}

-----------------------------------------------------------------------------
(* The copies in flight.                                                   *)

\* A request holds a copy of the session it read until it saves that copy.
Holds(r) == r.pc \in {"save", "saveNew", "saveOld"}

Copy(r) == IF r.pc = "save" THEN r.doc ELSE r.oldDoc

\* The players that the save of the copy lets go.
Leaving(r) ==
    IF r.pc = "save" THEN (IF r.op = "leave" THEN r.who ELSE {}) ELSE {r.oldDoc.host}

Joining(r) == IF r.pc = "save" /\ r.op = "join" THEN r.who ELSE {}

\* The other requests that hold a copy of the session `h` is about to save.
Others(h) ==
    {g \in Handlers \ {h} : Holds(handling[g]) /\ handling[g].id = handling[h].id}

\* The seats of the old session, its host's apart, that a migration takes along.
Along(r, pairs) == {<<r.new, p[2]>> : p \in {q \in Of(r.id, pairs) : q[2] # r.oldDoc.host}}

-----------------------------------------------------------------------------
PInit ==
    /\ Init
    /\ seated = {} /\ exposed = {} /\ handoffs = {} /\ rivalled = {} /\ overtaken = {}

\* A new session under an old id has no players; it keeps its pointer.
PCreate(id, mac, host, flags) ==
    /\ Create(id, mac, host, flags)
    /\ seated' = seated \ Of(id, seated)
    /\ exposed' = exposed \ Of(id, exposed)
    /\ UNCHANGED <<handoffs, rivalled, overtaken>>

\* A copy is saved over its session and the request is answered.
Stored(h) ==
    LET r == handling[h]
        joins == {r.id} \X Joining(r)
        kept(pairs) == pairs \ ({r.id} \X Leaving(r))
    IN  /\ seated' = kept(seated) \cup joins
        /\ exposed' = IF Others(h) = {} THEN kept(exposed) \ joins
                      ELSE kept(exposed) \cup joins
        /\ overtaken' = (overtaken \ {h}) \cup Others(h)

PSave(h) == Save(h) /\ Stored(h) /\ UNCHANGED <<handoffs, rivalled>>

PSaveNew(h) ==
    /\ SaveNew(h)
    /\ seated' = seated \cup Along(handling[h], seated)
    /\ exposed' = exposed \cup Along(handling[h], exposed)
    /\ UNCHANGED <<handoffs, rivalled, overtaken>>

PSaveOld(h) ==
    /\ SaveOld(h)
    /\ Stored(h)
    /\ LET answer == <<handling[h].id, handling[h].new>>
           rivals == {g \in Others(h) : Copy(handling[g]).migration # 0}
       IN  /\ handoffs' = handoffs \cup {answer}
           /\ rivalled' = IF rivals = {} THEN rivalled ELSE rivalled \cup {answer}

\* What was promised about a document goes with it.
PRemoval ==
    \E id \in Ids :
        /\ Expire(id) \/ \E h \in Handlers : HardDelete(h, id)
        /\ seated' = seated \ Of(id, seated)
        /\ exposed' = exposed \ Of(id, exposed)
        /\ handoffs' = handoffs \ Of(id, handoffs)
        /\ rivalled' = rivalled \ Of(id, rivalled)
        /\ UNCHANGED overtaken

\* A request that fails saves its copy no more.
PFail(h) ==
    /\ Fail(h)
    /\ overtaken' = overtaken \ {h}
    /\ UNCHANGED <<seated, exposed, handoffs, rivalled>>

PCrash ==
    /\ Crash
    /\ overtaken' = {}
    /\ UNCHANGED <<seated, exposed, handoffs, rivalled>>

POther ==
    /\ \/ \E h \in Handlers : Finder(h) \/ SoftDelete(h)
       \/ \E r \in Readers : Reader(r)
    /\ UNCHANGED promises

PNext ==
    \/ \E id \in ClientIds, mac \in Macs, host \in Hosts, flags \in Flags :
          PCreate(id, mac, host, flags)
    \/ \E h \in Handlers : PSave(h) \/ PSaveNew(h) \/ PSaveOld(h) \/ PFail(h)
    \/ PRemoval
    \/ PCrash
    \/ POther

PSpec == PInit /\ [][PNext]_<<vars, promises>>

-----------------------------------------------------------------------------
(* What overlapping requests can do to each other, and what they cannot: no *)
(* save checks that the document is still the one that was read.            *)

\* A join that was answered is in the stored player list until that player
\* leaves, hosts a session that migrates away, or the document goes; and it
\* follows the session to its new host.  Two requests at a time break it.
AnsweredJoinKept ==
    \A p \in seated : Found(p[1]) => p[2] \in sessions[p[1]].members

\* ...but only of a player that joined while another request held a copy of
\* the session.  Whoever else joined stays, however many stale copies are saved
\* and whatever fails, and moves along with every migration.
OnlyExposedJoinsLost ==
    \A p \in seated \ exposed : Found(p[1]) => p[2] \in sessions[p[1]].members

\* A caller that holds an id whose migration was answered is steered to the
\* session that answer named, unless another migration of that session, or a
\* copy that knew of one, was then on its way: a copy that knows of none
\* leaves the pointer where it is, however old it is.
OnlyRivalledHandOffsLost ==
    \A p \in handoffs \ rivalled : Found(p[1]) => sessions[p[1]].migration = p[2]

TakenBack(stored, doc) ==
    \/ stored.deleted /\ ~doc.deleted
    \/ ~(stored.context \subseteq doc.context)
    \/ ~(stored.properties \subseteq doc.properties)
    \/ stored.migration \notin {0, doc.migration}

\* A step takes back what an earlier save stored (a soft-deleted session
\* reappears, a context or property key goes, a pointer moves) only when it
\* saves a copy that another save has overtaken.  No save that is merely late
\* does: not over a session created anew meanwhile, nor after it expired.  Only
\* a new CreateSession or a removal starts over.
OnlyOvertakenTakeBack ==
    [][\A i \in Ids :
          (Found(i) /\ sessions'[i] # NoDoc /\ TakenBack(sessions[i], sessions'[i])) =>
              \/ \E mac \in Macs, host \in Hosts, flags \in Flags :
                    Create(i, mac, host, flags)
              \/ \E h \in overtaken : handling[h].id = i /\ (Save(h) \/ SaveOld(h))
      ]_<<vars, promises>>
=============================================================================
