--------------------------------- MODULE Qos ---------------------------------
(***************************************************************************)
(* The QoS files of sessions: written by hosts and deleted with their      *)
(* sessions.                                                               *)
(*                                                                         *)
(* An upload goes to the path that its URL spells.  A deletion knows the   *)
(* session by its document: the title as TitleId.toString writes it, upper *)
(* case with no leading zeros, and the id that SessionId made lower case.  *)
(* Files of other spellings are other files.                               *)
(*                                                                         *)
(* deleteSessions walks the sessions that were found, deletes a document,  *)
(* looks whether there is a file and unlinks it, one await at a time; a    *)
(* soft delete saves its document and does the same.  A rejected unlink    *)
(* ends either.  Both, and two walks (xnet's DeleteSessions and the exit   *)
(* teardown), may overlap.  Of a session only its document's existence is  *)
(* kept, and of a file that it was created: an upload is its open().       *)
(***************************************************************************)
EXTENDS Naturals, Sequences, FiniteSets, SequencesExt

CONSTANTS
    QosSessions,   \* session ids of one console, with their title
    Spellings,     \* the ways a client may write one of them
    Normal,        \* the way the server does
    Purgers        \* walks and soft deletes that may be in progress together

ASSUME QosAssumption == Normal \in Spellings

VARIABLES
    listed,     \* the sessions that have a document
    qosFiles,   \* the <<session, spelling>> that have a file
    purging,    \* how far each deletion is
    purged,     \* history: files of sessions deleted with no upload since
    leaked      \* history: sessions whose unlink was not done

qosVars == <<listed, qosFiles, purging, purged, leaked>>

QosPaths == QosSessions \X Spellings

Finished == [pc |-> "idle"]

\* The walk goes on with the sessions after the one it is done with.
Onward(rest) ==
    IF rest = <<>> THEN Finished ELSE [pc |-> "delete", rest |-> rest]

QosInit ==
    /\ listed = {}
    /\ qosFiles = {}
    /\ purging = [p \in Purgers |-> Finished]
    /\ purged = {}
    /\ leaked = {}

ListSession(s) ==
    /\ s \notin listed
    /\ listed' = listed \cup {s}
    /\ UNCHANGED <<qosFiles, purging, purged, leaked>>

(* The TTL index removes documents, and no file. *)
ExpireListed(s) ==
    /\ s \in listed
    /\ listed' = listed \ {s}
    /\ UNCHANGED <<qosFiles, purging, purged, leaked>>

(* POST /sessions/:id/qos: there need not be such a session. *)
QosUpload(s, spelling) ==
    /\ qosFiles' = qosFiles \cup {<<s, spelling>>}
    /\ purged' = purged \ {<<s, spelling>>}
    /\ leaked' = IF spelling = Normal THEN leaked \ {s} ELSE leaked
    /\ UNCHANGED <<listed, purging>>

(* findSessionsByIPAndMac, in the order the database has them. *)
FindListed(p) ==
    /\ purging[p] = Finished
    /\ listed # {}
    /\ \E order \in SetToSeqs(listed) :
          purging' = [purging EXCEPT ![p] = Onward(order)]
    /\ UNCHANGED <<listed, qosFiles, purged, leaked>>

\* Slip: no file is looked for when the document was gone already.
FileThereIfListed(s, rest) ==
    IF <<s, Normal>> \in qosFiles /\ s \in listed
    THEN [pc |-> "unlink", s |-> s, rest |-> rest]
    ELSE Onward(rest)

\* What is to be unlinked next: existsSync, at that time.
FileThere(s, rest) ==
    IF <<s, Normal>> \in qosFiles THEN [pc |-> "unlink", s |-> s, rest |-> rest]
    ELSE Onward(rest)

(* findOneAndDelete, then existsSync. *)
DeleteListed(p) ==
    /\ purging[p].pc = "delete"
    /\ LET s == Head(purging[p].rest)
           rest == Tail(purging[p].rest) IN
       /\ listed' = listed \ {s}
       /\ purging' = [purging EXCEPT ![p] = FileThere(s, rest)]
       /\ purged' = purged \cup ({s} \X Spellings)
    /\ UNCHANGED <<qosFiles, leaked>>

(* DELETE /sessions/:id: the handler finds the document ... *)
FindDeparted(p, s) ==
    /\ purging[p] = Finished
    /\ s \in listed
    /\ purging' = [purging EXCEPT ![p] = [pc |-> "save", s |-> s]]
    /\ UNCHANGED <<listed, qosFiles, purged, leaked>>

(* ... and saves it as deleted, where it was or anew, then existsSync. *)
SaveDeparted(p) ==
    /\ purging[p].pc = "save"
    /\ LET s == purging[p].s IN
       /\ listed' = listed \cup {s}
       /\ purging' = [purging EXCEPT ![p] = FileThere(s, <<>>)]
       /\ purged' = purged \cup ({s} \X Spellings)
    /\ UNCHANGED <<qosFiles, leaked>>

(* unlink; when another one was faster it is rejected, and that is the end. *)
UnlinkQos(p) ==
    /\ purging[p].pc = "unlink"
    /\ LET file == <<purging[p].s, Normal>> IN
       /\ qosFiles' = qosFiles \ {file}
       /\ purging' = [purging EXCEPT ![p] =
              IF file \in qosFiles THEN Onward(@.rest) ELSE Finished]
    /\ UNCHANGED <<listed, purged, leaked>>

(* A call of the deletion is rejected, or the server stops. *)
PurgeFails(p) ==
    /\ purging[p] # Finished
    /\ purging' = [purging EXCEPT ![p] = Finished]
    /\ leaked' = IF purging[p].pc = "unlink" THEN leaked \cup {purging[p].s}
                 ELSE leaked
    /\ UNCHANGED <<listed, qosFiles, purged>>

QosNext ==
    \/ \E s \in QosSessions :
          \/ ListSession(s) \/ ExpireListed(s)
          \/ \E spelling \in Spellings : QosUpload(s, spelling)
    \/ \E p \in Purgers :
          \/ FindListed(p) \/ DeleteListed(p)
          \/ SaveDeparted(p) \/ \E s \in QosSessions : FindDeparted(p, s)
          \/ UnlinkQos(p) \/ PurgeFails(p)

QosSpec == QosInit /\ [][QosNext]_qosVars

-----------------------------------------------------------------------------
QosTypeOK ==
    /\ listed \subseteq QosSessions /\ qosFiles \subseteq QosPaths
    /\ \A p \in Purgers :
          /\ purging[p].pc \in {"idle", "save", "delete", "unlink"}
          /\ purging[p].pc = "save" => purging[p].s \in QosSessions

\* A file that should be gone: a deletion is at it, or nobody ever will be.
LeftBehind(file) ==
    /\ file \in qosFiles
    /\ \A p \in Purgers : purging[p].pc = "unlink" => purging[p].s # file[1]

(* A deleted session leaves no file of its own spelling to the next session
   of its id, whichever walks and soft deletes overlap, unless it was uploaded
   afterwards or the unlink itself was not done (then nothing ever looks for
   the file again). *)
QosPurged ==
    \A file \in purged :
        file[2] = Normal /\ file[1] \notin leaked => ~LeftBehind(file)

(* "Delete QoS data for the session" (deleteSessions): a deleted session
   leaves no file that was uploaded for it, however its URL was written. *)
QosOfSessionDeleted ==
    \A file \in purged : file[1] \notin leaked => ~LeftBehind(file)

=============================================================================
