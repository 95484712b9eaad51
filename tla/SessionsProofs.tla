--------------------------- MODULE SessionsProofs ---------------------------
(***************************************************************************)
(* Theorems about Sessions and about the promises SessionPromises records, *)
(* for any number of handlers, readers, consoles, players, ids and         *)
(* failures.                                                               *)
(***************************************************************************)
EXTENDS SessionPromises, TLAPS

(* An upsert of a document stores a document. *)
LEMMA UpsertType ==
    ASSUME NEW stored \in Doc \cup {NoDoc}, NEW doc \in Doc
    PROVE  Upsert(stored, doc) \in Doc
BY DEF Upsert, Doc

(* An upsert never stores an absent pointer over a present one, and stores no
   pointer that neither the stored document nor the saved copy had. *)
LEMMA UpsertPointer ==
    ASSUME NEW stored \in Doc \cup {NoDoc}, NEW doc \in Doc
    PROVE  /\ Upsert(stored, doc).migration \in
                {doc.migration} \cup
                  (IF stored = NoDoc THEN {} ELSE {stored.migration})
           /\ stored # NoDoc /\ stored.migration # 0
                => Upsert(stored, doc).migration # 0
BY DEF Upsert, Doc

-----------------------------------------------------------------------------
(* Type correctness. *)

(* Storing a document, sending a handler on, and ending the others keep the
   types of the store and of the requests in flight. *)
LEMMA PutType ==
    ASSUME TypeOK, NEW id \in Ids, NEW doc \in Doc, Put(id, doc)
    PROVE  sessions' \in [Ids -> Doc \cup {NoDoc}]
<1>1. Upsert(sessions[id], doc) \in Doc
  BY UpsertType DEF TypeOK
<1>2. QED
  BY <1>1 DEF Put, TypeOK

LEMMA RemoveType ==
    ASSUME TypeOK, NEW id \in Ids, Remove(id)
    PROVE  sessions' \in [Ids -> Doc \cup {NoDoc}]
BY DEF Remove, TypeOK

LEMMA GotoType ==
    ASSUME TypeOK, NEW h \in Handlers, NEW request \in Request, Goto(h, request)
    PROVE  handling' \in [Handlers -> Request]
BY DEF Goto, TypeOK

LEMMA FoundType ==
    ASSUME TypeOK, NEW id \in Ids, Found(id)
    PROVE  sessions[id] \in Doc
BY DEF Found, TypeOK

(* What a handler holds, by its program counter. *)
LEMMA RequestByPc ==
    ASSUME NEW r \in Request
    PROVE  /\ r.pc = "save" => r \in Saving
           /\ r.pc = "authorized" => r \in Authorized
           /\ r.pc \in {"saveNew", "saveOld"} => r \in Migrating
           /\ r.pc = "purge" => r \in Purging
           /\ r.pc = "idle" => r = Idle
BY DEF Request, Saving, Authorized, Migrating, Purging, Idle

LEMMA ReadType ==
    ASSUME TypeOK, NEW h \in Handlers, NEW op \in SaveOps, NEW id \in Ids,
           NEW doc, Found(id) => doc \in Doc, NEW who \in SUBSET Players,
           Read(h, op, id, doc, who)
    PROVE  TypeOK'
<1>1. [pc |-> "save", op |-> op, id |-> id, doc |-> doc, who |-> who]
          \in Request
  BY DEF Read, Request, Saving
<1>2. handling' \in [Handlers -> Request]
  BY <1>1, GotoType DEF Read
<1>3. QED
  BY <1>2 DEF Read, TypeOK

LEMMA FinderType ==
    ASSUME TypeOK, NEW h \in Handlers, Finder(h)
    PROVE  TypeOK'
<1>1. ASSUME NEW id \in Ids, NEW who \in SUBSET Players \ {{}},
             Join(h, id, who) \/ Leave(h, id, who)
      PROVE  TypeOK'
  <2>1. Found(id) => /\ Joined(sessions[id], who) \in Doc
                     /\ Left(sessions[id], who) \in Doc
    BY FoundType DEF Joined, Left, Doc
  <2>2. "join" \in SaveOps /\ "leave" \in SaveOps /\ who \in SUBSET Players
    BY DEF SaveOps
  <2>3. CASE Join(h, id, who)
    BY <2>1, <2>2, <2>3, ReadType DEF Join
  <2>4. CASE Leave(h, id, who)
    BY <2>1, <2>2, <2>4, ReadType DEF Leave
  <2>5. QED
    BY <1>1, <2>3, <2>4
<1>2. ASSUME NEW id \in Ids, NEW flags \in Flags, Modify(h, id, flags)
      PROVE  TypeOK'
  <2>1. Found(id) => Modified(sessions[id], flags) \in Doc
    BY FoundType DEF Modified, Doc
  <2>2. "other" \in SaveOps /\ {} \in SUBSET Players
    BY DEF SaveOps
  <2>3. QED
    BY <1>2, <2>1, <2>2, ReadType DEF Modify
<1>3. ASSUME NEW id \in Ids, NEW keys \in SUBSET Keys \ {{}},
             AddContext(h, id, keys) \/ AddProperties(h, id, keys)
      PROVE  TypeOK'
  <2>1. Found(id) => /\ ContextAdded(sessions[id], keys) \in Doc
                     /\ PropertiesAdded(sessions[id], keys) \in Doc
    BY FoundType DEF ContextAdded, PropertiesAdded, Doc
  <2>2. "other" \in SaveOps /\ {} \in SUBSET Players
    BY DEF SaveOps
  <2>3. CASE AddContext(h, id, keys)
    BY <2>1, <2>2, <2>3, ReadType DEF AddContext
  <2>4. CASE AddProperties(h, id, keys)
    BY <2>1, <2>2, <2>4, ReadType DEF AddProperties
  <2>5. QED
    BY <1>3, <2>3, <2>4
<1>4. ASSUME NEW id \in Ids, NEW mac \in Macs, Authorize(h, id, mac)
      PROVE  TypeOK'
  <2>1. [pc |-> "authorized", id |-> id] \in Request
    BY DEF Request, Authorized
  <2>2. handling' \in [Handlers -> Request]
    BY <1>4, <2>1, GotoType DEF Authorize
  <2>3. QED
    BY <1>4, <2>2 DEF Authorize, TypeOK
<1>5. ASSUME NEW id \in Ids, NEW mac \in Macs, NEW host \in Hosts,
             Migrate(h, id, mac, host)
      PROVE  TypeOK'
  <2>1. nextId \in Ids /\ sessions[id] \in Doc
    BY <1>5, FoundType DEF Migrate
  <2>2. /\ MigrationSource(sessions[id], nextId) \in Doc
        /\ MigrationTarget(sessions[id], mac, host) \in Doc
    BY <2>1 DEF MigrationSource, MigrationTarget, Doc
  <2>3. [pc |-> "saveNew", id |-> id, new |-> nextId,
         oldDoc |-> MigrationSource(sessions[id], nextId),
         newDoc |-> MigrationTarget(sessions[id], mac, host)] \in Request
    BY <2>1, <2>2 DEF Request, Migrating
  <2>4. handling' \in [Handlers -> Request]
    BY <1>5, <2>3, GotoType DEF Migrate
  <2>5. nextId' \in NClientIds+1 .. NClientIds+MaxMigrations+1
    BY <1>5, <2>1, SessionsAssumption DEF Migrate, TypeOK, Ids
  <2>6. QED
    BY <1>5, <2>4, <2>5 DEF Migrate, TypeOK
<1>6. ASSUME NEW mac \in Macs, FindConsoleSessions(h, mac)
      PROVE  TypeOK'
  <2>1. [pc |-> "purge",
         ids |-> {i \in Ids : Found(i) /\ sessions[i].mac = mac}] \in Request
    BY DEF Request, Purging
  <2>2. handling' \in [Handlers -> Request]
    BY <1>6, <2>1, GotoType DEF FindConsoleSessions
  <2>3. QED
    BY <1>6, <2>2 DEF FindConsoleSessions, TypeOK
<1>7. QED
  BY <1>1, <1>2, <1>3, <1>4, <1>5, <1>6 DEF Finder

LEMMA WriterType ==
    ASSUME TypeOK, NEW h \in Handlers, Writer(h)
    PROVE  TypeOK'
<1> USE DEF TypeOK
<1>1. handling[h] \in Request /\ Idle \in Request
  BY DEF Request
<1>2. CASE Save(h)
  <2>1. handling[h] \in Saving
    BY <1>1, <1>2, RequestByPc DEF Save
  <2>2. handling[h].id \in Ids /\ handling[h].doc \in Doc
    BY <2>1 DEF Saving
  <2>3. sessions' \in [Ids -> Doc \cup {NoDoc}]
    BY <1>2, <2>2, PutType DEF Save
  <2>4. handling' \in [Handlers -> Request]
    BY <1>1, <1>2, GotoType DEF Save
  <2>5. QED
    BY <1>2, <2>2, <2>3, <2>4 DEF Save
<1>3. CASE SoftDelete(h)
  <2>1. handling[h] \in Authorized
    BY <1>1, <1>3, RequestByPc DEF SoftDelete
  <2>2. PICK id \in Ids : id = handling[h].id
    BY <2>1 DEF Authorized
  <2>3. Found(id) => Deleted(sessions[id]) \in Doc
    BY FoundType DEF Deleted, Doc
  <2>4. Found(id) => [pc |-> "save", op |-> "other", id |-> id,
                      doc |-> Deleted(sessions[id]), who |-> {}] \in Request
    BY <2>3 DEF Request, Saving, SaveOps
  <2>5. handling' \in [Handlers -> Request]
    BY <1>1, <1>3, <2>2, <2>4, GotoType DEF SoftDelete
  <2>6. QED
    BY <1>3, <2>5 DEF SoftDelete
<1>4. CASE SaveNew(h)
  <2>1. handling[h] \in Migrating
    BY <1>1, <1>4, RequestByPc DEF SaveNew
  <2>2. handling[h].new \in Ids /\ handling[h].newDoc \in Doc
    BY <2>1 DEF Migrating
  <2>3. sessions' \in [Ids -> Doc \cup {NoDoc}]
    BY <1>4, <2>2, PutType DEF SaveNew
  <2>4. [handling[h] EXCEPT !.pc = "saveOld"] \in Request
    BY <2>1 DEF Migrating, Request
  <2>5. handling' \in [Handlers -> Request]
    BY <1>4, <2>4 DEF SaveNew
  <2>6. QED
    BY <1>4, <2>2, <2>3, <2>5 DEF SaveNew
<1>5. CASE SaveOld(h)
  <2>1. handling[h] \in Migrating
    BY <1>1, <1>5, RequestByPc DEF SaveOld
  <2>2. handling[h].id \in Ids /\ handling[h].oldDoc \in Doc
    BY <2>1 DEF Migrating
  <2>3. sessions' \in [Ids -> Doc \cup {NoDoc}]
    BY <1>5, <2>2, PutType DEF SaveOld
  <2>4. handling' \in [Handlers -> Request]
    BY <1>1, <1>5, GotoType DEF SaveOld
  <2>5. QED
    BY <1>5, <2>2, <2>3, <2>4 DEF SaveOld
<1>6. ASSUME NEW id \in Ids, HardDelete(h, id)
      PROVE  TypeOK'
  <2>1. handling[h] \in Purging
    BY <1>1, <1>6, RequestByPc DEF HardDelete
  <2>2. [pc |-> "purge", ids |-> handling[h].ids \ {id}] \in Request
    BY <2>1 DEF Purging, Request
  <2>3. handling' \in [Handlers -> Request]
    BY <1>1, <1>6, <2>2, GotoType DEF HardDelete
  <2>4. sessions' \in [Ids -> Doc \cup {NoDoc}]
    BY <1>6, RemoveType DEF HardDelete
  <2>5. QED
    BY <1>6, <2>3, <2>4 DEF HardDelete
<1>7. QED
  BY <1>2, <1>3, <1>4, <1>5, <1>6 DEF Writer

LEMMA ReaderType ==
    ASSUME TypeOK, NEW r \in Readers, Reader(r)
    PROVE  TypeOK'
<1> USE DEF TypeOK
<1>1. ASSUME NEW id \in Ids, StartWalk(r, id)
      PROVE  TypeOK'
  <2>1. sessions[id].migration \in Ids \cup {0}
    BY <1>1, FoundType DEF StartWalk, Doc
  <2>2. [pc |-> "walk", cur |-> id, next |-> sessions[id].migration,
         seen |-> {}] \in Walk
    BY <2>1 DEF Walk
  <2>3. QED
    BY <1>1, <2>2 DEF StartWalk
<1>2. CASE Step(r)
  <2>1. walking[r] \in Walk
    BY <1>2 DEF Step, Idle
  <2>2. PICK n \in Ids : n = walking[r].next
    BY <1>2, <2>1 DEF Step, Walk
  <2>3. sessions[n].migration \in Ids \cup {0}
    BY <1>2, <2>2, FoundType DEF Step, Doc
  <2>4. [pc |-> "walk", cur |-> n, next |-> sessions[n].migration,
         seen |-> walking[r].seen \cup {walking[r].cur}] \in Walk
    BY <2>1, <2>3 DEF Walk
  <2>5. QED
    BY <1>2, <2>2, <2>4 DEF Step
<1>3. CASE EndWalk(r)
  BY <1>3 DEF EndWalk
<1>4. QED
  BY <1>1, <1>2, <1>3 DEF Reader

LEMMA TypeInductive == TypeOK /\ [Next]_vars => TypeOK'
<1> SUFFICES ASSUME TypeOK, [Next]_vars
             PROVE  TypeOK'
  OBVIOUS
<1>1. ASSUME NEW id \in ClientIds, NEW mac \in Macs, NEW host \in Hosts,
             NEW flags \in Flags, Create(id, mac, host, flags)
      PROVE  TypeOK'
  <2>1. id \in Ids
    BY SessionsAssumption DEF ClientIds, Ids
  <2>2. Created(mac, host, flags) \in Doc
    BY DEF Created, Doc
  <2>3. sessions' \in [Ids -> Doc \cup {NoDoc}]
    BY <1>1, <2>1, <2>2, PutType DEF Create
  <2>4. QED
    BY <1>1, <2>1, <2>3 DEF Create, TypeOK
<1>2. ASSUME NEW h \in Handlers, Fail(h)
      PROVE  TypeOK'
  <2>1. handling' \in [Handlers -> Request]
    BY <1>2, GotoType DEF Fail, Request
  <2>2. faults' \in 0..MaxFaults
    BY <1>2, SessionsAssumption DEF Fail, TypeOK
  <2>3. QED
    BY <1>2, <2>1, <2>2 DEF Fail, TypeOK
<1>3. ASSUME NEW id \in Ids, Expire(id)
      PROVE  TypeOK'
  BY <1>3, RemoveType DEF Expire, TypeOK
<1>4. CASE Crash
  <2>1. faults' \in 0..MaxFaults
    BY <1>4, SessionsAssumption DEF Crash, TypeOK
  <2>2. QED
    BY <1>4, <2>1 DEF Crash, TypeOK, Request
<1>5. CASE UNCHANGED vars
  BY <1>5 DEF vars, TypeOK
<1>6. QED
  BY <1>1, <1>2, <1>3, <1>4, <1>5, FinderType, WriterType, ReaderType DEF Next

(* Whatever overlaps, fails or crashes, every document in the store and every
   copy a handler holds is a well-formed session. *)
THEOREM TypeCorrect == Spec => []TypeOK
<1>1. Init => TypeOK
  BY SessionsAssumption DEF Init, TypeOK, Request
<1>2. QED
  BY <1>1, TypeInductive, PTL DEF Spec

-----------------------------------------------------------------------------
(* Hand-off chains.  None of the three invariants below is inductive: a      *)
(* reader's `seen` set is safe because pointers lead forward, in the order   *)
(* ids come into use; that needs every copy a handler is about to save to    *)
(* lead forward too, every id in use to precede the next one drawn, and a    *)
(* migration to reach its second save only after its first.                  *)

(* `pointer` leads from `id` to a session that has been saved. *)
Forward(id, pointer) ==
    pointer # 0 => pointer \in persisted /\ id < pointer

DocsForward ==
    \A i \in Ids : Found(i) => i < nextId /\ Forward(i, sessions[i].migration)

SavesForward ==
    \A h \in Handlers : handling[h].pc = "save" =>
        /\ handling[h].id < nextId
        /\ Forward(handling[h].id, handling[h].doc.migration)

MigrationsForward ==
    \A h \in Handlers : handling[h].pc \in {"saveNew", "saveOld"} =>
        /\ handling[h].id < handling[h].new
        /\ handling[h].new < nextId
        /\ handling[h].newDoc.migration = 0
        /\ handling[h].oldDoc.migration = handling[h].new
        /\ handling[h].pc = "saveOld" => handling[h].new \in persisted

WalksForward ==
    \A r \in Readers : walking[r].pc = "walk" =>
        /\ walking[r].next # 0 => walking[r].cur < walking[r].next
        /\ \A s \in walking[r].seen : s < walking[r].cur

IInv == TypeOK /\ DocsForward /\ SavesForward /\ MigrationsForward /\ WalksForward

Unmoved == UNCHANGED <<sessions, nextId, persisted>>

(* Nothing else that a request or a reader holds is disturbed when one handler
   moves and the store only grows forward. *)
LEMMA OthersForward ==
    ASSUME IInv, NEW h \in Handlers, NEW request \in Request, Goto(h, request),
           UNCHANGED walking, nextId' \in Nat, nextId <= nextId',
           persisted \subseteq persisted',
           request.pc = "save" =>
               /\ request.id < nextId'
               /\ Forward(request.id, request.doc.migration)',
           request.pc \in {"saveNew", "saveOld"} =>
               /\ request.id < request.new
               /\ request.new < nextId'
               /\ request.newDoc.migration = 0
               /\ request.oldDoc.migration = request.new
               /\ request.pc = "saveOld" => request.new \in persisted'
    PROVE  SavesForward' /\ MigrationsForward' /\ WalksForward'
<1> USE DEF IInv, TypeOK
<1>1. handling' = [handling EXCEPT ![h] = request]
  BY DEF Goto
<1>2. ASSUME NEW g \in Handlers
      PROVE  handling'[g] = IF g = h THEN request ELSE handling[g]
  BY <1>1
<1>3. nextId \in Nat
  BY SessionsAssumption
<1>4. ASSUME NEW g \in Handlers, handling'[g].pc = "save"
      PROVE  (/\ handling[g].id < nextId
              /\ Forward(handling[g].id, handling[g].doc.migration))'
  <2>1. CASE g = h
    BY <1>2, <1>4, <2>1 DEF Forward
  <2>2. CASE g # h
    <3>1. handling[g].pc = "save" /\ handling'[g] = handling[g]
      BY <1>2, <1>4, <2>2
    <3>2. handling[g] \in Saving
      BY <3>1, RequestByPc
    <3>3. handling[g].id \in Nat
      BY <3>2, SessionsAssumption DEF Saving, Ids
    <3>4. /\ handling[g].id < nextId
          /\ Forward(handling[g].id, handling[g].doc.migration)
      BY <3>1 DEF SavesForward
    <3>5. QED
      BY <1>3, <3>1, <3>3, <3>4 DEF Forward
  <2>3. QED
    BY <2>1, <2>2
<1>5. ASSUME NEW g \in Handlers, handling'[g].pc \in {"saveNew", "saveOld"}
      PROVE  /\ handling'[g].id < handling'[g].new
             /\ handling'[g].new < nextId'
             /\ handling'[g].newDoc.migration = 0
             /\ handling'[g].oldDoc.migration = handling'[g].new
             /\ handling'[g].pc = "saveOld" => handling'[g].new \in persisted'
  <2>1. CASE g = h
    BY <1>2, <1>5, <2>1
  <2>2. CASE g # h
    <3>1. handling[g].pc \in {"saveNew", "saveOld"} /\ handling'[g] = handling[g]
      BY <1>2, <1>5, <2>2
    <3>2. handling[g] \in Migrating
      BY <3>1, RequestByPc
    <3>3. handling[g].new \in Nat
      BY <3>2, SessionsAssumption DEF Migrating, Ids
    <3>4. QED
      BY <1>3, <3>1, <3>3 DEF MigrationsForward
  <2>3. QED
    BY <2>1, <2>2
<1>6. SavesForward'
  BY <1>4 DEF SavesForward
<1>7. MigrationsForward'
  BY <1>5 DEF MigrationsForward
<1>8. WalksForward'
  BY DEF WalksForward
<1>9. QED
  BY <1>6, <1>7, <1>8

LEMMA ReadForward ==
    ASSUME IInv, NEW h \in Handlers, NEW op \in SaveOps, NEW id \in Ids,
           NEW doc, NEW who \in SUBSET Players,
           Found(id) => doc \in Doc /\ doc.migration = sessions[id].migration,
           Read(h, op, id, doc, who)
    PROVE  DocsForward' /\ SavesForward' /\ MigrationsForward' /\ WalksForward'
<1> DEFINE request == [pc |-> "save", op |-> op, id |-> id, doc |-> doc,
                       who |-> who]
<1>1. request \in Request
  BY DEF Read, Request, Saving
<1>2. id < nextId /\ Forward(id, doc.migration)
  BY DEF Read, IInv, DocsForward
<1>3. Unmoved /\ UNCHANGED walking /\ Goto(h, request)
  BY DEF Read, Unmoved
<1>4. nextId \in Nat
  BY SessionsAssumption DEF IInv, TypeOK
<1>5. SavesForward' /\ MigrationsForward' /\ WalksForward'
  <2>1. request.pc = "save" /\ request.id = id /\ request.doc = doc
    OBVIOUS
  <2>2. Forward(request.id, request.doc.migration)'
    BY <1>2, <1>3, <2>1 DEF Forward, Unmoved
  <2> HIDE DEF request
  <2>3. QED
    BY <1>1, <1>2, <1>3, <1>4, <2>1, <2>2, OthersForward DEF Unmoved
<1>6. DocsForward'
  BY <1>3 DEF Unmoved, IInv, DocsForward, Found, Forward
<1>7. QED
  BY <1>5, <1>6

(* A handler that only reads leaves the chains alone; what it is about to save
   leads forward because what it read did. *)
LEMMA FinderForward ==
    ASSUME IInv, NEW h \in Handlers, Finder(h)
    PROVE  DocsForward' /\ SavesForward' /\ MigrationsForward' /\ WalksForward'
<1> USE DEF IInv
<1>0. nextId \in Nat
  BY SessionsAssumption DEF TypeOK
<1>1. ASSUME NEW id \in Ids, NEW who \in SUBSET Players \ {{}},
             Join(h, id, who) \/ Leave(h, id, who)
      PROVE  DocsForward' /\ SavesForward' /\ MigrationsForward' /\ WalksForward'
  <2>1. Found(id) => /\ Joined(sessions[id], who) \in Doc
                     /\ Left(sessions[id], who) \in Doc
                     /\ Joined(sessions[id], who).migration
                            = sessions[id].migration
                     /\ Left(sessions[id], who).migration = sessions[id].migration
    BY FoundType DEF Joined, Left, Doc
  <2>2. "join" \in SaveOps /\ "leave" \in SaveOps /\ who \in SUBSET Players
    BY DEF SaveOps
  <2>3. CASE Join(h, id, who)
    BY <2>1, <2>2, <2>3, ReadForward DEF Join
  <2>4. CASE Leave(h, id, who)
    BY <2>1, <2>2, <2>4, ReadForward DEF Leave
  <2>5. QED
    BY <1>1, <2>3, <2>4
<1>2. ASSUME NEW id \in Ids, NEW flags \in Flags, Modify(h, id, flags)
      PROVE  DocsForward' /\ SavesForward' /\ MigrationsForward' /\ WalksForward'
  <2>1. Found(id) => /\ Modified(sessions[id], flags) \in Doc
                     /\ Modified(sessions[id], flags).migration
                            = sessions[id].migration
    BY FoundType DEF Modified, Doc
  <2>2. "other" \in SaveOps /\ {} \in SUBSET Players
    BY DEF SaveOps
  <2>3. QED
    BY <1>2, <2>1, <2>2, ReadForward DEF Modify
<1>3. ASSUME NEW id \in Ids, NEW keys \in SUBSET Keys \ {{}},
             AddContext(h, id, keys) \/ AddProperties(h, id, keys)
      PROVE  DocsForward' /\ SavesForward' /\ MigrationsForward' /\ WalksForward'
  <2>1. Found(id) => /\ ContextAdded(sessions[id], keys) \in Doc
                     /\ PropertiesAdded(sessions[id], keys) \in Doc
                     /\ ContextAdded(sessions[id], keys).migration
                            = sessions[id].migration
                     /\ PropertiesAdded(sessions[id], keys).migration
                            = sessions[id].migration
    BY FoundType DEF ContextAdded, PropertiesAdded, Doc
  <2>2. "other" \in SaveOps /\ {} \in SUBSET Players
    BY DEF SaveOps
  <2>3. CASE AddContext(h, id, keys)
    BY <2>1, <2>2, <2>3, ReadForward DEF AddContext
  <2>4. CASE AddProperties(h, id, keys)
    BY <2>1, <2>2, <2>4, ReadForward DEF AddProperties
  <2>5. QED
    BY <1>3, <2>3, <2>4
<1>4. ASSUME NEW id \in Ids, NEW mac \in Macs, Authorize(h, id, mac)
      PROVE  DocsForward' /\ SavesForward' /\ MigrationsForward' /\ WalksForward'
  <2> DEFINE request == [pc |-> "authorized", id |-> id]
  <2>1. request \in Request /\ request.pc = "authorized"
    BY DEF Request, Authorized
  <2>2. Unmoved /\ UNCHANGED walking /\ Goto(h, request)
    BY <1>4 DEF Authorize, Unmoved
  <2> HIDE DEF request
  <2>3. SavesForward' /\ MigrationsForward' /\ WalksForward'
    BY <1>0, <2>1, <2>2, OthersForward DEF Unmoved
  <2>4. DocsForward'
    BY <2>2 DEF Unmoved, DocsForward, Found, Forward
  <2>5. QED
    BY <2>3, <2>4
<1>5. ASSUME NEW id \in Ids, NEW mac \in Macs, NEW host \in Hosts,
             Migrate(h, id, mac, host)
      PROVE  DocsForward' /\ SavesForward' /\ MigrationsForward' /\ WalksForward'
  <2> DEFINE source == MigrationSource(sessions[id], nextId)
             target == MigrationTarget(sessions[id], mac, host)
             request == [pc |-> "saveNew", id |-> id, new |-> nextId,
                         oldDoc |-> source, newDoc |-> target]
  <2>1. nextId \in Ids /\ sessions[id] \in Doc /\ sessions[id].migration = 0
    BY <1>5, FoundType DEF Migrate
  <2>2. /\ source \in Doc /\ source.migration = nextId
        /\ target \in Doc /\ target.migration = 0
    BY <2>1 DEF MigrationSource, MigrationTarget, Doc
  <2>3. id < nextId
    BY <1>5 DEF Migrate, DocsForward
  <2>4. /\ UNCHANGED <<sessions, walking, persisted>> /\ Goto(h, request)
        /\ nextId' = nextId + 1
    BY <1>5 DEF Migrate
  <2> HIDE DEF source, target
  <2>5. request \in Request
    BY <2>1, <2>2 DEF Request, Migrating
  <2>6. /\ request.pc = "saveNew" /\ request.id = id /\ request.new = nextId
        /\ request.oldDoc = source /\ request.newDoc = target
    OBVIOUS
  <2> HIDE DEF request
  <2>7. nextId' \in Nat /\ nextId < nextId' /\ nextId <= nextId'
    BY <1>0, <2>4
  <2>8. SavesForward' /\ MigrationsForward' /\ WalksForward'
    BY <2>2, <2>3, <2>4, <2>5, <2>6, <2>7, OthersForward
  <2>9. ASSUME NEW i \in Ids, Found(i)'
        PROVE  (i < nextId /\ Forward(i, sessions[i].migration))'
    <3>1. i < nextId /\ Forward(i, sessions[i].migration) /\ i \in Nat
      BY <2>4, <2>9, SessionsAssumption DEF DocsForward, Found, Ids
    <3>2. QED
      BY <1>0, <2>4, <2>7, <3>1 DEF Forward
  <2>10. QED
    BY <2>8, <2>9 DEF DocsForward
<1>6. ASSUME NEW mac \in Macs, FindConsoleSessions(h, mac)
      PROVE  DocsForward' /\ SavesForward' /\ MigrationsForward' /\ WalksForward'
  <2> DEFINE request == [pc |-> "purge",
                         ids |-> {i \in Ids : Found(i) /\ sessions[i].mac = mac}]
  <2>1. request \in Request /\ request.pc = "purge"
    BY DEF Request, Purging
  <2>2. Unmoved /\ UNCHANGED walking /\ Goto(h, request)
    BY <1>6 DEF FindConsoleSessions, Unmoved
  <2> HIDE DEF request
  <2>3. SavesForward' /\ MigrationsForward' /\ WalksForward'
    BY <1>0, <2>1, <2>2, OthersForward DEF Unmoved
  <2>4. DocsForward'
    BY <2>2 DEF Unmoved, DocsForward, Found, Forward
  <2>5. QED
    BY <2>3, <2>4
<1>7. QED
  BY <1>1, <1>2, <1>3, <1>4, <1>5, <1>6 DEF Finder

(* Storing a copy that leads forward keeps every chain leading forward. *)
LEMMA PutForward ==
    ASSUME IInv, NEW id \in Ids, NEW doc \in Doc, Put(id, doc),
           id < nextId, Forward(id, doc.migration),
           persisted' = persisted \cup {id}, UNCHANGED nextId
    PROVE  DocsForward'
<1>1. ASSUME NEW i \in Ids, Found(i)'
      PROVE  (i < nextId /\ Forward(i, sessions[i].migration))'
  <2>1. CASE i # id
    BY <1>1, <2>1 DEF Put, IInv, TypeOK, DocsForward, Found, Forward
  <2>2. CASE i = id
    <3>1. sessions[id] \in Doc \cup {NoDoc} /\ sessions'[id] = Upsert(sessions[id], doc)
      BY DEF Put, IInv, TypeOK
    <3>2. \/ sessions'[id].migration = doc.migration
          \/ Found(id) /\ sessions'[id].migration = sessions[id].migration
      BY <3>1, UpsertPointer DEF Found
    <3>3. QED
      BY <2>2, <3>2 DEF IInv, DocsForward, Forward
  <2>3. QED
    BY <2>1, <2>2
<1>2. QED
  BY <1>1 DEF DocsForward

LEMMA WriterForward ==
    ASSUME IInv, NEW h \in Handlers, Writer(h)
    PROVE  DocsForward' /\ SavesForward' /\ MigrationsForward' /\ WalksForward'
<1> USE DEF IInv
<1>0. /\ nextId \in Nat /\ handling[h] \in Request
      /\ Idle \in Request /\ Idle.pc = "idle"
  BY SessionsAssumption DEF TypeOK, Request, Idle
<1>1. CASE Save(h)
  <2>1. handling[h].id \in Ids /\ handling[h].doc \in Doc
    BY <1>0, <1>1, RequestByPc DEF Save, Saving
  <2>2. /\ handling[h].id < nextId
        /\ Forward(handling[h].id, handling[h].doc.migration)
    BY <1>1 DEF Save, SavesForward
  <2>3. DocsForward'
    BY <1>1, <2>1, <2>2, PutForward DEF Save
  <2>4. SavesForward' /\ MigrationsForward' /\ WalksForward'
    BY <1>0, <1>1, OthersForward DEF Save
  <2>5. QED
    BY <2>3, <2>4
<1>2. CASE SoftDelete(h)
  <2>1. PICK id \in Ids : id = handling[h].id
    BY <1>0, <1>2, RequestByPc DEF SoftDelete, Authorized
  <2>2. Found(id) => /\ Deleted(sessions[id]) \in Doc
                     /\ Deleted(sessions[id]).migration = sessions[id].migration
    BY FoundType DEF Deleted, Doc
  <2>3. PICK request \in Request :
           request = IF Found(id)
                     THEN [pc |-> "save", op |-> "other", id |-> id,
                           doc |-> Deleted(sessions[id]), who |-> {}]
                     ELSE Idle
    BY <1>0, <2>2 DEF Request, Saving, SaveOps
  <2>4. Unmoved /\ UNCHANGED walking /\ Goto(h, request)
    BY <1>2, <2>1, <2>3 DEF SoftDelete, Unmoved
  <2>5. Found(id) => id < nextId /\ Forward(id, sessions[id].migration)
    BY DEF DocsForward
  <2>6. \/ request.pc = "idle"
        \/ /\ request.pc = "save" /\ request.id = id /\ Found(id)
           /\ request.doc.migration = sessions[id].migration
    BY <1>0, <2>2, <2>3
  <2>7. request.pc = "save" => /\ request.id < nextId'
                               /\ Forward(request.id, request.doc.migration)'
    BY <2>4, <2>5, <2>6 DEF Unmoved, Forward
  <2>8. SavesForward' /\ MigrationsForward' /\ WalksForward'
    BY <1>0, <2>3, <2>4, <2>6, <2>7, OthersForward DEF Unmoved
  <2>9. DocsForward'
    BY <2>4 DEF Unmoved, DocsForward, Found, Forward
  <2>10. QED
    BY <2>8, <2>9
<1>3. CASE SaveNew(h)
  <2>1. handling[h] \in Migrating /\ handling[h].pc = "saveNew"
    BY <1>0, <1>3, RequestByPc DEF SaveNew
  <2>2. handling[h].new \in Ids /\ handling[h].newDoc \in Doc
    BY <2>1 DEF Migrating
  <2>3. /\ handling[h].id < handling[h].new
        /\ handling[h].new < nextId
        /\ handling[h].newDoc.migration = 0
        /\ handling[h].oldDoc.migration = handling[h].new
    BY <2>1 DEF MigrationsForward
  <2>4. DocsForward'
    <3>1. Forward(handling[h].new, handling[h].newDoc.migration)
      BY <2>3 DEF Forward
    <3>2. QED
      BY <1>3, <2>2, <2>3, <3>1, PutForward DEF SaveNew
  <2> DEFINE request == [handling[h] EXCEPT !.pc = "saveOld"]
  <2>5. /\ request \in Request /\ request.pc = "saveOld"
        /\ request.id = handling[h].id /\ request.new = handling[h].new
        /\ request.newDoc = handling[h].newDoc
        /\ request.oldDoc = handling[h].oldDoc
    BY <2>1 DEF Migrating, Request
  <2>6. Goto(h, request)
    BY <1>3 DEF SaveNew, Goto, TypeOK
  <2> HIDE DEF request
  <2>7. /\ UNCHANGED <<walking, nextId>>
        /\ persisted \subseteq persisted' /\ handling[h].new \in persisted'
    BY <1>3 DEF SaveNew
  <2>8. SavesForward' /\ MigrationsForward' /\ WalksForward'
    BY <1>0, <2>3, <2>5, <2>6, <2>7, OthersForward
  <2>9. QED
    BY <2>4, <2>8
<1>4. CASE SaveOld(h)
  <2>1. handling[h] \in Migrating /\ handling[h].pc = "saveOld"
    BY <1>0, <1>4, RequestByPc DEF SaveOld
  <2>2. /\ handling[h].id \in Ids /\ handling[h].new \in Ids
        /\ handling[h].oldDoc \in Doc
    BY <2>1 DEF Migrating
  <2>3. /\ handling[h].id < handling[h].new
        /\ handling[h].new < nextId
        /\ handling[h].oldDoc.migration = handling[h].new
        /\ handling[h].new \in persisted
    BY <2>1 DEF MigrationsForward
  <2>4. handling[h].id < nextId /\ Forward(handling[h].id, handling[h].oldDoc.migration)
    BY <1>0, <2>2, <2>3, SessionsAssumption DEF Forward, Ids
  <2>5. DocsForward'
    BY <1>4, <2>2, <2>4, PutForward DEF SaveOld
  <2>6. SavesForward' /\ MigrationsForward' /\ WalksForward'
    BY <1>0, <1>4, OthersForward DEF SaveOld
  <2>7. QED
    BY <2>5, <2>6
<1>5. ASSUME NEW id \in Ids, HardDelete(h, id)
      PROVE  DocsForward' /\ SavesForward' /\ MigrationsForward' /\ WalksForward'
  <2>1. handling[h] \in Purging
    BY <1>0, <1>5, RequestByPc DEF HardDelete
  <2> DEFINE rest == handling[h].ids \ {id}
             request == IF rest = {} THEN Idle ELSE [pc |-> "purge", ids |-> rest]
  <2>2. request \in Request /\ request.pc \in {"idle", "purge"}
    BY <1>0, <2>1 DEF Purging, Request
  <2>3. Goto(h, request) /\ UNCHANGED <<walking, nextId, persisted>>
    BY <1>5 DEF HardDelete
  <2> HIDE DEF request
  <2>4. SavesForward' /\ MigrationsForward' /\ WalksForward'
    BY <1>0, <2>2, <2>3, OthersForward
  <2>5. DocsForward'
    BY <1>5, <2>3 DEF HardDelete, Remove, TypeOK, DocsForward, Found, Forward
  <2>6. QED
    BY <2>4, <2>5
<1>6. QED
  BY <1>1, <1>2, <1>3, <1>4, <1>5 DEF Writer

LEMMA ReaderForward ==
    ASSUME IInv, NEW r \in Readers, Reader(r)
    PROVE  DocsForward' /\ SavesForward' /\ MigrationsForward' /\ WalksForward'
<1> USE DEF IInv
<1>1. Unmoved /\ UNCHANGED handling
  BY DEF Reader, StartWalk, Step, EndWalk, Unmoved
<1>2. DocsForward' /\ SavesForward' /\ MigrationsForward'
  BY <1>1 DEF Unmoved, DocsForward, SavesForward, MigrationsForward, Found, Forward
<1>3. ASSUME NEW id \in Ids, StartWalk(r, id)
      PROVE  WalksForward'
  <2>1. Forward(id, sessions[id].migration)
    BY <1>3 DEF StartWalk, DocsForward
  <2>2. QED
    BY <1>3, <2>1 DEF StartWalk, WalksForward, Forward, TypeOK
<1>4. CASE Step(r)
  <2>1. walking[r] \in Walk
    BY <1>4 DEF Step, TypeOK, Idle
  <2>2. PICK n \in Ids : n = walking[r].next
    BY <1>4, <2>1 DEF Step, Walk
  <2>3. n # 0 /\ walking[r].cur < n /\ \A s \in walking[r].seen : s < walking[r].cur
    BY <1>4, <2>2 DEF Step, WalksForward
  <2>4. /\ walking[r].cur \in Nat /\ n \in Nat
        /\ \A s \in walking[r].seen : s \in Nat
    BY <2>1, SessionsAssumption DEF Walk, Ids
  <2>5. \A s \in walking[r].seen \cup {walking[r].cur} : s < n
    BY <2>3, <2>4
  <2>6. Forward(n, sessions[n].migration)
    BY <1>4, <2>2 DEF Step, DocsForward
  <2>7. QED
    BY <1>2, <1>4, <2>2, <2>5, <2>6 DEF Step, WalksForward, Forward, TypeOK
<1>5. CASE EndWalk(r)
  BY <1>2, <1>5 DEF EndWalk, WalksForward, Idle, TypeOK
<1>6. QED
  BY <1>2, <1>3, <1>4, <1>5 DEF Reader

LEMMA ForwardInductive == IInv /\ [Next]_vars => IInv'
<1> SUFFICES ASSUME IInv, [Next]_vars
             PROVE  DocsForward' /\ SavesForward' /\ MigrationsForward'
                        /\ WalksForward'
  BY TypeInductive DEF IInv
<1> USE DEF IInv
<1>0. nextId \in Nat /\ Idle \in Request /\ Idle.pc = "idle"
  BY SessionsAssumption DEF TypeOK, Request, Idle
<1>1. ASSUME NEW id \in ClientIds, NEW mac \in Macs, NEW host \in Hosts,
             NEW flags \in Flags, Create(id, mac, host, flags)
      PROVE  DocsForward' /\ SavesForward' /\ MigrationsForward' /\ WalksForward'
  <2> DEFINE doc == Created(mac, host, flags)
  <2>1. doc \in Doc /\ doc.migration = 0
    BY DEF Created, Doc
  <2>2. id \in Ids /\ id < nextId
    BY SessionsAssumption DEF ClientIds, Ids, TypeOK
  <2>3. Put(id, doc) /\ persisted' = persisted \cup {id}
        /\ UNCHANGED <<nextId, handling, walking>>
    BY <1>1 DEF Create
  <2> HIDE DEF doc
  <2>4. DocsForward'
    BY <2>1, <2>2, <2>3, PutForward DEF Forward
  <2>5. SavesForward' /\ MigrationsForward' /\ WalksForward'
    BY <2>3 DEF SavesForward, MigrationsForward, WalksForward, Forward
  <2>6. QED
    BY <2>4, <2>5
<1>2. ASSUME NEW h \in Handlers, Fail(h)
      PROVE  DocsForward' /\ SavesForward' /\ MigrationsForward' /\ WalksForward'
  <2>1. Unmoved /\ UNCHANGED walking /\ Goto(h, Idle)
    BY <1>2 DEF Fail, Unmoved
  <2>2. SavesForward' /\ MigrationsForward' /\ WalksForward'
    BY <1>0, <2>1, OthersForward DEF Unmoved
  <2>3. DocsForward'
    BY <2>1 DEF Unmoved, DocsForward, Found, Forward
  <2>4. QED
    BY <2>2, <2>3
<1>3. ASSUME NEW id \in Ids, Expire(id)
      PROVE  DocsForward' /\ SavesForward' /\ MigrationsForward' /\ WalksForward'
  <2>1. UNCHANGED <<nextId, handling, walking, persisted>>
    BY <1>3 DEF Expire
  <2>2. DocsForward'
    BY <1>3, <2>1 DEF Expire, Remove, TypeOK, DocsForward, Found, Forward
  <2>3. QED
    BY <2>1, <2>2 DEF SavesForward, MigrationsForward, WalksForward, Forward
<1>4. CASE Crash
  <2>1. Unmoved
    BY <1>4 DEF Crash, Unmoved
  <2>2. DocsForward'
    BY <2>1 DEF Unmoved, DocsForward, Found, Forward
  <2>3. /\ \A h \in Handlers : handling'[h].pc = "idle"
        /\ \A r \in Readers : walking'[r].pc = "idle"
    BY <1>4 DEF Crash, Idle
  <2>4. QED
    BY <2>2, <2>3 DEF SavesForward, MigrationsForward, WalksForward
<1>5. CASE UNCHANGED vars
  BY <1>5 DEF vars, DocsForward, SavesForward, MigrationsForward, WalksForward,
              Found, Forward
<1>6. QED
  BY <1>1, <1>2, <1>3, <1>4, <1>5, FinderForward, WriterForward, ReaderForward
  DEF Next

LEMMA ForwardInit == Init => IInv
<1>1. Init => TypeOK
  BY SessionsAssumption DEF Init, TypeOK, Request
<1> QED BY <1>1 DEF Init, IInv, DocsForward, SavesForward, MigrationsForward,
                    WalksForward, Idle, Found

LEMMA ForwardAlways == Spec => []IInv
BY ForwardInit, ForwardInductive, PTL DEF Spec

(* A pointer that a reader can see always names a session that was saved:
   neither a crash between MigrateSession's two saves nor any interleaving of
   requests leaves a hand-off to a session that never existed. *)
THEOREM HandOffTargetSaved == Spec => []NoDanglingHandOff
<1>1. IInv => NoDanglingHandOff
  BY DEF IInv, DocsForward, Forward, NoDanglingHandOff
<1>2. QED
  BY <1>1, ForwardAlways, PTL

(* resolveLiveSession never comes back to a session it has seen, however the
   chain is migrated under it: its cycle guard is never what stops it. *)
THEOREM WalkIsSimple == Spec => []WalkNeverRevisits
<1>1. IInv => WalkNeverRevisits
  <2> SUFFICES ASSUME IInv, NEW r \in Readers, walking[r].pc = "walk"
               PROVE  walking[r].cur \notin walking[r].seen
    BY DEF WalkNeverRevisits
  <2>1. walking[r].cur \in Nat
    BY SessionsAssumption DEF IInv, TypeOK, Walk, Idle, Ids
  <2>2. QED
    BY <2>1 DEF IInv, WalksForward
<1>2. QED
  BY <1>1, ForwardAlways, PTL

(* No save, not even of a copy read before the migration or of a session
   created again under the same id, turns a handed-off session back into one
   that searches offer. *)
THEOREM HandOffIsFinal == Spec => HandOffNeverCleared
<1> DEFINE Keeps(i) == (Found(i) /\ sessions[i].migration # 0
                            /\ sessions'[i] # NoDoc)
                        => sessions'[i].migration # 0
<1>1. ASSUME TypeOK, [Next]_vars, NEW i \in Ids
      PROVE  Keeps(i)
  <2>1. ASSUME NEW id \in Ids, NEW doc \in Doc, Put(id, doc)
        PROVE  Keeps(i)
    <3>1. sessions[i] \in Doc \cup {NoDoc}
      BY <1>1 DEF TypeOK
    <3>2. sessions'[i] = IF i = id THEN Upsert(sessions[i], doc) ELSE sessions[i]
      BY <1>1, <2>1 DEF Put, TypeOK
    <3>3. QED
      BY <3>1, <3>2, UpsertPointer DEF Found
  <2>2. ASSUME NEW id \in Ids, Remove(id)
        PROVE  Keeps(i)
    BY <1>1, <2>2 DEF Remove, TypeOK
  <2>3. ASSUME NEW id \in ClientIds, NEW mac \in Macs, NEW host \in Hosts,
               NEW flags \in Flags, Create(id, mac, host, flags)
        PROVE  Keeps(i)
    <3>1. id \in Ids
      BY SessionsAssumption DEF ClientIds, Ids
    <3>2. Created(mac, host, flags) \in Doc
      BY DEF Created, Doc
    <3>3. QED
      BY <2>1, <2>3, <3>1, <3>2 DEF Create
  <2>4. ASSUME NEW h \in Handlers, Writer(h)
        PROVE  Keeps(i)
    <3>1. handling[h] \in Request
      BY <1>1 DEF TypeOK
    <3>2. CASE Save(h)
      <4>1. handling[h].id \in Ids /\ handling[h].doc \in Doc
        BY <3>1, <3>2, RequestByPc DEF Save, Saving
      <4>2. QED
        BY <2>1, <3>2, <4>1 DEF Save
    <3>3. CASE SaveNew(h)
      <4>1. handling[h].new \in Ids /\ handling[h].newDoc \in Doc
        BY <3>1, <3>3, RequestByPc DEF SaveNew, Migrating
      <4>2. QED
        BY <2>1, <3>3, <4>1 DEF SaveNew
    <3>4. CASE SaveOld(h)
      <4>1. handling[h].id \in Ids /\ handling[h].oldDoc \in Doc
        BY <3>1, <3>4, RequestByPc DEF SaveOld, Migrating
      <4>2. QED
        BY <2>1, <3>4, <4>1 DEF SaveOld
    <3>5. CASE SoftDelete(h)
      BY <3>5 DEF SoftDelete
    <3>6. ASSUME NEW id \in Ids, HardDelete(h, id)
          PROVE  Keeps(i)
      BY <2>2, <3>6 DEF HardDelete
    <3>7. QED
      BY <2>4, <3>2, <3>3, <3>4, <3>5, <3>6 DEF Writer
  <2>5. ASSUME NEW id \in Ids, Expire(id)
        PROVE  Keeps(i)
    BY <2>2, <2>5 DEF Expire
  <2>6. CASE UNCHANGED sessions
    BY <2>6
  <2>7. ASSUME NEW h \in Handlers, Finder(h) \/ Fail(h)
        PROVE  UNCHANGED sessions
    BY <2>7 DEF Finder, Join, Leave, Modify, AddContext, AddProperties, Read,
                Authorize, Migrate, FindConsoleSessions, Fail
  <2>8. ASSUME NEW r \in Readers, Reader(r)
        PROVE  UNCHANGED sessions
    BY <2>8 DEF Reader, StartWalk, Step, EndWalk
  <2>9. Crash \/ UNCHANGED vars => UNCHANGED sessions
    BY DEF Crash, vars
  <2>10. QED
    BY <1>1, <2>3, <2>4, <2>5, <2>6, <2>7, <2>8, <2>9 DEF Next
<1>2. TypeOK /\ [Next]_vars => [\A i \in Ids : Keeps(i)]_vars
  BY <1>1
<1>3. QED
  BY <1>2, TypeCorrect, PTL DEF Spec, HandOffNeverCleared

-----------------------------------------------------------------------------
(* New ids.  The id that a migration draws is nobody else's until its first  *)
(* save.                                                                     *)

Migrates(r) == r.pc \in {"saveNew", "saveOld"}

StoredKnown == \A i \in Ids : Found(i) => i \in persisted

HeldKnown == \A h \in Handlers : Holds(handling[h]) => handling[h].id \in persisted

PersistedDrawn == \A i \in persisted : i < nextId

DrawnApart ==
    \A h \in Handlers : Migrates(handling[h]) =>
        /\ handling[h].new > NClientIds
        /\ handling[h].pc = "saveNew" => handling[h].new \notin persisted
        /\ \A g \in Handlers : g # h /\ Migrates(handling[g]) =>
              handling[g].new # handling[h].new

NewIds == StoredKnown /\ HeldKnown /\ PersistedDrawn /\ DrawnApart

(* A handler goes on, and nothing is saved for the first time. *)
LEMMA MoveNewIds ==
    ASSUME TypeOK, NewIds, NEW h \in Handlers, NEW request,
           handling' = [handling EXCEPT ![h] = request],
           nextId' \in {nextId, nextId + 1}, persisted' = persisted,
           StoredKnown',
           Holds(request) => request.id \in persisted,
           Migrates(request) =>
               /\ request.new > NClientIds
               /\ request.pc = "saveNew" => request.new \notin persisted
               /\ \A g \in Handlers : g # h /\ Migrates(handling[g]) =>
                     handling[g].new # request.new
    PROVE  NewIds'
<1>1. \A g \in Handlers : handling'[g] = IF g = h THEN request ELSE handling[g]
  BY DEF TypeOK
<1>2. HeldKnown'
  BY <1>1 DEF NewIds, HeldKnown
<1>3. PersistedDrawn'
  <2>1. nextId \in Nat /\ \A i \in persisted : i \in Nat
    BY SessionsAssumption DEF TypeOK, Ids
  <2> QED BY <2>1 DEF NewIds, PersistedDrawn
<1>4. DrawnApart'
  BY <1>1 DEF NewIds, DrawnApart
<1> QED BY <1>2, <1>3, <1>4 DEF NewIds

LEMMA StoredStays ==
    ASSUME NewIds, UNCHANGED <<sessions, persisted>>
    PROVE  StoredKnown'
BY DEF NewIds, StoredKnown, Found

LEMMA FinderNewIds ==
    ASSUME IInv, NewIds, NEW h \in Handlers, Finder(h) \/ SoftDelete(h) \/ Fail(h)
    PROVE  NewIds'
<1>0. TypeOK /\ Idle.pc = "idle" /\ StoredKnown
  BY DEF IInv, Idle, NewIds
<1>1. ASSUME NEW op, NEW id \in Ids, NEW doc, NEW who, Read(h, op, id, doc, who)
      PROVE  NewIds'
  <2> DEFINE request == [pc |-> "save", op |-> op, id |-> id, doc |-> doc, who |-> who]
  <2>1. handling' = [handling EXCEPT ![h] = request] /\ Found(id)
        /\ UNCHANGED <<sessions, nextId, persisted>>
    BY <1>1 DEF Read, Goto
  <2>2. request.pc = "save" /\ request.id = id
    OBVIOUS
  <2> HIDE DEF request
  <2>3. id \in persisted /\ StoredKnown'
    BY <1>0, <2>1, StoredStays DEF StoredKnown
  <2> QED BY <1>0, <2>1, <2>2, <2>3, MoveNewIds DEF Migrates
<1>2. ASSUME NEW request, ~Holds(request), Goto(h, request),
             UNCHANGED <<sessions, nextId, persisted>>
      PROVE  NewIds'
  <2>1. ~Migrates(request)
    BY <1>2 DEF Holds, Migrates
  <2> QED BY <1>0, <1>2, <2>1, StoredStays, MoveNewIds DEF Goto
<1>3. ASSUME NEW id \in Ids, NEW mac \in Macs, NEW host \in Hosts,
             Migrate(h, id, mac, host)
      PROVE  NewIds'
  <2> DEFINE source == MigrationSource(sessions[id], nextId)
             target == MigrationTarget(sessions[id], mac, host)
             request == [pc |-> "saveNew", id |-> id, new |-> nextId,
                         oldDoc |-> source, newDoc |-> target]
  <2>1. handling' = [handling EXCEPT ![h] = request] /\ Found(id)
        /\ nextId' = nextId + 1 /\ UNCHANGED <<sessions, persisted>>
    BY <1>3 DEF Migrate, Goto
  <2> HIDE DEF source, target
  <2>2. request.pc = "saveNew" /\ request.id = id /\ request.new = nextId
    OBVIOUS
  <2> HIDE DEF request
  <2>3. id \in persisted /\ StoredKnown'
    BY <1>0, <2>1, StoredStays DEF StoredKnown
  <2>4. nextId \in Nat /\ nextId > NClientIds /\ nextId \notin persisted
    BY <1>0, SessionsAssumption DEF TypeOK, NewIds, PersistedDrawn
  <2>5. \A g \in Handlers : Migrates(handling[g]) => handling[g].new # nextId
    <3>1. \A g \in Handlers : Migrates(handling[g]) =>
              handling[g].new < nextId /\ handling[g].new \in Nat
      BY <1>0, RequestByPc, SessionsAssumption
         DEF IInv, MigrationsForward, Migrates, TypeOK, Migrating, Ids
    <3> QED BY <2>4, <3>1
  <2> QED BY <1>0, <2>1, <2>2, <2>3, <2>4, <2>5, MoveNewIds
<1>4. ASSUME NEW id \in Ids, NEW mac \in Macs, Authorize(h, id, mac) PROVE NewIds'
  <2> DEFINE request == [pc |-> "authorized", id |-> id]
  <2>1. ~Holds(request)
    BY DEF Holds
  <2>2. Goto(h, request) /\ UNCHANGED <<sessions, nextId, persisted>>
    BY <1>4 DEF Authorize
  <2> HIDE DEF request
  <2> QED BY <1>2, <2>1, <2>2
<1>5. ASSUME NEW mac \in Macs, FindConsoleSessions(h, mac) PROVE NewIds'
  <2> DEFINE request == [pc |-> "purge",
                         ids |-> {i \in Ids : Found(i) /\ sessions[i].mac = mac}]
  <2>1. ~Holds(request)
    BY DEF Holds
  <2>2. Goto(h, request) /\ UNCHANGED <<sessions, nextId, persisted>>
    BY <1>5 DEF FindConsoleSessions
  <2> HIDE DEF request
  <2> QED BY <1>2, <2>1, <2>2
<1>6. CASE SoftDelete(h)
  <2> DEFINE id == handling[h].id
             request == [pc |-> "save", op |-> "other", id |-> id,
                         doc |-> Deleted(sessions[id]), who |-> {}]
  <2>1. id \in Ids
    BY <1>0, <1>6, RequestByPc DEF SoftDelete, Authorized, TypeOK
  <2>2. CASE ~Found(id)
    BY <1>0, <1>2, <1>6, <2>2 DEF SoftDelete, Holds
  <2>3. CASE Found(id)
    <3>1. handling' = [handling EXCEPT ![h] = request]
          /\ UNCHANGED <<sessions, nextId, persisted>>
      BY <1>6, <2>3 DEF SoftDelete, Goto
    <3>2. request.pc = "save" /\ request.id = id
      OBVIOUS
    <3> HIDE DEF request
    <3>3. id \in persisted /\ StoredKnown'
      BY <1>0, <2>1, <2>3, <3>1, StoredStays DEF StoredKnown
    <3> QED BY <1>0, <3>1, <3>2, <3>3, MoveNewIds DEF Migrates
  <2> QED BY <2>2, <2>3
<1>7. CASE Fail(h)
  BY <1>0, <1>2, <1>7 DEF Fail, Holds
<1> QED BY <1>1, <1>3, <1>4, <1>5, <1>6, <1>7
    DEF Finder, Join, Leave, Modify, AddContext, AddProperties

LEMMA SaverNewIds ==
    ASSUME IInv, NewIds, NEW h \in Handlers, Save(h) \/ SaveOld(h)
    PROVE  NewIds'
<1> DEFINE id == handling[h].id
<1>0. TypeOK /\ Idle.pc = "idle"
  BY DEF IInv, Idle
<1>1. id \in persisted
  BY DEF NewIds, HeldKnown, Holds, Save, SaveOld
<1>2. /\ handling' = [handling EXCEPT ![h] = Idle]
      /\ persisted' = persisted /\ UNCHANGED nextId
      /\ \A i \in Ids : i # id => sessions'[i] = sessions[i]
  BY <1>0, <1>1 DEF Save, SaveOld, Goto, Put, TypeOK
<1>3. StoredKnown'
  BY <1>1, <1>2 DEF NewIds, StoredKnown, Found
<1> HIDE DEF id
<1> QED BY <1>0, <1>2, <1>3, MoveNewIds DEF Holds, Migrates

LEMMA SaveNewNewIds ==
    ASSUME IInv, NewIds, NEW h \in Handlers, SaveNew(h)
    PROVE  NewIds'
<1> DEFINE r == handling[h]
<1>0. TypeOK
  BY DEF IInv
<1>1. r \in Migrating /\ r.pc = "saveNew" /\ Migrates(r) /\ Holds(r)
  BY <1>0, RequestByPc DEF SaveNew, TypeOK, Migrates, Holds
<1>2. /\ persisted' = persisted \cup {r.new} /\ UNCHANGED nextId
      /\ handling' = [handling EXCEPT ![h].pc = "saveOld"]
      /\ \A i \in Ids : i # r.new => sessions'[i] = sessions[i]
  BY <1>0 DEF SaveNew, Put, TypeOK
<1>3. \A g \in Handlers : g # h => handling'[g] = handling[g]
  BY <1>0, <1>2 DEF TypeOK
<1>4. /\ handling'[h].pc = "saveOld" /\ handling'[h].id = r.id /\ handling'[h].new = r.new
      /\ Migrates(handling'[h]) /\ Holds(handling'[h])
  BY <1>0, <1>1, <1>2 DEF TypeOK, Migrating, Migrates, Holds
<1>5. StoredKnown'
  BY <1>2 DEF NewIds, StoredKnown, Found
<1>6. HeldKnown'
  BY <1>1, <1>2, <1>3, <1>4 DEF NewIds, HeldKnown
<1>7. PersistedDrawn'
  BY <1>1, <1>2 DEF NewIds, PersistedDrawn, IInv, MigrationsForward
<1>8. DrawnApart'
  BY <1>1, <1>2, <1>3, <1>4 DEF NewIds, DrawnApart
<1> QED BY <1>5, <1>6, <1>7, <1>8 DEF NewIds

LEMMA RemovalNewIds ==
    ASSUME IInv, NewIds, NEW id \in Ids, Expire(id) \/ \E h \in Handlers : HardDelete(h, id)
    PROVE  NewIds'
<1>0. TypeOK /\ Idle.pc = "idle"
  BY DEF IInv, Idle
<1>1. \A i \in Ids : sessions'[i] = IF i = id THEN NoDoc ELSE sessions[i]
  BY <1>0 DEF Expire, HardDelete, Remove, TypeOK
<1>2. UNCHANGED <<nextId, persisted>>
  BY DEF Expire, HardDelete
<1>3. StoredKnown'
  BY <1>1, <1>2 DEF NewIds, StoredKnown, Found
<1>4. CASE UNCHANGED handling
  BY <1>2, <1>3, <1>4 DEF NewIds, HeldKnown, PersistedDrawn, DrawnApart
<1>5. ASSUME NEW h \in Handlers, HardDelete(h, id) PROVE NewIds'
  <2> DEFINE rest == handling[h].ids \ {id}
             request == IF rest = {} THEN Idle ELSE [pc |-> "purge", ids |-> rest]
  <2>1. ~Holds(request) /\ ~Migrates(request)
    BY <1>0 DEF Holds, Migrates
  <2>2. handling' = [handling EXCEPT ![h] = request]
    BY <1>5 DEF HardDelete, Goto
  <2> HIDE DEF request
  <2> QED BY <1>0, <1>2, <1>3, <2>1, <2>2, MoveNewIds
<1> QED BY <1>4, <1>5 DEF Expire

LEMMA CreateNewIds ==
    ASSUME IInv, NewIds, NEW id \in ClientIds, NEW mac \in Macs, NEW host \in Hosts,
           NEW flags \in Flags, Create(id, mac, host, flags)
    PROVE  NewIds'
<1>0. TypeOK
  BY DEF IInv
<1>1. id \in Ids /\ id \in Nat /\ ~(id > NClientIds) /\ nextId \in Nat /\ id < nextId
  BY <1>0, SessionsAssumption DEF ClientIds, Ids, TypeOK
<1>2. /\ \A i \in Ids : i # id => sessions'[i] = sessions[i]
      /\ persisted' = persisted \cup {id} /\ UNCHANGED <<nextId, handling>>
  BY <1>0, <1>1 DEF Create, Put, TypeOK
<1>3. StoredKnown' /\ HeldKnown' /\ PersistedDrawn'
  BY <1>1, <1>2 DEF NewIds, StoredKnown, HeldKnown, PersistedDrawn, Found
<1>4. DrawnApart'
  BY <1>1, <1>2 DEF NewIds, DrawnApart
<1> QED BY <1>3, <1>4 DEF NewIds

LEMMA NewIdsInductive == IInv /\ NewIds /\ [Next]_vars => NewIds'
<1> SUFFICES ASSUME IInv, NewIds, [Next]_vars PROVE NewIds'
  OBVIOUS
<1>1. CASE Crash
  BY <1>1, StoredStays DEF Crash, NewIds, HeldKnown, PersistedDrawn, DrawnApart, Idle,
                           Holds, Migrates
<1>2. CASE UNCHANGED <<sessions, nextId, handling, persisted>>
  BY <1>2, StoredStays DEF NewIds, HeldKnown, PersistedDrawn, DrawnApart
<1>3. ASSUME NEW r \in Readers, Reader(r) PROVE NewIds'
  BY <1>2, <1>3 DEF Reader, StartWalk, Step, EndWalk
<1>4. CASE UNCHANGED vars
  BY <1>2, <1>4 DEF vars
<1> QED BY <1>1, <1>3, <1>4, FinderNewIds, SaverNewIds, SaveNewNewIds, RemovalNewIds,
           CreateNewIds DEF Next, Writer

-----------------------------------------------------------------------------
(* What a copy in flight knows.  A copy that waits to be saved extends what   *)
(* is stored, unless another save has overtaken it; and it has every player   *)
(* whose join was answered while no copy was held, and the pointer of every   *)
(* hand-off without a rival.                                                  *)

\* Storing `doc` over `stored` takes nothing back.
Extends(stored, doc) == ~TakenBack(stored, doc)

Sure == seated \ exposed

Steered == handoffs \ rivalled

PromisesTyped ==
    /\ seated \subseteq Ids \X Players /\ exposed \subseteq Ids \X Players
    /\ handoffs \subseteq Ids \X Ids /\ rivalled \subseteq Ids \X Ids

SeatsKnown == \A p \in seated : p[1] \in persisted

\* An answered hand-off goes when its document does.
HandOffsStored == \A p \in handoffs : Found(p[1])

KnowsSeats(r, sure) ==
    /\ \A p \in Of(r.id, sure) : p[2] \in Copy(r).members \cup Leaving(r)
    /\ Joining(r) \subseteq Copy(r).members
    /\ r.pc # "save" => r.newDoc.members = r.oldDoc.members

KnowsHandOffs(r, steered) ==
    /\ \A p \in Of(r.id, steered) : Copy(r).migration \in {0, p[2]}
    /\ r.pc # "save" => Of(r.id, steered) = {}

Knows(r, sure, steered) == KnowsSeats(r, sure) /\ KnowsHandOffs(r, steered)

Aware == \A h \in Handlers : Holds(handling[h]) => Knows(handling[h], Sure, Steered)

Ahead ==
    \A h \in Handlers : Holds(handling[h]) /\ h \notin overtaken =>
        (Found(handling[h].id) => Extends(sessions[handling[h].id], Copy(handling[h])))

Kept ==
    /\ PromisesTyped /\ SeatsKnown /\ HandOffsStored
    /\ OnlyExposedJoinsLost /\ OnlyRivalledHandOffsLost

PromiseInv == IInv /\ NewIds /\ Kept /\ Aware /\ Ahead

(* Every step that keeps the promises is a step of Sessions. *)
LEMMA PromiseStepIsStep == [PNext]_<<vars, promises>> => [Next]_vars
<1> SUFFICES ASSUME [PNext]_<<vars, promises>> PROVE [Next]_vars
  OBVIOUS
<1>1. CASE UNCHANGED <<vars, promises>>
  BY <1>1 DEF vars
<1>2. CASE \E id \in ClientIds, mac \in Macs, host \in Hosts, flags \in Flags :
             PCreate(id, mac, host, flags)
  BY <1>2 DEF PCreate, Next
<1>3. CASE \E h \in Handlers : PSave(h) \/ PSaveNew(h) \/ PSaveOld(h) \/ PFail(h)
  BY <1>3 DEF PSave, PSaveNew, PSaveOld, PFail, Next, Writer
<1>4. CASE PRemoval
  BY <1>4 DEF PRemoval, Next, Writer
<1>5. CASE PCrash
  BY <1>5 DEF PCrash, Next
<1>6. CASE POther
  BY <1>6 DEF POther, Next, Writer
<1> QED BY <1>1, <1>2, <1>3, <1>4, <1>5, <1>6 DEF PNext

(* The upsert of a copy that takes nothing back takes nothing back, and a new
   session over a stored one is never ahead of a copy of it. *)
LEMMA UpsertExtends ==
    ASSUME NEW stored \in Doc, NEW doc \in Doc, Extends(stored, doc)
    PROVE  Extends(stored, Upsert(stored, doc))
<1> stored # NoDoc
  BY SessionsAssumption
<1> QED BY DEF Extends, TakenBack, Upsert, Doc

LEMMA CreatedBehind ==
    ASSUME NEW stored \in Doc \cup {NoDoc}, NEW doc \in Doc,
           stored # NoDoc => Extends(stored, doc),
           NEW mac \in Macs, NEW host \in Hosts, NEW flags \in Flags
    PROVE  Extends(Upsert(stored, Created(mac, host, flags)), doc)
BY DEF Extends, TakenBack, Upsert, Created, Doc

LEMMA ExtendsItself == \A doc \in Doc : Extends(doc, doc)
BY DEF Extends, TakenBack, Doc

(* What each operation does to the copy takes nothing back. *)
LEMMA OperationsExtend ==
    ASSUME NEW doc \in Doc
    PROVE  /\ \A who \in SUBSET Players :
                 Extends(doc, Joined(doc, who)) /\ Extends(doc, Left(doc, who))
           /\ \A flags \in Flags : Extends(doc, Modified(doc, flags))
           /\ \A keys \in SUBSET Keys :
                 /\ Extends(doc, ContextAdded(doc, keys))
                 /\ Extends(doc, PropertiesAdded(doc, keys))
           /\ Extends(doc, Deleted(doc))
           /\ \A new \in Ids :
                 doc.migration = 0 => Extends(doc, MigrationSource(doc, new))
BY DEF Extends, TakenBack, Doc, Joined, Left, Modified, ContextAdded, PropertiesAdded,
       Deleted, MigrationSource

(* The players and the pointer of the copy that each operation makes. *)
LEMMA OperationsKeep ==
    ASSUME NEW doc \in Doc
    PROVE  /\ \A who : /\ Joined(doc, who).members = doc.members \cup who
                       /\ Joined(doc, who).migration = doc.migration
                       /\ Left(doc, who).members = doc.members \ who
                       /\ Left(doc, who).migration = doc.migration
           /\ \A flags : /\ Modified(doc, flags).members = doc.members
                         /\ Modified(doc, flags).migration = doc.migration
           /\ \A keys : /\ ContextAdded(doc, keys).members = doc.members
                        /\ ContextAdded(doc, keys).migration = doc.migration
                        /\ PropertiesAdded(doc, keys).members = doc.members
                        /\ PropertiesAdded(doc, keys).migration = doc.migration
           /\ Deleted(doc).members = doc.members
           /\ Deleted(doc).migration = doc.migration
BY DEF Doc, Joined, Left, Modified, ContextAdded, PropertiesAdded, Deleted

(* A save stores the copy, but for the fields that are undefined in it. *)
LEMMA PutStores ==
    ASSUME TypeOK, NEW id \in Ids, NEW doc \in Doc, Put(id, doc)
    PROVE  /\ sessions'[id] \in Doc /\ sessions'[id] # NoDoc
           /\ sessions'[id].members = doc.members
           /\ doc.migration # 0 => sessions'[id].migration = doc.migration
           /\ doc.migration = 0 /\ Found(id) =>
                 sessions'[id].migration = sessions[id].migration
           /\ Found(id) /\ Extends(sessions[id], doc) =>
                 Extends(sessions[id], sessions'[id])
           /\ \A i \in Ids : i # id => sessions'[i] = sessions[i]
<1>1. /\ sessions'[id] = Upsert(sessions[id], doc)
      /\ \A i \in Ids : i # id => sessions'[i] = sessions[i]
  BY DEF Put, TypeOK
<1>2. sessions[id] \in Doc \cup {NoDoc} /\ (Found(id) => sessions[id] \in Doc)
  BY DEF TypeOK, Found
<1>3. sessions'[id] \in Doc /\ sessions'[id] # NoDoc
  BY <1>1, <1>2, UpsertType, SessionsAssumption
<1>4. /\ sessions'[id].members = doc.members
      /\ doc.migration # 0 => sessions'[id].migration = doc.migration
      /\ doc.migration = 0 /\ Found(id) =>
            sessions'[id].migration = sessions[id].migration
  BY <1>1 DEF Upsert, Doc, Found
<1>5. Found(id) /\ Extends(sessions[id], doc) => Extends(sessions[id], sessions'[id])
  BY <1>1, <1>2, UpsertExtends
<1> QED BY <1>1, <1>3, <1>4, <1>5

(* A request in flight is about ids and documents. *)
LEMMA HeldTyped ==
    ASSUME TypeOK, NEW h \in Handlers, Holds(handling[h])
    PROVE  /\ handling[h].id \in Ids /\ Copy(handling[h]) \in Doc
           /\ handling[h].pc = "save" => handling[h] \in Saving
           /\ handling[h].pc # "save" => handling[h] \in Migrating
           /\ Joining(handling[h]) \subseteq Players
BY RequestByPc DEF TypeOK, Holds, Copy, Saving, Migrating, Joining

-----------------------------------------------------------------------------
(* A handler goes on, and neither the store nor a promise changes. *)
LEMMA MoveKeeps ==
    ASSUME PromiseInv, NEW h \in Handlers, NEW request, Goto(h, request),
           UNCHANGED <<sessions, persisted, seated, exposed, handoffs, rivalled>>,
           overtaken' \in {overtaken, overtaken \ {h}},
           Holds(request) =>
               /\ Knows(request, Sure, Steered)
               /\ Found(request.id) => Extends(sessions[request.id], Copy(request))
    PROVE  Kept' /\ Aware' /\ Ahead'
<1>1. \A g \in Handlers : handling'[g] = IF g = h THEN request ELSE handling[g]
  BY DEF Goto, PromiseInv, IInv, TypeOK
<1>2. Kept'
  BY DEF PromiseInv, Kept, PromisesTyped, SeatsKnown, HandOffsStored,
         OnlyExposedJoinsLost, OnlyRivalledHandOffsLost, Found
<1>3. Sure' = Sure /\ Steered' = Steered
  BY DEF Sure, Steered
<1>4. Aware'
  <2> SUFFICES ASSUME NEW g \in Handlers, Holds(handling'[g])
               PROVE  Knows(handling'[g], Sure, Steered)
    BY <1>3 DEF Aware
  <2> QED BY <1>1 DEF PromiseInv, Aware
<1>5. Ahead'
  <2> SUFFICES ASSUME NEW g \in Handlers, Holds(handling'[g]), g \notin overtaken',
                      sessions[handling'[g].id] # NoDoc
               PROVE  Extends(sessions[handling'[g].id], Copy(handling'[g]))
    BY DEF Ahead, Found
  <2>1. CASE g = h
    BY <1>1, <2>1 DEF Found
  <2>2. CASE g # h
    BY <1>1, <2>2 DEF PromiseInv, Ahead, Found
  <2> QED BY <2>1, <2>2
<1> QED BY <1>2, <1>4, <1>5

\* A copy keeps the players, but those who leave, and the pointer.
CopyOf(id, op, doc, who) ==
    /\ op = "join" => who \subseteq doc.members
    /\ \A x \in sessions[id].members :
          x \in doc.members \/ (op = "leave" /\ x \in who)
    /\ doc.migration = sessions[id].migration
    /\ Extends(sessions[id], doc)

(* Such a copy of a stored document knows what was promised of it. *)
LEMMA CopyKeeps ==
    ASSUME PromiseInv, NEW h \in Handlers, NEW op, NEW id \in Ids, NEW doc, NEW who,
           Found(id), CopyOf(id, op, doc, who),
           Goto(h, [pc |-> "save", op |-> op, id |-> id, doc |-> doc, who |-> who]),
           UNCHANGED <<sessions, persisted, promises>>
    PROVE  Kept' /\ Aware' /\ Ahead'
<1> DEFINE request == [pc |-> "save", op |-> op, id |-> id, doc |-> doc, who |-> who]
<1>1. /\ request.pc = "save" /\ request.op = op /\ request.id = id
      /\ request.doc = doc /\ request.who = who
  OBVIOUS
<1>2. /\ Goto(h, request) /\ Found(id)
      /\ UNCHANGED <<sessions, persisted, seated, exposed, handoffs, rivalled, overtaken>>
  BY DEF promises
<1> HIDE DEF request
<1>3. \A p \in Of(id, Sure) : p[2] \in sessions[id].members
  BY <1>2 DEF PromiseInv, Kept, OnlyExposedJoinsLost, Of, Sure
<1>4. \A p \in Of(id, Steered) : p[2] = sessions[id].migration
  BY <1>2 DEF PromiseInv, Kept, OnlyRivalledHandOffsLost, Of, Steered
<1>5. Copy(request) = doc
  BY <1>1 DEF Copy
<1>6. Knows(request, Sure, Steered)
  <2>1. KnowsSeats(request, Sure)
    BY <1>1, <1>2, <1>3, <1>5 DEF KnowsSeats, Leaving, Joining, CopyOf
  <2>2. KnowsHandOffs(request, Steered)
    BY <1>1, <1>2, <1>4, <1>5 DEF KnowsHandOffs, CopyOf
  <2> QED BY <2>1, <2>2 DEF Knows
<1> QED BY <1>1, <1>2, <1>5, <1>6, MoveKeeps DEF CopyOf

LEMMA ReadKeeps ==
    ASSUME PromiseInv, NEW h \in Handlers, NEW op, NEW id \in Ids, NEW doc, NEW who,
           Found(id) => CopyOf(id, op, doc, who),
           Read(h, op, id, doc, who), UNCHANGED promises
    PROVE  Kept' /\ Aware' /\ Ahead'
BY CopyKeeps DEF Read, promises

LEMMA FinderKeeps ==
    ASSUME PromiseInv, NEW h \in Handlers, Finder(h), UNCHANGED promises
    PROVE  Kept' /\ Aware' /\ Ahead'
<1>0. TypeOK
  BY DEF PromiseInv, IInv
<1>1. ASSUME NEW id \in Ids, NEW who \in SUBSET Players \ {{}},
             Join(h, id, who) \/ Leave(h, id, who)
      PROVE  Kept' /\ Aware' /\ Ahead'
  <2> DEFINE joined == Joined(sessions[id], who)
             left == Left(sessions[id], who)
  <2>1. Found(id) => /\ joined.members = sessions[id].members \cup who
                     /\ joined.migration = sessions[id].migration
                     /\ Extends(sessions[id], joined)
                     /\ left.members = sessions[id].members \ who
                     /\ left.migration = sessions[id].migration
                     /\ Extends(sessions[id], left)
    BY <1>0, FoundType, OperationsKeep, OperationsExtend
  <2>2. Read(h, "join", id, joined, who) \/ Read(h, "leave", id, left, who)
    BY <1>1 DEF Join, Leave
  <2> HIDE DEF joined, left
  <2>3. CASE Read(h, "join", id, joined, who)
    BY <2>1, <2>3, ReadKeeps DEF CopyOf
  <2>4. CASE Read(h, "leave", id, left, who)
    BY <2>1, <2>4, ReadKeeps DEF CopyOf
  <2> QED BY <2>2, <2>3, <2>4
<1>2. ASSUME NEW id \in Ids, NEW doc, Read(h, "other", id, doc, {}),
             Found(id) => /\ doc.members = sessions[id].members
                          /\ doc.migration = sessions[id].migration
                          /\ Extends(sessions[id], doc)
      PROVE  Kept' /\ Aware' /\ Ahead'
  BY <1>2, ReadKeeps DEF CopyOf
<1>3. ASSUME NEW id \in Ids, NEW flags \in Flags, Modify(h, id, flags)
      PROVE  Kept' /\ Aware' /\ Ahead'
  <2> DEFINE doc == Modified(sessions[id], flags)
  <2>1. Found(id) => /\ doc.members = sessions[id].members
                     /\ doc.migration = sessions[id].migration
                     /\ Extends(sessions[id], doc)
    BY <1>0, FoundType, OperationsKeep, OperationsExtend
  <2>2. Read(h, "other", id, doc, {})
    BY <1>3 DEF Modify
  <2> HIDE DEF doc
  <2> QED BY <1>2, <2>1, <2>2
<1>4. ASSUME NEW id \in Ids, NEW keys \in SUBSET Keys \ {{}},
             AddContext(h, id, keys) \/ AddProperties(h, id, keys)
      PROVE  Kept' /\ Aware' /\ Ahead'
  <2> DEFINE context == ContextAdded(sessions[id], keys)
             properties == PropertiesAdded(sessions[id], keys)
  <2>1. Found(id) => /\ context.members = sessions[id].members
                     /\ context.migration = sessions[id].migration
                     /\ Extends(sessions[id], context)
                     /\ properties.members = sessions[id].members
                     /\ properties.migration = sessions[id].migration
                     /\ Extends(sessions[id], properties)
    BY <1>0, FoundType, OperationsKeep, OperationsExtend
  <2>2. Read(h, "other", id, context, {}) \/ Read(h, "other", id, properties, {})
    BY <1>4 DEF AddContext, AddProperties
  <2> HIDE DEF context, properties
  <2> QED BY <1>2, <2>1, <2>2
<1>5. ASSUME NEW request, ~Holds(request), Goto(h, request), UNCHANGED <<sessions, persisted>>
      PROVE  Kept' /\ Aware' /\ Ahead'
  BY <1>5, MoveKeeps DEF promises
<1>6. ASSUME NEW id \in Ids, NEW mac \in Macs, Authorize(h, id, mac)
      PROVE  Kept' /\ Aware' /\ Ahead'
  <2> DEFINE request == [pc |-> "authorized", id |-> id]
  <2>1. ~Holds(request)
    BY DEF Holds
  <2>2. Goto(h, request) /\ UNCHANGED <<sessions, persisted>>
    BY <1>6 DEF Authorize
  <2> HIDE DEF request
  <2> QED BY <1>5, <2>1, <2>2
<1>7. ASSUME NEW mac \in Macs, FindConsoleSessions(h, mac)
      PROVE  Kept' /\ Aware' /\ Ahead'
  <2> DEFINE request == [pc |-> "purge",
                         ids |-> {i \in Ids : Found(i) /\ sessions[i].mac = mac}]
  <2>1. ~Holds(request)
    BY DEF Holds
  <2>2. Goto(h, request) /\ UNCHANGED <<sessions, persisted>>
    BY <1>7 DEF FindConsoleSessions
  <2> HIDE DEF request
  <2> QED BY <1>5, <2>1, <2>2
<1>8. ASSUME NEW id \in Ids, NEW mac \in Macs, NEW host \in Hosts,
             Migrate(h, id, mac, host)
      PROVE  Kept' /\ Aware' /\ Ahead'
  <2> DEFINE source == MigrationSource(sessions[id], nextId)
             target == MigrationTarget(sessions[id], mac, host)
             request == [pc |-> "saveNew", id |-> id, new |-> nextId,
                         oldDoc |-> source, newDoc |-> target]
  <2>1. sessions[id] \in Doc /\ sessions[id].migration = 0 /\ Found(id) /\ nextId \in Ids
    BY <1>0, <1>8, FoundType DEF Migrate
  <2>2. /\ source.members = sessions[id].members \ {sessions[id].host}
        /\ source.host = sessions[id].host
        /\ target.members = source.members
    BY <2>1 DEF MigrationSource, MigrationTarget, Doc
  <2>3. Extends(sessions[id], source)
    BY <2>1, OperationsExtend
  <2>4. /\ Goto(h, request)
        /\ UNCHANGED <<sessions, persisted, seated, exposed, handoffs, rivalled, overtaken>>
    BY <1>8 DEF Migrate, promises
  <2> HIDE DEF source, target
  <2>5. /\ request.pc = "saveNew" /\ request.id = id /\ request.new = nextId
        /\ request.oldDoc = source /\ request.newDoc = target
    OBVIOUS
  <2> HIDE DEF request
  <2>6. Copy(request) = source /\ Leaving(request) = {source.host} /\ Joining(request) = {}
    BY <2>5 DEF Copy, Leaving, Joining
  <2>7. Of(id, Steered) = {}
    <3>1. \A p \in Of(id, Steered) : p[2] = 0 /\ p[2] \in Ids
      BY <2>1 DEF PromiseInv, Kept, OnlyRivalledHandOffsLost, PromisesTyped, Of, Steered
    <3> QED BY <3>1, SessionsAssumption DEF Ids
  <2>8. \A p \in Of(id, Sure) : p[2] \in source.members \cup {source.host}
    BY <2>1, <2>2 DEF PromiseInv, Kept, OnlyExposedJoinsLost, Of, Sure
  <2>9. Knows(request, Sure, Steered)
    BY <2>2, <2>5, <2>6, <2>7, <2>8 DEF Knows, KnowsSeats, KnowsHandOffs
  <2> QED BY <2>3, <2>4, <2>5, <2>6, <2>9, MoveKeeps
<1> QED BY <1>1, <1>3, <1>4, <1>6, <1>7, <1>8 DEF Finder

(* A copy is saved over its session: the seats. *)
LEMMA StoredSeats ==
    ASSUME PromiseInv, NEW h \in Handlers, Holds(handling[h]), Stored(h)
    PROVE  /\ seated' \subseteq Ids \X Players /\ exposed' \subseteq Ids \X Players
           /\ \A p \in seated' : p \in seated \/ p[1] = handling[h].id
           /\ \A p \in Sure' :
                 \/ p \in Sure /\ ~(p[1] = handling[h].id /\ p[2] \in Leaving(handling[h]))
                 \/ Others(h) = {} /\ p[1] = handling[h].id /\ p[2] \in Joining(handling[h])
<1> DEFINE r == handling[h]
           out == {r.id} \X Leaving(r)
           joins == {r.id} \X Joining(r)
<1>0. /\ r.id \in Ids /\ Joining(r) \subseteq Players
      /\ seated \subseteq Ids \X Players /\ exposed \subseteq Ids \X Players
  BY HeldTyped DEF PromiseInv, IInv, Kept, PromisesTyped
<1>1. /\ seated' = (seated \ out) \cup joins
      /\ exposed' = IF Others(h) = {} THEN (exposed \ out) \ joins
                    ELSE (exposed \ out) \cup joins
  BY DEF Stored
<1>2. joins \subseteq Ids \X Players /\ \A p \in joins : p[1] = r.id /\ p[2] \in Joining(r)
  BY <1>0
<1>3. \A p \in seated : p[1] = r.id /\ p[2] \in Leaving(r) => p \in out
  <2> SUFFICES ASSUME NEW p \in seated, p[1] = r.id, p[2] \in Leaving(r) PROVE p \in out
    OBVIOUS
  <2>1. p = <<p[1], p[2]>>
    BY <1>0
  <2> HIDE DEF r
  <2> QED BY <2>1
<1> HIDE DEF r, out, joins
<1>4. seated' \subseteq Ids \X Players /\ exposed' \subseteq Ids \X Players
  BY <1>0, <1>1, <1>2
<1>5. \A p \in seated' : p \in seated \/ p[1] = r.id
  BY <1>1, <1>2
<1>6. ASSUME NEW p \in Sure'
      PROVE  \/ p \in Sure /\ ~(p[1] = r.id /\ p[2] \in Leaving(r))
             \/ Others(h) = {} /\ p[1] = r.id /\ p[2] \in Joining(r)
  <2>1. p \in seated' /\ p \notin exposed'
    BY DEF Sure
  <2>2. CASE p \in joins
    BY <1>1, <1>2, <2>1, <2>2
  <2>3. CASE p \notin joins
    <3>1. p \in seated /\ p \notin out /\ p \notin exposed
      BY <1>1, <2>1, <2>3
    <3> QED BY <1>3, <3>1 DEF Sure
  <2> QED BY <2>2, <2>3
<1> QED BY <1>4, <1>5, <1>6 DEF r

\* What a step did to the hand-offs: nothing, or it answered one.
Answers(h) ==
    \/ handling[h].pc = "save" /\ UNCHANGED <<handoffs, rivalled>>
    \/ /\ handling[h].pc # "save"
       /\ handoffs' = handoffs \cup {<<handling[h].id, handling[h].new>>}
       /\ rivalled' = IF \E g \in Others(h) : Copy(handling[g]).migration # 0
                      THEN rivalled \cup {<<handling[h].id, handling[h].new>>}
                      ELSE rivalled

LEMMA AnsweredSteers ==
    ASSUME PromiseInv, NEW h \in Handlers, Holds(handling[h]), Answers(h)
    PROVE  /\ handoffs' \subseteq Ids \X Ids /\ rivalled' \subseteq Ids \X Ids
           /\ \A p \in handoffs' : p \in handoffs \/ p[1] = handling[h].id
           /\ \A p \in Steered' :
                 \/ p \in Steered
                 \/ /\ handling[h].pc # "save"
                    /\ p[1] = handling[h].id /\ p[2] = handling[h].new
                    /\ \A g \in Others(h) : Copy(handling[g]).migration = 0
<1>1. handling[h].id \in Ids /\ (handling[h].pc # "save" => handling[h].new \in Ids)
  BY HeldTyped DEF PromiseInv, IInv, Migrating
<1>2. handoffs \subseteq Ids \X Ids /\ rivalled \subseteq Ids \X Ids
  BY DEF PromiseInv, Kept, PromisesTyped
<1>3. CASE handling[h].pc = "save"
  BY <1>2, <1>3 DEF Answers, Steered
<1>4. CASE handling[h].pc # "save"
  <2> DEFINE answer == <<handling[h].id, handling[h].new>>
  <2>1. answer \in Ids \X Ids /\ answer[1] = handling[h].id /\ answer[2] = handling[h].new
    BY <1>1, <1>4
  <2>2. /\ handoffs' = handoffs \cup {answer}
        /\ rivalled' = IF \E g \in Others(h) : Copy(handling[g]).migration # 0
                       THEN rivalled \cup {answer} ELSE rivalled
    BY <1>4 DEF Answers
  <2> HIDE DEF answer
  <2> QED BY <1>2, <1>4, <2>1, <2>2 DEF Steered
<1> QED BY <1>3, <1>4

(* A copy is saved over its session, and its request is answered. *)
LEMMA StoredKeeps ==
    ASSUME PromiseInv, NEW h \in Handlers, Holds(handling[h]),
           Put(handling[h].id, Copy(handling[h])), Goto(h, Idle), Stored(h), Answers(h),
           persisted' = persisted \cup {handling[h].id}
    PROVE  Kept' /\ Aware' /\ Ahead'
<1> DEFINE r == handling[h]
<1>0. TypeOK /\ ~Holds(Idle)
  BY DEF PromiseInv, IInv, Holds, Idle
<1>1. /\ r.id \in Ids /\ Copy(r) \in Doc
      /\ r.pc # "save" => r \in Migrating /\ r.oldDoc.migration = r.new /\ r.new # 0
  <2>1. r.pc # "save" => r \in Migrating /\ r.pc \in {"saveNew", "saveOld"}
    BY <1>0, HeldTyped DEF Holds
  <2>2. r.pc # "save" => r.oldDoc.migration = r.new
    BY <2>1 DEF PromiseInv, IInv, MigrationsForward
  <2> QED BY <1>0, <2>1, <2>2, HeldTyped, SessionsAssumption DEF Migrating, Ids
<1>2. /\ sessions'[r.id] # NoDoc
      /\ sessions'[r.id].members = Copy(r).members
      /\ Copy(r).migration # 0 => sessions'[r.id].migration = Copy(r).migration
      /\ Copy(r).migration = 0 /\ Found(r.id) =>
            sessions'[r.id].migration = sessions[r.id].migration
      /\ \A i \in Ids : i # r.id => sessions'[i] = sessions[i]
  BY <1>0, <1>1, PutStores
<1>3. \A g \in Handlers : handling'[g] = IF g = h THEN Idle ELSE handling[g]
  BY <1>0 DEF Goto, TypeOK
<1>4. Knows(r, Sure, Steered)
  BY DEF PromiseInv, Aware
<1>5. Copy(r).migration = IF r.pc = "save" THEN r.doc.migration ELSE r.new
  BY <1>1 DEF Copy
<1>6. overtaken' = (overtaken \ {h}) \cup Others(h)
  BY DEF Stored
<1>7. /\ seated' \subseteq Ids \X Players /\ exposed' \subseteq Ids \X Players
      /\ \A p \in seated' : p \in seated \/ p[1] = r.id
      /\ \A p \in Sure' :
            \/ p \in Sure /\ ~(p[1] = r.id /\ p[2] \in Leaving(r))
            \/ Others(h) = {} /\ p[1] = r.id /\ p[2] \in Joining(r)
  BY StoredSeats
<1>8. /\ handoffs' \subseteq Ids \X Ids /\ rivalled' \subseteq Ids \X Ids
      /\ \A p \in handoffs' : p \in handoffs \/ p[1] = r.id
      /\ \A p \in Steered' :
            \/ p \in Steered
            \/ /\ r.pc # "save" /\ p[1] = r.id /\ p[2] = r.new
               /\ \A g \in Others(h) : Copy(handling[g]).migration = 0
  BY AnsweredSteers
<1>9. \A g \in Handlers \ {h} : Holds(handling[g]) =>
          /\ handling[g].id \in Ids
          /\ handling[g].id = r.id => g \in Others(h)
          /\ handling[g].pc # "save" => Copy(handling[g]).migration # 0
  <2> SUFFICES ASSUME NEW g \in Handlers \ {h}, Holds(handling[g])
               PROVE  /\ handling[g].id \in Ids
                      /\ handling[g].id = r.id => g \in Others(h)
                      /\ handling[g].pc # "save" => Copy(handling[g]).migration # 0
    OBVIOUS
  <2>1. handling[g].id \in Ids /\ (handling[g].pc # "save" => handling[g] \in Migrating)
    BY <1>0, HeldTyped
  <2>2. handling[g].pc # "save" => handling[g].oldDoc.migration = handling[g].new
    BY DEF PromiseInv, IInv, MigrationsForward, Holds
  <2>3. handling[g].pc # "save" => Copy(handling[g]).migration # 0
    BY <2>1, <2>2, SessionsAssumption DEF Copy, Migrating, Ids
  <2> QED BY <2>1, <2>3 DEF Others
<1> HIDE DEF r
<1>10. PromisesTyped' /\ SeatsKnown'
  BY <1>7, <1>8 DEF PromisesTyped, SeatsKnown, PromiseInv, Kept, r
<1>11. HandOffsStored'
  <2> SUFFICES ASSUME NEW p \in handoffs' PROVE sessions'[p[1]] # NoDoc
    BY DEF HandOffsStored, Found
  <2>1. p[1] \in Ids
    BY <1>8
  <2> QED BY <1>2, <1>8, <2>1 DEF PromiseInv, Kept, HandOffsStored, Found
<1>12. OnlyExposedJoinsLost'
  <2> SUFFICES ASSUME NEW p \in Sure', sessions'[p[1]] # NoDoc
               PROVE  p[2] \in sessions'[p[1]].members
    BY DEF OnlyExposedJoinsLost, Sure, Found
  <2>1. p[1] \in Ids
    BY <1>7 DEF Sure
  <2>2. CASE p[1] = r.id
    <3>1. p[2] \in Copy(r).members
      BY <1>4, <1>7, <2>2 DEF Knows, KnowsSeats, Of
    <3> QED BY <1>2, <2>2, <3>1
  <2>3. CASE p[1] # r.id
    BY <1>2, <1>7, <2>1, <2>3 DEF PromiseInv, Kept, OnlyExposedJoinsLost, Sure, Found
  <2> QED BY <2>2, <2>3
<1>13. OnlyRivalledHandOffsLost'
  <2> SUFFICES ASSUME NEW p \in Steered'
               PROVE  sessions'[p[1]].migration = p[2]
    BY DEF OnlyRivalledHandOffsLost, Steered
  <2>1. p[1] \in Ids
    BY <1>8 DEF Steered
  <2>2. CASE p[1] # r.id
    BY <1>2, <1>8, <2>1, <2>2 DEF PromiseInv, Kept, OnlyRivalledHandOffsLost,
                                  HandOffsStored, Steered, Found
  <2>3. CASE p[1] = r.id /\ p \in Steered
    <3>1. r.pc = "save" /\ Copy(r).migration \in {0, p[2]}
      BY <1>4, <2>3 DEF Knows, KnowsHandOffs, Of
    <3>2. Found(r.id) /\ sessions[r.id].migration = p[2]
      BY <2>3 DEF PromiseInv, Kept, OnlyRivalledHandOffsLost, HandOffsStored, Steered
    <3> QED BY <1>2, <2>3, <3>1, <3>2
  <2>4. CASE p[1] = r.id /\ r.pc # "save" /\ p[2] = r.new
    BY <1>1, <1>2, <1>5, <2>4
  <2> QED BY <1>8, <2>2, <2>3, <2>4
<1>14. Aware'
  <2> SUFFICES ASSUME NEW g \in Handlers \ {h}, Holds(handling[g])
               PROVE  Knows(handling[g], Sure', Steered')
    BY <1>0, <1>3 DEF Aware
  <2>1. Knows(handling[g], Sure, Steered)
    BY DEF PromiseInv, Aware
  <2>2. ASSUME NEW p \in Of(handling[g].id, Sure')
        PROVE  p \in Of(handling[g].id, Sure)
    BY <1>7, <1>9, <2>2 DEF Of
  <2>3. ASSUME NEW p \in Of(handling[g].id, Steered')
        PROVE  \/ p \in Of(handling[g].id, Steered)
               \/ handling[g].pc = "save" /\ Copy(handling[g]).migration = 0
    BY <1>8, <1>9, <2>3 DEF Of
  <2>4. KnowsSeats(handling[g], Sure')
    BY <2>1, <2>2 DEF Knows, KnowsSeats
  <2>5. KnowsHandOffs(handling[g], Steered')
    BY <2>1, <2>3 DEF Knows, KnowsHandOffs
  <2> QED BY <2>4, <2>5 DEF Knows
<1>15. Ahead'
  <2> SUFFICES ASSUME NEW g \in Handlers \ {h}, Holds(handling[g]), g \notin overtaken',
                      sessions'[handling[g].id] # NoDoc
               PROVE  Extends(sessions'[handling[g].id], Copy(handling[g]))
    BY <1>0, <1>3 DEF Ahead, Found
  <2>1. g \notin overtaken /\ handling[g].id # r.id
    BY <1>6, <1>9
  <2>2. sessions'[handling[g].id] = sessions[handling[g].id]
    BY <1>2, <1>9, <2>1
  <2> QED BY <2>1, <2>2 DEF PromiseInv, Ahead, Found
<1> QED BY <1>10, <1>11, <1>12, <1>13, <1>14, <1>15 DEF Kept

(* The first save of a migration: the players come along. *)
LEMMA SaveNewKeeps ==
    ASSUME PromiseInv, NEW h \in Handlers, PSaveNew(h)
    PROVE  Kept' /\ Aware' /\ Ahead'
<1> DEFINE r == handling[h]
<1>0. TypeOK
  BY DEF PromiseInv, IInv
<1>1. r \in Migrating /\ r.pc = "saveNew" /\ Holds(r)
  BY <1>0, RequestByPc DEF PSaveNew, SaveNew, TypeOK, Holds
<1>2. r.id \in Ids /\ r.new \in Ids /\ r.newDoc \in Doc /\ r.oldDoc \in Doc
  BY <1>1 DEF Migrating
<1>3. /\ r.new \notin persisted /\ ~Found(r.new)
      /\ \A p \in seated : p[1] # r.new
      /\ \A p \in handoffs : p[1] # r.new
  BY <1>1, <1>2 DEF PromiseInv, NewIds, StoredKnown, DrawnApart, Migrates, Kept,
                    SeatsKnown, HandOffsStored
<1>4. \A g \in Handlers : Holds(handling[g]) =>
          handling[g].id # r.new /\ handling[g].id \in Ids
  BY <1>0, <1>3, HeldTyped DEF PromiseInv, NewIds, HeldKnown
<1>5. /\ Put(r.new, r.newDoc) /\ persisted' = persisted \cup {r.new}
      /\ handling' = [handling EXCEPT ![h].pc = "saveOld"]
      /\ seated' = seated \cup Along(r, seated)
      /\ exposed' = exposed \cup Along(r, exposed)
      /\ UNCHANGED <<handoffs, rivalled, overtaken>>
  BY DEF PSaveNew, SaveNew
<1>6. \A g \in Handlers : g # h => handling'[g] = handling[g]
  BY <1>0, <1>5 DEF TypeOK
<1>7. /\ handling'[h].id = r.id /\ handling'[h].new = r.new /\ handling'[h].pc = "saveOld"
      /\ handling'[h].oldDoc = r.oldDoc /\ handling'[h].newDoc = r.newDoc
  BY <1>0, <1>1, <1>5 DEF TypeOK, Migrating
<1>8. /\ sessions'[r.new] # NoDoc /\ sessions'[r.new].members = r.newDoc.members
      /\ \A i \in Ids : i # r.new => sessions'[i] = sessions[i]
  BY <1>0, <1>2, <1>5, PutStores
<1>9. /\ r.newDoc.members = r.oldDoc.members
      /\ \A p \in Of(r.id, Sure) : p[2] \in r.oldDoc.members \cup {r.oldDoc.host}
  BY <1>1 DEF PromiseInv, Aware, Knows, KnowsSeats, Copy, Leaving
<1>10. seated \subseteq Ids \X Players /\ exposed \subseteq Ids \X Players
  BY DEF PromiseInv, Kept, PromisesTyped
<1> HIDE DEF r
<1>11. ASSUME NEW pairs, pairs \subseteq Ids \X Players
       PROVE  /\ Along(r, pairs) \subseteq Ids \X Players
              /\ \A p \in Along(r, pairs) : p[1] = r.new /\ p[2] # r.oldDoc.host
                                            /\ <<r.id, p[2]>> \in pairs
              /\ \A x : <<r.id, x>> \in pairs /\ x # r.oldDoc.host =>
                            <<r.new, x>> \in Along(r, pairs)
  <2>1. \A q \in Of(r.id, pairs) : q = <<r.id, q[2]>> /\ q[2] \in Players
    BY <1>11 DEF Of
  <2>2. \A p \in Along(r, pairs) : \E q \in Of(r.id, pairs) :
            p = <<r.new, q[2]>> /\ q[2] # r.oldDoc.host
    BY DEF Along
  <2>3. ASSUME NEW x, <<r.id, x>> \in pairs, x # r.oldDoc.host
        PROVE  <<r.new, x>> \in Along(r, pairs)
    <3> DEFINE q == <<r.id, x>>
    <3>1. q \in Of(r.id, pairs) /\ q[2] = x
      BY <2>3 DEF Of
    <3> HIDE DEF q
    <3> QED BY <2>3, <3>1 DEF Along
  <2>4. \A p \in Along(r, pairs) : /\ p \in Ids \X Players
                                   /\ p[1] = r.new /\ p[2] # r.oldDoc.host
                                   /\ <<r.id, p[2]>> \in pairs
    BY <1>2, <2>1, <2>2 DEF Of
  <2> QED BY <2>3, <2>4
<1>12. \A p \in Sure' : \/ p \in Sure
                        \/ p[1] = r.new /\ p[2] \in r.newDoc.members
  <2> SUFFICES ASSUME NEW p \in Sure', p \notin Sure
               PROVE  p[1] = r.new /\ p[2] \in r.newDoc.members
    OBVIOUS
  <2>1. p \in Along(r, seated) /\ p \notin Along(r, exposed)
    BY <1>5 DEF Sure
  <2>2. /\ p[1] = r.new /\ p[2] # r.oldDoc.host /\ <<r.id, p[2]>> \in seated
        /\ p = <<p[1], p[2]>>
    BY <1>10, <1>11, <2>1
  <2>3. <<r.id, p[2]>> \notin exposed
    BY <1>10, <1>11, <2>1, <2>2
  <2> DEFINE q == <<r.id, p[2]>>
  <2>4. q \in Of(r.id, Sure) /\ q[2] = p[2]
    BY <2>2, <2>3 DEF Of, Sure
  <2> HIDE DEF q
  <2> QED BY <1>9, <2>2, <2>4
<1>13. \A p \in seated' : p \in seated \/ p[1] = r.new
  BY <1>5, <1>10, <1>11
<1>14. PromisesTyped' /\ SeatsKnown'
  BY <1>5, <1>10, <1>11, <1>13 DEF PromisesTyped, SeatsKnown, PromiseInv, Kept
<1>15. OnlyExposedJoinsLost'
  <2> SUFFICES ASSUME NEW p \in Sure', sessions'[p[1]] # NoDoc
               PROVE  p[2] \in sessions'[p[1]].members
    BY DEF OnlyExposedJoinsLost, Sure, Found
  <2>1. CASE p \in Sure
    <3>1. p[1] \in Ids /\ p[1] # r.new
      BY <1>3, <1>10, <2>1 DEF Sure
    <3> QED BY <1>8, <2>1, <3>1 DEF PromiseInv, Kept, OnlyExposedJoinsLost, Sure, Found
  <2>2. CASE p \notin Sure
    BY <1>8, <1>12, <2>2
  <2> QED BY <2>1, <2>2
<1>16. OnlyRivalledHandOffsLost' /\ HandOffsStored'
  <2>1. \A p \in handoffs : p[1] \in Ids /\ sessions'[p[1]] = sessions[p[1]]
    BY <1>3, <1>8 DEF PromiseInv, Kept, PromisesTyped
  <2> QED BY <1>5, <2>1 DEF PromiseInv, Kept, OnlyRivalledHandOffsLost, HandOffsStored, Found
<1>17. Steered' = Steered
  BY <1>5 DEF Steered
<1>18. ASSUME NEW q, Knows(q, Sure, Steered), q.id # r.new
       PROVE  Knows(q, Sure', Steered')
  <2>1. Of(q.id, Sure') \subseteq Of(q.id, Sure)
    BY <1>12, <1>18 DEF Of
  <2>2. KnowsSeats(q, Sure')
    BY <1>18, <2>1 DEF Knows, KnowsSeats
  <2> QED BY <1>17, <1>18, <2>2 DEF Knows
<1>19. Aware'
  <2> SUFFICES ASSUME NEW g \in Handlers, Holds(handling'[g])
               PROVE  Knows(handling'[g], Sure', Steered')
    BY DEF Aware
  <2>1. CASE g # h
    BY <1>4, <1>6, <1>18, <2>1 DEF PromiseInv, Aware
  <2>2. CASE g = h
    <3>1. Knows(r, Sure', Steered')
      BY <1>1, <1>4, <1>18 DEF PromiseInv, Aware, r
    <3>2. /\ Copy(handling'[h]) = r.oldDoc /\ Leaving(handling'[h]) = {r.oldDoc.host}
          /\ Joining(handling'[h]) = {}
          /\ Copy(r) = r.oldDoc /\ Leaving(r) = {r.oldDoc.host}
      BY <1>1, <1>7 DEF Copy, Leaving, Joining
    <3>3. KnowsSeats(handling'[h], Sure')
      BY <1>7, <1>9, <3>1, <3>2 DEF Knows, KnowsSeats
    <3>4. KnowsHandOffs(handling'[h], Steered')
      BY <1>1, <1>7, <3>1, <3>2 DEF Knows, KnowsHandOffs
    <3> QED BY <2>2, <3>3, <3>4 DEF Knows
  <2> QED BY <2>1, <2>2
<1>20. Ahead'
  <2> SUFFICES ASSUME NEW g \in Handlers, Holds(handling'[g]), g \notin overtaken,
                      sessions'[handling'[g].id] # NoDoc
               PROVE  Extends(sessions'[handling'[g].id], Copy(handling'[g]))
    BY <1>5 DEF Ahead, Found
  <2>1. /\ Holds(handling[g]) /\ handling'[g].id = handling[g].id
        /\ Copy(handling'[g]) = Copy(handling[g])
    BY <1>1, <1>6, <1>7 DEF Holds, Copy, r
  <2>2. sessions'[handling[g].id] = sessions[handling[g].id]
    BY <1>4, <1>8, <2>1
  <2> QED BY <2>1, <2>2 DEF PromiseInv, Ahead, Found
<1> QED BY <1>14, <1>15, <1>16, <1>19, <1>20 DEF Kept

(* The second read of a deletion. *)
LEMMA SoftDeleteKeeps ==
    ASSUME PromiseInv, NEW h \in Handlers, SoftDelete(h), UNCHANGED promises
    PROVE  Kept' /\ Aware' /\ Ahead'
<1> DEFINE id == handling[h].id
           doc == Deleted(sessions[id])
<1>0. TypeOK /\ ~Holds(Idle)
  BY DEF PromiseInv, IInv, Holds, Idle
<1>1. id \in Ids
  BY <1>0, RequestByPc DEF SoftDelete, TypeOK, Authorized
<1>2. CASE ~Found(id)
  BY <1>0, <1>2, MoveKeeps DEF SoftDelete, promises
<1>3. CASE Found(id)
  <2>1. /\ Goto(h, [pc |-> "save", op |-> "other", id |-> id, doc |-> doc, who |-> {}])
        /\ UNCHANGED <<sessions, persisted, promises>>
    BY <1>3 DEF SoftDelete
  <2>2. CopyOf(id, "other", doc, {})
    BY <1>0, <1>1, <1>3, FoundType, OperationsKeep, OperationsExtend DEF CopyOf
  <2> HIDE DEF id, doc
  <2> QED BY <1>1, <1>3, <2>1, <2>2, CopyKeeps
<1> QED BY <1>2, <1>3

(* A copy that is dropped, by a failure or when the server stops. *)
LEMMA DroppedKeeps ==
    ASSUME PromiseInv, PCrash \/ \E h \in Handlers : PFail(h)
    PROVE  Kept' /\ Aware' /\ Ahead'
<1>0. ~Holds(Idle)
  BY DEF Holds, Idle
<1>1. CASE PCrash
  <2>1. /\ \A g \in Handlers : handling'[g] = Idle
        /\ UNCHANGED <<sessions, persisted, seated, exposed, handoffs, rivalled>>
    BY <1>1 DEF PCrash, Crash
  <2>2. Kept'
    BY <2>1 DEF PromiseInv, Kept, PromisesTyped, SeatsKnown, HandOffsStored,
                OnlyExposedJoinsLost, OnlyRivalledHandOffsLost, Found
  <2> QED BY <1>0, <2>1, <2>2 DEF Aware, Ahead
<1>2. ASSUME NEW h \in Handlers, PFail(h) PROVE Kept' /\ Aware' /\ Ahead'
  BY <1>0, <1>2, MoveKeeps DEF PFail, Fail
<1> QED BY <1>1, <1>2

\* Nothing is promised anew, and no request reads a session.
Fewer ==
    /\ Sure' \subseteq Sure /\ Steered' \subseteq Steered
    /\ \A g \in Handlers : Holds(handling'[g]) => handling'[g] = handling[g]

LEMMA FewerAware ==
    ASSUME Aware, Fewer
    PROVE  Aware'
<1> SUFFICES ASSUME NEW g \in Handlers, Holds(handling'[g])
             PROVE  Knows(handling'[g], Sure', Steered')
  BY DEF Aware
<1>1. Knows(handling[g], Sure, Steered) /\ handling'[g] = handling[g]
  BY DEF Aware, Fewer
<1>2. Sure' \subseteq Sure /\ Steered' \subseteq Steered
  BY DEF Fewer
<1>3. KnowsSeats(handling[g], Sure')
  BY <1>1, <1>2 DEF Knows, KnowsSeats, Of
<1>4. KnowsHandOffs(handling[g], Steered')
  BY <1>1, <1>2 DEF Knows, KnowsHandOffs, Of
<1> QED BY <1>1, <1>3, <1>4 DEF Knows

(* A document goes, and what was promised about it. *)
LEMMA RemovalKeeps ==
    ASSUME PromiseInv, PRemoval
    PROVE  Kept' /\ Aware' /\ Ahead'
<1>0. TypeOK /\ ~Holds(Idle)
  BY DEF PromiseInv, IInv, Holds, Idle
<1>1. PICK id \in Ids :
        /\ Expire(id) \/ \E h \in Handlers : HardDelete(h, id)
        /\ seated' = seated \ Of(id, seated) /\ exposed' = exposed \ Of(id, exposed)
        /\ handoffs' = handoffs \ Of(id, handoffs)
        /\ rivalled' = rivalled \ Of(id, rivalled)
        /\ UNCHANGED overtaken
  BY DEF PRemoval
<1>2. /\ \A i \in Ids : sessions'[i] = IF i = id THEN NoDoc ELSE sessions[i]
      /\ UNCHANGED persisted
  BY <1>0, <1>1 DEF Expire, HardDelete, Remove, TypeOK
<1>3. \A g \in Handlers : Holds(handling'[g]) => handling'[g] = handling[g]
  <2>1. CASE UNCHANGED handling
    BY <2>1
  <2>2. ASSUME NEW h \in Handlers, HardDelete(h, id)
        PROVE  \A g \in Handlers : Holds(handling'[g]) => handling'[g] = handling[g]
    <3> DEFINE rest == handling[h].ids \ {id}
               request == IF rest = {} THEN Idle ELSE [pc |-> "purge", ids |-> rest]
    <3>1. ~Holds(request)
      BY <1>0 DEF Holds
    <3>2. handling' = [handling EXCEPT ![h] = request]
      BY <2>2 DEF HardDelete, Goto
    <3> HIDE DEF request
    <3> QED BY <1>0, <3>1, <3>2 DEF TypeOK
  <2> QED BY <1>1, <2>1, <2>2 DEF Expire
<1>4. /\ \A p \in seated' : p \in seated /\ p[1] # id
      /\ \A p \in handoffs' : p \in handoffs /\ p[1] # id
      /\ exposed' \subseteq exposed /\ rivalled' \subseteq rivalled
  BY <1>1 DEF Of
<1>5. /\ \A p \in Sure' : p \in Sure /\ p[1] # id
      /\ \A p \in Steered' : p \in Steered /\ p[1] # id
  BY <1>1 DEF Sure, Steered, Of
<1>6. PromisesTyped /\ PromisesTyped'
  BY <1>4 DEF PromiseInv, Kept, PromisesTyped
<1>7. SeatsKnown' /\ HandOffsStored'
  <2>1. \A p \in handoffs' : p[1] \in Ids
    BY <1>6 DEF PromisesTyped
  <2> QED BY <1>2, <1>4, <2>1 DEF PromiseInv, Kept, SeatsKnown, HandOffsStored, Found
<1>8. OnlyExposedJoinsLost'
  <2> SUFFICES ASSUME NEW p \in Sure', sessions'[p[1]] # NoDoc
               PROVE  p[2] \in sessions'[p[1]].members
    BY DEF OnlyExposedJoinsLost, Sure, Found
  <2>1. p[1] \in Ids
    BY <1>6 DEF PromisesTyped, Sure
  <2> QED BY <1>2, <1>5, <2>1 DEF PromiseInv, Kept, OnlyExposedJoinsLost, Sure, Found
<1>9. OnlyRivalledHandOffsLost'
  <2> SUFFICES ASSUME NEW p \in Steered', sessions'[p[1]] # NoDoc
               PROVE  sessions'[p[1]].migration = p[2]
    BY DEF OnlyRivalledHandOffsLost, Steered, Found
  <2>1. p[1] \in Ids
    BY <1>6 DEF PromisesTyped, Steered
  <2> QED BY <1>2, <1>5, <2>1 DEF PromiseInv, Kept, OnlyRivalledHandOffsLost, Steered, Found
<1>10. Aware'
  BY <1>3, <1>5, FewerAware DEF Fewer, PromiseInv
<1>11. Ahead'
  <2> SUFFICES ASSUME NEW g \in Handlers, Holds(handling'[g]), g \notin overtaken',
                      sessions'[handling'[g].id] # NoDoc
               PROVE  Extends(sessions'[handling'[g].id], Copy(handling'[g]))
    BY DEF Ahead, Found
  <2>1. handling'[g] = handling[g] /\ handling[g].id \in Ids
    BY <1>0, <1>3, HeldTyped
  <2> QED BY <1>1, <1>2, <2>1 DEF PromiseInv, Ahead, Found
<1> QED BY <1>6, <1>7, <1>8, <1>9, <1>10, <1>11 DEF Kept

(* A session is created anew: its players go, its pointer stays. *)
LEMMA CreateKeeps ==
    ASSUME PromiseInv, NEW id \in ClientIds, NEW mac \in Macs, NEW host \in Hosts,
           NEW flags \in Flags, PCreate(id, mac, host, flags)
    PROVE  Kept' /\ Aware' /\ Ahead'
<1> DEFINE doc == Created(mac, host, flags)
<1>0. TypeOK
  BY DEF PromiseInv, IInv
<1>1. id \in Ids /\ doc \in Doc /\ doc.migration = 0
  BY SessionsAssumption DEF ClientIds, Ids, Created, Doc
<1>2. /\ Put(id, doc) /\ persisted' = persisted \cup {id} /\ UNCHANGED handling
      /\ seated' = seated \ Of(id, seated) /\ exposed' = exposed \ Of(id, exposed)
      /\ UNCHANGED <<handoffs, rivalled, overtaken>>
  BY DEF PCreate, Create
<1>3. /\ sessions'[id] = Upsert(sessions[id], doc)
      /\ sessions[id] \in Doc \cup {NoDoc}
  BY <1>0, <1>1, <1>2 DEF Put, TypeOK
<1>4. /\ sessions'[id] # NoDoc
      /\ Found(id) => sessions'[id].migration = sessions[id].migration
      /\ \A i \in Ids : i # id => sessions'[i] = sessions[i]
  BY <1>0, <1>1, <1>2, PutStores
<1>5. \A stale \in Doc : (Found(id) => Extends(sessions[id], stale)) =>
                             Extends(sessions'[id], stale)
  BY <1>3, CreatedBehind DEF Found
<1> HIDE DEF doc
<1>6. /\ \A p \in seated' : p \in seated /\ p[1] # id
      /\ exposed' \subseteq exposed
      /\ \A p \in Sure' : p \in Sure /\ p[1] # id
      /\ Steered' = Steered
  BY <1>2 DEF Sure, Steered, Of
<1>7. PromisesTyped /\ PromisesTyped'
  BY <1>2, <1>6 DEF PromiseInv, Kept, PromisesTyped
<1>8. SeatsKnown' /\ HandOffsStored'
  <2>1. \A p \in handoffs : p[1] \in Ids
    BY <1>7 DEF PromisesTyped
  <2> QED BY <1>2, <1>4, <1>6, <2>1 DEF PromiseInv, Kept, SeatsKnown, HandOffsStored, Found
<1>9. OnlyExposedJoinsLost'
  <2> SUFFICES ASSUME NEW p \in Sure', sessions'[p[1]] # NoDoc
               PROVE  p[2] \in sessions'[p[1]].members
    BY DEF OnlyExposedJoinsLost, Sure, Found
  <2>1. p[1] \in Ids
    BY <1>7 DEF PromisesTyped, Sure
  <2> QED BY <1>4, <1>6, <2>1 DEF PromiseInv, Kept, OnlyExposedJoinsLost, Sure, Found
<1>10. OnlyRivalledHandOffsLost'
  <2> SUFFICES ASSUME NEW p \in Steered
               PROVE  sessions'[p[1]].migration = p[2]
    BY <1>6 DEF OnlyRivalledHandOffsLost, Steered
  <2>1. p[1] \in Ids /\ Found(p[1]) /\ sessions[p[1]].migration = p[2]
    BY <1>7 DEF PromisesTyped, Steered, PromiseInv, Kept, HandOffsStored,
                OnlyRivalledHandOffsLost
  <2> QED BY <1>4, <2>1
<1>11. Aware'
  BY <1>2, <1>6, FewerAware DEF Fewer, PromiseInv
<1>12. Ahead'
  <2> SUFFICES ASSUME NEW g \in Handlers, Holds(handling[g]), g \notin overtaken,
                      sessions'[handling[g].id] # NoDoc
               PROVE  Extends(sessions'[handling[g].id], Copy(handling[g]))
    BY <1>2 DEF Ahead, Found
  <2>1. handling[g].id \in Ids /\ Copy(handling[g]) \in Doc
    BY <1>0, HeldTyped
  <2>2. Found(handling[g].id) => Extends(sessions[handling[g].id], Copy(handling[g]))
    BY DEF PromiseInv, Ahead
  <2>3. CASE handling[g].id = id
    BY <1>5, <2>1, <2>2, <2>3
  <2>4. CASE handling[g].id # id
    BY <1>4, <2>1, <2>2, <2>4 DEF Found
  <2> QED BY <2>3, <2>4
<1> QED BY <1>7, <1>8, <1>9, <1>10, <1>11, <1>12 DEF Kept

LEMMA SaveKeeps ==
    ASSUME PromiseInv, NEW h \in Handlers, PSave(h) \/ PSaveOld(h)
    PROVE  Kept' /\ Aware' /\ Ahead'
<1>1. CASE PSave(h)
  <2>1. Holds(handling[h]) /\ Copy(handling[h]) = handling[h].doc /\ Answers(h)
    BY <1>1 DEF PSave, Save, Holds, Copy, Answers
  <2> QED BY <1>1, <2>1, StoredKeeps DEF PSave, Save
<1>2. CASE PSaveOld(h)
  <2>1. Holds(handling[h]) /\ Copy(handling[h]) = handling[h].oldDoc /\ Answers(h)
    BY <1>2 DEF PSaveOld, SaveOld, Holds, Copy, Answers
  <2> QED BY <1>2, <2>1, StoredKeeps DEF PSaveOld, SaveOld
<1> QED BY <1>1, <1>2

LEMMA StayKeeps ==
    ASSUME PromiseInv, UNCHANGED <<sessions, handling, persisted, promises>>
    PROVE  Kept' /\ Aware' /\ Ahead'
BY DEF promises, PromiseInv, Kept, PromisesTyped, SeatsKnown, HandOffsStored,
       OnlyExposedJoinsLost, OnlyRivalledHandOffsLost, Found, Sure, Steered, Aware, Ahead

LEMMA PromiseInductive == PromiseInv /\ [PNext]_<<vars, promises>> => PromiseInv'
<1> SUFFICES ASSUME PromiseInv, [PNext]_<<vars, promises>> PROVE PromiseInv'
  OBVIOUS
<1>1. IInv' /\ NewIds'
  BY PromiseStepIsStep, ForwardInductive, NewIdsInductive DEF PromiseInv
<1>2. ASSUME UNCHANGED <<vars, promises>> PROVE Kept' /\ Aware' /\ Ahead'
  BY <1>2, StayKeeps DEF vars
<1>3. ASSUME POther PROVE Kept' /\ Aware' /\ Ahead'
  <2>1. ASSUME NEW r \in Readers, Reader(r), UNCHANGED promises
        PROVE  Kept' /\ Aware' /\ Ahead'
    BY <2>1, StayKeeps DEF Reader, StartWalk, Step, EndWalk
  <2> QED BY <1>3, <2>1, FinderKeeps, SoftDeleteKeeps DEF POther
<1>4. Kept' /\ Aware' /\ Ahead'
  BY <1>2, <1>3, CreateKeeps, SaveKeeps, SaveNewKeeps, RemovalKeeps, DroppedKeeps DEF PNext
<1> QED BY <1>1, <1>4 DEF PromiseInv

LEMMA PromisesAlways == PSpec => []PromiseInv
<1>1. PInit => PromiseInv
  <2> SUFFICES ASSUME PInit PROVE PromiseInv
    OBVIOUS
  <2>1. Init /\ promises = <<{}, {}, {}, {}, {}>>
    BY DEF PInit, promises
  <2>2. IInv
    BY <2>1, ForwardInit
  <2>3. /\ \A h \in Handlers : handling[h] = Idle
        /\ \A i \in Ids : ~Found(i)
        /\ persisted = {}
    BY <2>1 DEF Init, Found
  <2>4. \A h \in Handlers : ~Holds(handling[h]) /\ ~Migrates(handling[h])
    <3>1. Idle.pc = "idle"
      BY DEF Idle
    <3> QED BY <2>3, <3>1 DEF Holds, Migrates
  <2>5. NewIds
    BY <2>3, <2>4 DEF NewIds, StoredKnown, HeldKnown, PersistedDrawn, DrawnApart
  <2>6. Aware /\ Ahead
    BY <2>4 DEF Aware, Ahead
  <2>7. Kept
    BY DEF PInit, Kept, PromisesTyped, SeatsKnown, HandOffsStored,
           OnlyExposedJoinsLost, OnlyRivalledHandOffsLost
  <2> QED BY <2>2, <2>5, <2>6, <2>7 DEF PromiseInv
<1> QED BY <1>1, PromiseInductive, PTL DEF PSpec

-----------------------------------------------------------------------------
(* A player whose join was answered while no other request held a copy of the
   session stays in its player list until that player leaves or the session
   goes, and moves along when the session does: no stale copy that is saved
   later, no failure and no crash unseats it. *)
THEOREM JoinsAreKept == PSpec => []OnlyExposedJoinsLost
<1>1. PromiseInv => OnlyExposedJoinsLost
  BY DEF PromiseInv, Kept
<1> QED BY <1>1, PromisesAlways, PTL

(* Whoever was answered with a new session is steered there by the old one as
   long as its document exists, unless the answer was given while another
   migration of the session, or a copy that knew of one, was on its way. *)
THEOREM HandOffsAreFollowed == PSpec => []OnlyRivalledHandOffsLost
<1>1. PromiseInv => OnlyRivalledHandOffsLost
  BY DEF PromiseInv, Kept
<1> QED BY <1>1, PromisesAlways, PTL

\* What OnlyOvertakenTakeBack says of a step.
Backward(i) ==
    (Found(i) /\ sessions'[i] # NoDoc /\ TakenBack(sessions[i], sessions'[i])) =>
        \/ \E mac \in Macs, host \in Hosts, flags \in Flags : Create(i, mac, host, flags)
        \/ \E h \in overtaken : handling[h].id = i /\ (Save(h) \/ SaveOld(h))

LEMMA StepTakesNothing ==
    ASSUME PromiseInv, [PNext]_<<vars, promises>>, NEW i \in Ids
    PROVE  Backward(i)
<1>0. TypeOK /\ (Found(i) => sessions[i] \in Doc)
  BY FoundType DEF PromiseInv, IInv
<1>1. CASE sessions'[i] = sessions[i]
  BY <1>0, <1>1, ExtendsItself DEF Backward, Extends
<1>2. ASSUME NEW id \in ClientIds, NEW mac \in Macs, NEW host \in Hosts,
             NEW flags \in Flags, PCreate(id, mac, host, flags)
      PROVE  Backward(i)
  <2>1. CASE id = i
    BY <1>2, <2>1 DEF PCreate, Backward
  <2>2. CASE id # i
    BY <1>0, <1>1, <1>2, <2>2 DEF PCreate, Create, Put, TypeOK
  <2> QED BY <2>1, <2>2
<1>3. ASSUME NEW h \in Handlers, Save(h) \/ SaveOld(h)
      PROVE  Backward(i)
  <2>1. /\ Holds(handling[h]) /\ Put(handling[h].id, Copy(handling[h]))
        /\ handling[h].id \in Ids /\ Copy(handling[h]) \in Doc
    BY <1>0, <1>3, HeldTyped DEF Save, SaveOld, Holds, Copy
  <2>2. CASE handling[h].id # i
    BY <1>0, <1>1, <2>1, <2>2, PutStores
  <2>3. CASE handling[h].id = i /\ h \in overtaken
    BY <1>3, <2>3 DEF Backward
  <2>4. CASE handling[h].id = i /\ h \notin overtaken
    <3>1. Found(i) => Extends(sessions[i], Copy(handling[h]))
      BY <2>1, <2>4 DEF PromiseInv, Ahead
    <3>2. Found(i) => Extends(sessions[i], sessions'[i])
      BY <1>0, <2>1, <2>4, <3>1, PutStores
    <3> QED BY <3>2 DEF Backward, Extends
  <2> QED BY <2>2, <2>3, <2>4
<1>4. ASSUME NEW h \in Handlers, SaveNew(h) PROVE Backward(i)
  <2>1. /\ handling[h] \in Migrating /\ handling[h].pc = "saveNew"
        /\ handling[h].new \in Ids /\ handling[h].newDoc \in Doc
    BY <1>0, <1>4, RequestByPc DEF SaveNew, TypeOK, Migrating
  <2>2. ~Found(handling[h].new)
    BY <2>1 DEF PromiseInv, NewIds, StoredKnown, DrawnApart, Migrates
  <2>3. CASE handling[h].new = i
    BY <2>2, <2>3 DEF Backward
  <2>4. CASE handling[h].new # i
    BY <1>0, <1>1, <1>4, <2>1, <2>4, PutStores DEF SaveNew
  <2> QED BY <2>3, <2>4
<1>5. CASE PRemoval
  <2>1. PICK id \in Ids : Remove(id)
    BY <1>5 DEF PRemoval, Expire, HardDelete
  <2>2. sessions'[i] = IF i = id THEN NoDoc ELSE sessions[i]
    BY <1>0, <2>1 DEF Remove, TypeOK
  <2> QED BY <1>1, <2>2 DEF Backward
<1>6. CASE UNCHANGED sessions
  BY <1>1, <1>6
<1>7. CASE POther
  <2>1. UNCHANGED sessions
    BY <1>7 DEF POther, Finder, Join, Leave, Modify, AddContext, AddProperties, Read,
                Authorize, Migrate, FindConsoleSessions, SoftDelete, Reader, StartWalk,
                Step, EndWalk
  <2> QED BY <1>6, <2>1
<1>8. CASE PCrash \/ \E h \in Handlers : PFail(h)
  BY <1>6, <1>8 DEF PCrash, Crash, PFail, Fail
<1>9. CASE UNCHANGED <<vars, promises>>
  BY <1>6, <1>9 DEF vars
<1> QED BY <1>2, <1>3, <1>4, <1>5, <1>7, <1>8, <1>9 DEF PNext, PSave, PSaveOld, PSaveNew

(* A stored deletion, context or property key, or hand-off pointer is taken
   back only by a new CreateSession, a removal, or the save of a copy that
   another request's save has overtaken: not by a save that is merely late,
   nor by one over a session that expired or was created anew meanwhile. *)
THEOREM SavesOnlyAdd == PSpec => OnlyOvertakenTakeBack
<1>1. PromiseInv /\ [PNext]_<<vars, promises>> => \A i \in Ids : Backward(i)
  BY StepTakesNothing
<1> QED BY <1>1, PromisesAlways, PTL DEF PSpec, OnlyOvertakenTakeBack, Backward
=============================================================================
