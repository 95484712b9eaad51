-------------------------- MODULE SessionProperties --------------------------
(***************************************************************************)
(* The contexts and properties of one session: their wire form, the        *)
(* request that sets them, and the answer that lists them.                 *)
(*                                                                         *)
(* Clients send both in one buffer form.  A property is kept as it came; a *)
(* context is kept as a number by id and encoded again when it is listed   *)
(* or logged, with a signed write that rejects what an unsigned read let   *)
(* in.  The request looks the session up, logs (which throws when a value  *)
(* cannot be encoded or read) and then executes two commands; each command *)
(* is one step here, module Sessions has its find and save.                *)
(*                                                                         *)
(* A byte is a number below Base, which is 256 in the code.  Left out:     *)
(* base64, the columns of the log, ids with the sign bit (no context or    *)
(* property of XContext and XProperty has it).                             *)
(***************************************************************************)
EXTENDS Integers, Sequences, FiniteSets, SequencesExt, TLC, Lists

CONSTANTS
    Base,
    Entries,      \* the buffers that clients send
    Posted,       \* the contexts of POST /context: <<id, value>>
    PropCalls,    \* requests that may be in flight at the same time
    NoSuchSession

ASSUME SessionPropertiesAssumption ==
    /\ Base \in Nat \ {0, 1}
    /\ Entries \subseteq Seq(Nat)
    /\ Posted \subseteq Int \X Int

VARIABLES
    entry,      \* the session's context map and properties, or NoSuchSession
    setting,    \* what each request in flight is about to do
    unchecked   \* history: the ids of contexts that were stored with no log

propertiesVars == <<entry, setting, unchecked>>

-----------------------------------------------------------------------------
(* The wire form: 4 bytes of id, 8 of type, 8 of data or of padding and    *)
(* then the data.                                                          *)

Half == (Base * Base * Base * Base) \div 2

\* X_USER_DATA_TYPE
CONTEXT == 0
INT32 == 1
INT64 == 2
DOUBLE == 3
WSTRING == 4
FLOAT == 5
BINARY == 6
DATETIME == 7

\* writeInt32BE; writeInt32LE is its reverse.
BigEndian(v) ==
    << ((v \div Base) \div Base) \div Base, ((v \div Base) \div Base) % Base,
       (v \div Base) % Base, v % Base >>

\* readUInt32BE
ReadWord(bytes) == ((bytes[1] * Base + bytes[2]) * Base + bytes[3]) * Base + bytes[4]

\* new Property(base64)
ParseProperty(buffer) ==
    LET type == buffer[5]
        from == IF type \in {WSTRING, BINARY} THEN 20 ELSE 12 IN
    [id   |-> ReadWord(<<buffer[4], buffer[3], buffer[2], buffer[1]>>),
     type |-> type,
     data |-> SubSeq(buffer, from + 1, Len(buffer))]

\* 20 zeros, and what is written over them.
SerializeContext(id, value) ==
    [i \in 1 .. 20 |-> IF i \in 1 .. 4 THEN BigEndian(id)[5 - i]
                       ELSE IF i = 5 THEN CONTEXT
                       ELSE IF i \in 13 .. 16 THEN BigEndian(value)[i - 12]
                       ELSE 0]

\* writeInt32BE throws ERR_OUT_OF_RANGE.
SerializeThrows(value) == value \notin -Half .. Half - 1

\* getParsedData reads as many bytes as its type has.
ReadsBytes(type) ==
    IF type \in {CONTEXT, INT32, FLOAT} THEN 4
    ELSE IF type \in {INT64, DOUBLE, DATETIME} THEN 8
    ELSE 0

ParseDataThrows(p) == Len(p.data) < ReadsBytes(p.type)

IsContext(buffer) == ParseProperty(buffer).type = CONTEXT

\* The buffer has no id and type, or is a context without its value.
Unreadable(buffer) ==
    \/ Len(buffer) < 5
    \/ IsContext(buffer) /\ ParseDataThrows(ParseProperty(buffer))

-----------------------------------------------------------------------------
(* The aggregate.  Properties and contexts are kept by id.                 *)

Empty == [context |-> <<>>, properties |-> <<>>]

\* The contexts of a request, <<id, value>>, and its properties, in order.
ContextsOf(buffers) ==
    LET sent == Among(buffers, {b \in ToSet(buffers) : IsContext(b)}) IN
    [i \in DOMAIN sent |->
        <<ParseProperty(sent[i]).id, ReadWord(ParseProperty(sent[i]).data)>>]

PropertiesOf(buffers) ==
    LET sent == Among(buffers, {b \in ToSet(buffers) : ~IsContext(b)}) IN
    [i \in DOMAIN sent |-> ParseProperty(sent[i])]

\* addContext: of two entries with one id the later stays.
ContextsAdded(context, added) ==
    LET ids == {a[1] : a \in ToSet(added)}
        IsLast(i) == \A j \in DOMAIN added : added[j][1] = added[i][1] => j <= i
        last(id) == CHOOSE i \in DOMAIN added : added[i][1] = id /\ IsLast(i) IN
    [id \in DOMAIN context \cup ids |->
        IF id \in ids THEN added[last(id)][2] ELSE context[id]]

Holds(properties, p) ==
    p.id \in DOMAIN properties /\ properties[p.id].data = p.data

\* addProperties: one whose data is the same is not replaced.
EntriesAdded(properties, added) ==
    FoldLeft(LAMBDA props, p : IF Holds(props, p) THEN props
                               ELSE (p.id :> p) @@ props,
             properties, added)

HasEntries(session) ==
    DOMAIN session.context # {} \/ DOMAIN session.properties # {}

\* Slip: the contexts of the request are not part of the log.
UpdateTableSkips(session, contexts, properties) ==
    \E p \in ToSet(properties) : ParseDataThrows(p)

\* PrettyPrintPropertiesAndContextsUpdateTable throws: on a context of the
\* request, on its old value, on a property that is new or is to change.
UpdateTableThrows(session, contexts, properties) ==
    \/ \E c \in ToSet(contexts) :
          \/ SerializeThrows(c[2])
          \/ /\ c[1] \in DOMAIN session.context
             /\ SerializeThrows(session.context[c[1]])
    \/ \E p \in ToSet(properties) :
          /\ ~Holds(session.properties, p)
          /\ \/ ParseDataThrows(p)
             \/ /\ p.id \in DOMAIN session.properties
                /\ ParseDataThrows(session.properties[p.id])

-----------------------------------------------------------------------------
AtEase == [pc |-> "idle"]

PropertiesInit ==
    /\ entry \in {NoSuchSession, Empty}
    /\ setting = [c \in PropCalls |-> AtEase]
    /\ unchecked = {}

(* CreateSession under this id, new or not. *)
Recreate ==
    /\ entry' = Empty
    /\ unchecked' = {}
    /\ UNCHANGED setting

(* Its TTL index, DeleteSessions or a teardown. *)
Vanish ==
    /\ entry # NoSuchSession
    /\ entry' = NoSuchSession
    /\ unchecked' = {}
    /\ UNCHANGED setting

(* POST /properties: the buffers are parsed, the session is looked up, and
   what changes is logged if it has entries already. *)
SessionPropertySet(c, buffers) ==
    LET contexts == ContextsOf(buffers)
        properties == PropertiesOf(buffers)
        logged == HasEntries(entry) IN
    /\ setting[c] = AtEase
    /\ \A b \in ToSet(buffers) : ~Unreadable(b)
    /\ entry # NoSuchSession
    /\ ~(logged /\ UpdateTableThrows(entry, contexts, properties))
    /\ setting' = [setting EXCEPT ![c] =
           [pc |-> "contexts", contexts |-> contexts, properties |-> properties,
            logged |-> logged]]
    /\ UNCHANGED <<entry, unchecked>>

Stores(contexts, logged) ==
    LET ids == {a[1] : a \in ToSet(contexts)} IN
    /\ entry' = [entry EXCEPT !.context = ContextsAdded(@, contexts)]
    /\ unchecked' = IF logged THEN unchecked \ ids ELSE unchecked \cup ids

(* AddSessionContextCommand.  Its answer is not looked at. *)
SetRequestContexts(c) ==
    LET r == setting[c] IN
    /\ r.pc = "contexts"
    /\ IF entry = NoSuchSession THEN UNCHANGED <<entry, unchecked>>
       ELSE Stores(r.contexts, r.logged)
    /\ setting' = [setting EXCEPT ![c] =
           [pc |-> "properties", properties |-> r.properties]]

(* AddSessionPropertyCommand, and the log of all there is, which throws into
   the answer only. *)
SetRequestProperties(c) ==
    LET r == setting[c] IN
    /\ r.pc = "properties"
    /\ entry' = IF entry = NoSuchSession THEN entry
                ELSE [entry EXCEPT !.properties = EntriesAdded(@, r.properties)]
    /\ setting' = [setting EXCEPT ![c] = AtEase]
    /\ UNCHANGED unchecked

(* A database call of the request is rejected, or the server stops. *)
SetFails(c) ==
    /\ setting[c] # AtEase
    /\ setting' = [setting EXCEPT ![c] = AtEase]
    /\ UNCHANGED <<entry, unchecked>>

(* POST /context: numbers, which nothing looks at. *)
SessionContextSet(id, value) ==
    /\ entry # NoSuchSession
    /\ Stores(<< <<id, value>> >>, FALSE)
    /\ UNCHANGED setting

Requests == {<<a>> : a \in Entries} \cup (Entries \X Entries)

PropertiesNext ==
    \/ Recreate
    \/ Vanish
    \/ \E c \in PropCalls :
          \/ \E buffers \in Requests : SessionPropertySet(c, buffers)
          \/ SetRequestContexts(c)
          \/ SetRequestProperties(c)
          \/ SetFails(c)
    \/ \E a \in Posted : SessionContextSet(a[1], a[2])

PropertiesSpec == PropertiesInit /\ [][PropertiesNext]_propertiesVars

-----------------------------------------------------------------------------
PropertiesTypeOK ==
    /\ entry # NoSuchSession =>
          /\ entry = [context |-> entry.context, properties |-> entry.properties]
          /\ entry.context \in [DOMAIN entry.context -> Int]
          /\ unchecked \subseteq DOMAIN entry.context
    /\ \A c \in PropCalls :
          /\ setting[c].pc \in {"idle", "contexts", "properties"}
          /\ setting[c].pc = "contexts" =>
                \A a \in ToSet(setting[c].contexts) : a \in Nat \X Nat

(* GET /properties (propertiesStringArray) answers for every context that a
   request stored after logging it: its number can be encoded, and a client
   that parses the buffer finds the id and the value that were set.  One
   context that cannot be encoded makes the answer fail for all. *)
ContextsServe ==
    entry # NoSuchSession =>
        \A id \in DOMAIN entry.context \ unchecked :
            LET value == entry.context[id]
                served == ParseProperty(SerializeContext(id, value)) IN
            /\ ~SerializeThrows(value)
            /\ served.id = id /\ served.type = CONTEXT
            /\ ReadWord(served.data) = value

=============================================================================
