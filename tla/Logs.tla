-------------------------------- MODULE Logs --------------------------------
(***************************************************************************)
(* The log proxy: the sliding-window limit of uploads per caller, and the  *)
(* stream from the client through the byte cap to the backend.             *)
(*                                                                         *)
(* An upload is a number of chunks on their way.  The backend may answer   *)
(* before it has read them all, with any status; then its body is awaited, *)
(* and chunks go on meanwhile.  The stream, the backend and the client end *)
(* it in any order.  The headers and the bodies' contents are left out.    *)
(***************************************************************************)
EXTENDS Integers, Sequences, FiniteSets, SequencesExt, Lists

CONSTANTS
    Uploaders,     \* rate-limit keys: an xuid, else an address
    UploadSlots,   \* requests that may be in flight at the same time
    RateMax, RateWindow,
    MaxBytes,      \* the byte cap
    ChunkSizes,
    BackendStatuses,  \* what the backend may answer
    MaxClock       \* bound: how long the clock runs

ASSUME LogsAssumption ==
    /\ RateMax \in Nat \ {0} /\ RateWindow \in Nat \ {0}
    /\ MaxBytes \in Nat /\ ChunkSizes \subseteq Nat \ {0} /\ MaxClock \in Nat

VARIABLES
    gate,       \* GET /logs: set by the environment of the process
    clock,
    hits,       \* the window of each key: the times of its uploads
    uploads,    \* the requests in flight and the answers of the last ones
    allowedAt,  \* history: the times of the uploads that were let through
    turnedAway  \* history: the time of the last refusal, or none

logsVars == <<gate, clock, hits, uploads, allowedAt, turnedAway>>

NoUpload == [pc |-> "none"]

\* `total` is what the cap has counted, `passed` what it let through, `replied`
\* the status of the backend's answer, if there is one.
Uploading ==
    [pc |-> "stream", total |-> 0, passed |-> 0, tooLarge |-> FALSE, replied |-> {}]

Ended(status, r) ==
    [pc |-> "answered", status |-> status, total |-> r.total, passed |-> r.passed,
     replied |-> r.replied]

-----------------------------------------------------------------------------
(* The limit.                                                              *)

\* Slip: a hit stays in the window for one tick more.
InWindowLonger(t, now) == now - t <= RateWindow

InWindow(t, now) == now - t < RateWindow

Kept(times, now) == Among(times, {t \in ToSet(times) : InWindow(t, now)})

Allows(kept) == Len(kept) < RateMax

-----------------------------------------------------------------------------
LogsInit ==
    /\ gate \in {200, 404, 503}
    /\ clock = 0
    /\ hits = [k \in Uploaders |-> <<>>]
    /\ uploads = [u \in UploadSlots |-> NoUpload]
    /\ allowedAt = [k \in Uploaders |-> <<>>]
    /\ turnedAway = [k \in Uploaders |-> {}]

Tick ==
    /\ clock < MaxClock
    /\ clock' = clock + 1
    /\ UNCHANGED <<gate, hits, uploads, allowedAt, turnedAway>>

(* POST /logs: gate, pruneAndCheck, and the start of the stream. *)
Ingest(u, k) ==
    LET kept == Kept(hits[k], clock) IN
    /\ uploads[u].pc # "stream"
    /\ gate = 200
    /\ IF Allows(kept)
       THEN /\ hits' = [hits EXCEPT ![k] = Append(kept, clock)]
            /\ allowedAt' = [allowedAt EXCEPT ![k] = Append(@, clock)]
            /\ uploads' = [uploads EXCEPT ![u] = Uploading]
            /\ UNCHANGED turnedAway
       ELSE /\ hits' = [hits EXCEPT ![k] = kept]
            /\ turnedAway' = [turnedAway EXCEPT ![k] = {clock}]
            /\ UNCHANGED <<allowedAt, uploads>>
    /\ UNCHANGED <<gate, clock>>

\* Slip: the total is compared before the chunk is added.
StreamedLate(r, n) ==
    LET counted == [r EXCEPT !.total = @ + n] IN
    IF r.total > MaxBytes THEN [counted EXCEPT !.tooLarge = TRUE]
    ELSE [counted EXCEPT !.passed = counted.total]

\* The transform passes a chunk on, or ends the stream with an error.
Streamed(r, n) ==
    LET counted == [r EXCEPT !.total = @ + n] IN
    IF counted.total > MaxBytes THEN [counted EXCEPT !.tooLarge = TRUE]
    ELSE [counted EXCEPT !.passed = counted.total]

Chunk(u, n) ==
    /\ uploads[u].pc = "stream" /\ ~uploads[u].tooLarge
    /\ uploads' = [uploads EXCEPT ![u] = Streamed(@, n)]
    /\ UNCHANGED <<gate, clock, hits, allowedAt, turnedAway>>

(* fetch is resolved: the backend has answered.  The answer may be on its way
   already when the cap is hit. *)
BackendAnswers(u, status) ==
    /\ uploads[u].pc = "stream" /\ uploads[u].replied = {}
    /\ uploads' = [uploads EXCEPT ![u].replied = {status}]
    /\ UNCHANGED <<gate, clock, hits, allowedAt, turnedAway>>

(* text() is resolved: the backend's status is relayed, whatever it is and
   whatever became of the stream meanwhile. *)
RelayAnswer(u) ==
    /\ uploads[u].pc = "stream"
    /\ \E status \in uploads[u].replied : uploads' = [uploads EXCEPT ![u] = Ended(status, @)]
    /\ UNCHANGED <<gate, clock, hits, allowedAt, turnedAway>>

\* forward's catch: the cap's error, or the backend's.
FailureStatus(r) == IF r.tooLarge THEN 413 ELSE 502

(* fetch or text() is rejected: by the error of the stream, or by the
   backend. *)
ForwardFails(u) ==
    /\ uploads[u].pc = "stream"
    /\ uploads' = [uploads EXCEPT ![u] = Ended(FailureStatus(@), @)]
    /\ UNCHANGED <<gate, clock, hits, allowedAt, turnedAway>>

LogsNext ==
    \/ Tick
    \/ \E u \in UploadSlots :
          \/ \E k \in Uploaders : Ingest(u, k)
          \/ \E n \in ChunkSizes : Chunk(u, n)
          \/ \E status \in BackendStatuses : BackendAnswers(u, status)
          \/ RelayAnswer(u)
          \/ ForwardFails(u)

LogsSpec == LogsInit /\ [][LogsNext]_logsVars

-----------------------------------------------------------------------------
LogsTypeOK ==
    /\ gate \in {200, 404, 503}
    /\ clock \in 0 .. MaxClock
    /\ hits \in [Uploaders -> Seq(0 .. MaxClock)]
    /\ allowedAt \in [Uploaders -> Seq(0 .. MaxClock)]
    /\ \A u \in UploadSlots : uploads[u].pc \in {"none", "stream", "answered"}

\* The uploads of `k` let through in the window that ends at `now`.
Recently(k, now) ==
    {i \in DOMAIN allowedAt[k] : allowedAt[k][i] <= now /\ now - allowedAt[k][i] < RateWindow}

(* The window, pruned at each request only, limits what it should: in no
   window of RateWindow, wherever it ends, are more than RateMax uploads of a
   caller let through, and a caller is turned away only when RateMax were. *)
RateKept ==
    \A k \in Uploaders :
        /\ \A now \in 0 .. clock : Cardinality(Recently(k, now)) <= RateMax
        /\ \A now \in turnedAway[k] : Cardinality(Recently(k, now)) = RateMax

(* The backend is never sent more than the cap.  Who is answered hears what the
   backend said, or that its log was over the cap when it was, and that the
   backend is unavailable when it was not, whatever else failed meanwhile. *)
CapTold ==
    \A u \in UploadSlots :
        /\ uploads[u].pc # "none" => uploads[u].passed <= MaxBytes
        /\ uploads[u].pc = "answered" =>
              uploads[u].status \in
                  uploads[u].replied \cup {IF uploads[u].total > MaxBytes THEN 413 ELSE 502}

=============================================================================
