------------------------------- MODULE Storage -------------------------------
(***************************************************************************)
(* Title storage (xstorage): files that consoles upload, download,         *)
(* enumerate and delete, on the server's disk.                             *)
(*                                                                         *)
(* The handlers look with existsSync and act with an asynchronous call, so *)
(* other requests run between the look and the act.  writeFile opens the   *)
(* file, which creates or truncates it, and writes it block by block; the  *)
(* process can die, or a write fail, in between.  The clip, user and title *)
(* areas have the same handlers, but for a size limit and the deletion.    *)
(*                                                                         *)
(* A content is a number of equal blocks; a file is the sequence of the    *)
(* contents its blocks come from.  Left out: how a location becomes a      *)
(* path, time stamps, and the switch that turns storage off.               *)
(***************************************************************************)
EXTENDS Naturals, Sequences, FiniteSets

CONSTANTS
    Paths,        \* file paths
    Dirs,
    DirOf,        \* the directory of a path
    AreaOf,       \* the area of a path
    ClipLimit, UserLimit, TitleLimit,   \* the size limits, in blocks
    Contents,
    SizeOf,       \* the size of a content, in blocks
    Clients,      \* requests that may be in flight at the same time
    NoFile

ASSUME StorageAssumption ==
    /\ IsFiniteSet(Paths)
    /\ DirOf \in [Paths -> Dirs]
    /\ AreaOf \in [Paths -> {"clip", "user", "title"}]
    /\ ClipLimit \in Nat /\ UserLimit \in Nat /\ TitleLimit \in Nat
    /\ SizeOf \in [Contents -> Nat \ {0}]
    /\ NoFile \notin Seq(Contents)

VARIABLES
    files,      \* path -> the blocks of the file, or NoFile
    dirs,       \* the directories there are
    doing,      \* what each request in flight is about to do
    disturbed,  \* history: paths where a change met another request, or where a
                \*   write did not end
    first,      \* history: the content of the upload that created the file
    unsettled   \* history: downloads of a file that was being changed when they
                \*   began, or deleted since

storageVars == <<files, dirs, doing, disturbed, first, unsettled>>

-----------------------------------------------------------------------------
(* The areas: what their four handlers allow.  Deleting is Forbidden outside
   the user area. *)
ClipArea == [limit |-> ClipLimit, deletable |-> FALSE]

UserArea == [limit |-> UserLimit, deletable |-> TRUE]

TitleArea == [limit |-> TitleLimit, deletable |-> FALSE]

Area(p) ==
    CASE AreaOf[p] = "clip" -> ClipArea
      [] AreaOf[p] = "user" -> UserArea
      [] AreaOf[p] = "title" -> TitleArea

-----------------------------------------------------------------------------
NotBusy == [pc |-> "idle"]

\* A request for one path, or for a directory when it enumerates.
Storing == [pc : {"mkdir", "open"}, path : Paths, data : Contents]
Writing == [pc : {"write", "orphan"}, path : Paths, data : Contents, at : Nat]
Reading == [pc : {"stat"}, path : Paths]
Streaming == [pc : {"stream"}, path : Paths, size : Nat]
Unlinking == [pc : {"unlink"}, path : Paths]
Building == [pc : {"build"}, dir : Dirs]
Listing == [pc : {"list"}, dir : Dirs, total : Nat]

Work == {NotBusy} \cup Storing \cup Writing \cup Reading \cup Streaming \cup Unlinking
        \cup Building \cup Listing

Changes(r) == r.pc \in {"mkdir", "open", "write", "unlink"}

PathsOf(r) ==
    CASE r.pc \in {"idle", "build"} -> {}
      [] r.pc = "list" -> {p \in Paths : DirOf[p] = r.dir}
      [] OTHER -> {r.path}

\* The paths of `r` that another request is about to change, or the reverse.
Contested(w, r) ==
    {p \in PathsOf(r) : \E o \in Clients \ {w} :
        p \in PathsOf(doing[o]) /\ (Changes(r) \/ Changes(doing[o]))}

Turns(w, r) ==
    /\ doing' = [doing EXCEPT ![w] = r]
    /\ disturbed' = disturbed \cup Contested(w, r)

Downloads(p) ==
    {o \in Clients : doing[o].pc \in {"stat", "stream"} /\ doing[o].path = p}

FilesIn(d) == {p \in Paths : DirOf[p] = d /\ files[p] # NoFile}

\* A write of the block after the first `n` over a file of these blocks.
Overwritten(blocks, n, c) ==
    IF n < Len(blocks) THEN [blocks EXCEPT ![n + 1] = c] ELSE Append(blocks, c)

Whole(c) == [i \in 1 .. SizeOf[c] |-> c]

-----------------------------------------------------------------------------
StorageInit ==
    /\ files = [p \in Paths |-> NoFile]
    /\ dirs = {}
    /\ doing = [w \in Clients |-> NotBusy]
    /\ disturbed = {}
    /\ first = files
    /\ unsettled = {}

\* Slip: the limit is not looked at.
Accepted(p, c) == TRUE

(* XStorageUpload: too large a buffer is refused. *)
Fits(p, c) == SizeOf[c] <= Area(p).limit

\* Slip: an upload writes whether the file exists or not.
AfterMkdirAlways(w, p, c) ==
    Turns(w, [pc |-> "open", path |-> p, data |-> c])

(* An existing file is only compared with the upload: it stays as it is, and
   the answer is Uploaded or Not_Modified. *)
AfterMkdir(w, p, c) ==
    IF files[p] # NoFile THEN Turns(w, NotBusy)
    ELSE Turns(w, [pc |-> "open", path |-> p, data |-> c])

Upload(w, p, c) ==
    /\ doing[w] = NotBusy
    /\ Fits(p, c)
    /\ IF DirOf[p] \in dirs THEN AfterMkdir(w, p, c)
       ELSE Turns(w, [pc |-> "mkdir", path |-> p, data |-> c])
    /\ UNCHANGED <<files, dirs, first, unsettled>>

\* Whether or not mkdir succeeds.
MakeDir(w) ==
    /\ doing[w].pc = "mkdir"
    /\ dirs' \in {dirs, dirs \cup {DirOf[doing[w].path]}}
    /\ AfterMkdir(w, doing[w].path, doing[w].data)
    /\ UNCHANGED <<files, first, unsettled>>

(* writeFile opens the file for writing... *)
OpenFile(w) ==
    LET r == doing[w]
    IN  /\ r.pc = "open"
        /\ DirOf[r.path] \in dirs
        /\ files' = [files EXCEPT ![r.path] = <<>>]
        /\ first' = [first EXCEPT
                       ![r.path] = IF files[r.path] = NoFile THEN Whole(r.data) ELSE @]
        /\ Turns(w, [pc |-> "write", path |-> r.path, data |-> r.data, at |-> 0])
        /\ UNCHANGED <<dirs, unsettled>>

\* The write is over when the last block is written.
Advanced(r) == IF r.at + 1 = SizeOf[r.data] THEN NotBusy ELSE [r EXCEPT !.at = @ + 1]

(* ...and writes from its start, at its own position.  What is written to a
   file that was unlinked meanwhile goes nowhere. *)
WriteBlock(w) ==
    LET r == doing[w]
    IN  /\ r.pc \in {"write", "orphan"}
        /\ files' = IF r.pc = "orphan" THEN files
                    ELSE [files EXCEPT ![r.path] = Overwritten(@, r.at, r.data)]
        /\ Turns(w, Advanced(r))
        /\ UNCHANGED <<dirs, first, unsettled>>

(* An asynchronous call fails: an upload is answered Error, the other requests
   with an error, and the file is left as it is. *)
IOFails(w) ==
    /\ doing[w].pc \notin {"idle", "mkdir"}
    /\ doing' = [doing EXCEPT ![w] = NotBusy]
    /\ disturbed' = disturbed \cup
          (IF doing[w].pc = "write" THEN {doing[w].path} ELSE {})
    /\ UNCHANGED <<files, dirs, first, unsettled>>

\* Every request in flight ends with the process.
ProcessDies ==
    /\ doing' = [w \in Clients |-> NotBusy]
    /\ disturbed' = disturbed \cup {doing[w].path : w \in
                      {o \in Clients : doing[o].pc = "write"}}
    /\ UNCHANGED <<files, dirs, first, unsettled>>

CrashStorage == (\E w \in Clients : doing[w] # NotBusy) /\ ProcessDies

(* XStorageDownload: exists, then stat, then a stream of what is there. *)
Download(w, p) ==
    /\ doing[w] = NotBusy
    /\ files[p] # NoFile
    /\ Turns(w, [pc |-> "stat", path |-> p])
    /\ unsettled' = IF \E o \in Clients : Changes(doing[o]) /\ doing[o].path = p
                    THEN unsettled \cup {w} ELSE unsettled \ {w}
    /\ UNCHANGED <<files, dirs, first>>

StatFile(w) ==
    LET p == doing[w].path
    IN  /\ doing[w].pc = "stat"
        /\ Turns(w, IF files[p] = NoFile \/ Len(files[p]) > Area(p).limit THEN NotBusy
                    ELSE [pc |-> "stream", path |-> p, size |-> Len(files[p])])
        /\ UNCHANGED <<files, dirs, first, unsettled>>

\* Nothing listens to the stream's error event: a file that is gone by now
\* stops the process.
StreamFile(w) ==
    /\ doing[w].pc = "stream"
    /\ IF files[doing[w].path] = NoFile THEN ProcessDies
       ELSE Turns(w, NotBusy) /\ UNCHANGED <<files, dirs, first, unsettled>>

(* XStorageDelete, from the user area only. *)
DeleteUserFile(w, p) ==
    /\ doing[w] = NotBusy
    /\ Area(p).deletable
    /\ files[p] # NoFile
    /\ Turns(w, [pc |-> "unlink", path |-> p])
    /\ UNCHANGED <<files, dirs, first, unsettled>>

\* unlink of a file that is gone fails, and changes nothing.
Unlink(w) ==
    LET p == doing[w].path
    IN  /\ doing[w].pc = "unlink"
        /\ files' = [files EXCEPT ![p] = NoFile]
        /\ first' = [first EXCEPT ![p] = NoFile]
        /\ unsettled' = unsettled \cup Downloads(p)
        /\ doing' = [o \in Clients |->
                       IF o = w THEN NotBusy
                       ELSE IF doing[o].pc = "write" /\ doing[o].path = p
                            THEN [doing[o] EXCEPT !.pc = "orphan"]
                       ELSE doing[o]]
        /\ UNCHANGED <<dirs, disturbed>>

(* XStorageBuildServerPath: mkdir answers nothing, which counts as an Error,
   when someone else made the directory after the look. *)
BuildServerPath(w, d) ==
    /\ doing[w] = NotBusy
    /\ d \notin dirs
    /\ Turns(w, [pc |-> "build", dir |-> d])
    /\ UNCHANGED <<files, dirs, first, unsettled>>

BuildDir(w) ==
    /\ doing[w].pc = "build"
    /\ dirs' = dirs \cup {doing[w].dir}
    /\ Turns(w, NotBusy)
    /\ UNCHANGED <<files, first, unsettled>>

(* XStorageEnumerate counts the files of the directory, then lists them. *)
Enumerate(w, d) ==
    /\ doing[w] = NotBusy
    /\ Turns(w, [pc |-> "list", dir |-> d, total |-> Cardinality(FilesIn(d))])
    /\ UNCHANGED <<files, dirs, first, unsettled>>

ListFiles(w) ==
    /\ doing[w].pc = "list"
    /\ Turns(w, NotBusy)
    /\ UNCHANGED <<files, dirs, first, unsettled>>

StorageNext ==
    \/ CrashStorage
    \/ \E w \in Clients :
         \/ MakeDir(w) \/ OpenFile(w) \/ WriteBlock(w) \/ IOFails(w)
         \/ StatFile(w) \/ StreamFile(w) \/ Unlink(w) \/ BuildDir(w) \/ ListFiles(w)
         \/ \E p \in Paths :
              \/ \E c \in Contents : Upload(w, p, c)
              \/ Download(w, p)
              \/ DeleteUserFile(w, p)
         \/ \E d \in Dirs : BuildServerPath(w, d) \/ Enumerate(w, d)

StorageSpec == StorageInit /\ [][StorageNext]_storageVars

-----------------------------------------------------------------------------
(* Files are runs of blocks, and every request is at one of its steps. *)
StorageTypeOK ==
    /\ files \in [Paths -> Seq(Contents) \cup {NoFile}]
    /\ first \in [Paths -> Seq(Contents) \cup {NoFile}]
    /\ dirs \subseteq Dirs
    /\ disturbed \subseteq Paths
    /\ unsettled \subseteq Clients
    /\ doing \in [Clients -> Work]

(* Upload refuses what is larger than its area's limit, and download refuses
   again.  What upload lets in, download hands out: no file is ever larger
   than its limit, not even one that two uploads wrote into. *)
FilesWithinLimit ==
    \A p \in Paths : files[p] # NoFile => Len(files[p]) <= Area(p).limit

(* A file holds the whole of the upload that created it until it is deleted:
   later uploads of the path leave it alone.  Only uploads and deletes of the
   path that overlap, a failed write or a crash can leave anything else. *)
StoredWhole ==
    \A p \in Paths \ disturbed :
        \/ files[p] = first[p]
        \/ \E w \in Clients :
              /\ doing[w].pc = "write" /\ doing[w].path = p
              /\ files[p] = SubSeq(first[p], 1, doing[w].at)

(* A download announces the size of one moment and streams what is there at a
   later one; the stream of a file that is gone stops the server.  They agree,
   whatever uploads of the path begin meanwhile, unless the file was being
   changed when the download began or is deleted before it ends. *)
ServedAsAnnounced ==
    \A w \in Clients \ unsettled :
        doing[w].pc = "stream" =>
            /\ files[doing[w].path] # NoFile
            /\ doing[w].size = Len(files[doing[w].path])

=============================================================================
