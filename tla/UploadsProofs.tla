--------------------------- MODULE UploadsProofs ----------------------------
(***************************************************************************)
(* What clients upload: title files, the QoS files and the contexts of     *)
(* their sessions, and their logs, for any paths, contents, sessions,      *)
(* callers and limits, and however many requests overlap.                  *)
(***************************************************************************)
EXTENDS Storage, Qos, Logs, SessionProperties, ListsProofs, FiniteSetTheorems

-----------------------------------------------------------------------------
(* Title files.                                                            *)

\* What a request is about to write fits, and a write is before its end.
Fitting(r) ==
    /\ r.pc \in {"mkdir", "open", "write"} => Fits(r.path, r.data)
    /\ r.pc = "write" => r.at < SizeOf[r.data]

\* A write goes to a file that is there: unlinking makes it an orphan.
WrittenIsThere ==
    \A w \in Clients : doing[w].pc = "write" => files[doing[w].path] # NoFile

SInv ==
    /\ StorageTypeOK
    /\ \A w \in Clients : Fitting(doing[w])
    /\ WrittenIsThere
    /\ FilesWithinLimit

-----------------------------------------------------------------------------
LEMMA LimitIsNat == \A p \in Paths : Area(p).limit \in Nat
BY StorageAssumption DEF Area, ClipArea, UserArea, TitleArea

LEMMA SizeIsPositive == \A c \in Contents : SizeOf[c] \in Nat \ {0}
BY StorageAssumption

(* Requests in flight, by their step. *)
LEMMA WorkByPc ==
    ASSUME NEW r \in Work
    PROVE  /\ r.pc \in {"mkdir", "open"} => r \in Storing
           /\ r.pc \in {"write", "orphan"} => r \in Writing
           /\ r.pc \in {"stat", "stream", "unlink"} => r.path \in Paths
           /\ r.pc = "build" => r.dir \in Dirs
BY DEF Work, NotBusy, Storing, Writing, Reading, Streaming, Unlinking, Building, Listing

LEMMA WorkForms ==
    /\ NotBusy \in Work /\ Fitting(NotBusy) /\ NotBusy.pc = "idle"
    /\ \A p \in Paths, c \in Contents :
          /\ [pc |-> "mkdir", path |-> p, data |-> c] \in Work
          /\ [pc |-> "open", path |-> p, data |-> c] \in Work
          /\ [pc |-> "write", path |-> p, data |-> c, at |-> 0] \in Work
    /\ \A r \in Writing : r \in Work
BY DEF Work, NotBusy, Storing, Writing, Fitting

LEMMA PathsOfWork == \A r \in Work : PathsOf(r) \subseteq Paths
<1> SUFFICES ASSUME NEW r \in Work PROVE PathsOf(r) \subseteq Paths
  OBVIOUS
<1>1. CASE r.pc \in {"idle", "build"}
  BY <1>1 DEF PathsOf
<1>2. CASE r.pc = "list"
  BY <1>2 DEF PathsOf
<1>3. CASE r.pc \notin {"idle", "build", "list"}
  <2>1. r.path \in Paths
    BY <1>3 DEF Work, NotBusy, Storing, Writing, Reading, Streaming, Unlinking, Building,
                Listing
  <2> QED BY <1>3, <2>1 DEF PathsOf
<1> QED BY <1>1, <1>2, <1>3

(* A request that turns to its next step leaves the others at theirs. *)
LEMMA TurnsType ==
    ASSUME SInv, NEW w \in Clients, NEW r \in Work, Fitting(r), Turns(w, r)
    PROVE  /\ doing' \in [Clients -> Work]
           /\ \A o \in Clients : Fitting(doing'[o])
           /\ disturbed' \subseteq Paths
           /\ doing'[w] = r /\ \A o \in Clients : o # w => doing'[o] = doing[o]
<1>1. doing' \in [Clients -> Work] /\ doing'[w] = r
      /\ \A o \in Clients : o # w => doing'[o] = doing[o]
  BY DEF SInv, StorageTypeOK, Turns
<1>2. disturbed' \subseteq Paths
  BY PathsOfWork DEF SInv, StorageTypeOK, Turns, Contested
<1>3. \A o \in Clients : Fitting(doing'[o])
  BY <1>1 DEF SInv
<1> QED BY <1>1, <1>2, <1>3

(* ...and keeps the invariant, if it touches no file. *)
LEMMA TurnsKeep ==
    ASSUME SInv, NEW w \in Clients, NEW r \in Work, Fitting(r), Turns(w, r),
           r.pc # "write",
           dirs' \subseteq Dirs, unsettled' \subseteq Clients,
           UNCHANGED <<files, first>>
    PROVE  SInv'
<1>1. StorageTypeOK'
  BY TurnsType DEF SInv, StorageTypeOK
<1>2. FilesWithinLimit'
  BY DEF SInv, FilesWithinLimit, Area
<1>3. (\A o \in Clients : Fitting(doing[o]))'
  BY TurnsType DEF Fitting, Fits, Area
<1>4. WrittenIsThere'
  BY TurnsType DEF SInv, WrittenIsThere
<1> QED BY <1>1, <1>2, <1>3, <1>4 DEF SInv

(* A block written within the content does not make the file longer than the
   content, or than it was. *)
LEMMA OverwrittenLength ==
    ASSUME NEW blocks \in Seq(Contents), NEW n \in Nat, NEW c \in Contents,
           NEW limit \in Nat, Len(blocks) <= limit, n < limit
    PROVE  /\ Overwritten(blocks, n, c) \in Seq(Contents)
           /\ Len(Overwritten(blocks, n, c)) <= limit
<1>1. CASE n < Len(blocks)
  BY <1>1 DEF Overwritten
<1>2. CASE ~(n < Len(blocks))
  BY <1>2 DEF Overwritten
<1> QED BY <1>1, <1>2

(* One file gets other blocks, within its limit. *)
LEMMA FileWritten ==
    ASSUME SInv, NEW p \in Paths, NEW blocks \in Seq(Contents),
           Len(blocks) <= Area(p).limit,
           files' = [files EXCEPT ![p] = blocks]
    PROVE  /\ files' \in [Paths -> Seq(Contents) \cup {NoFile}]
           /\ FilesWithinLimit'
<1>1. /\ files' \in [Paths -> Seq(Contents) \cup {NoFile}]
      /\ files'[p] = blocks
      /\ \A q \in Paths : q # p => files'[q] = files[q]
  BY DEF SInv, StorageTypeOK
<1>2. FilesWithinLimit'
  BY <1>1 DEF SInv, FilesWithinLimit, Area
<1> QED BY <1>1, <1>2

(* The file is there or not: the request ends, or goes on to writeFile. *)
LEMMA AfterMkdirKeeps ==
    ASSUME SInv, NEW w \in Clients, NEW p \in Paths, NEW c \in Contents,
           Fits(p, c), AfterMkdir(w, p, c),
           dirs' \subseteq Dirs, unsettled' \subseteq Clients,
           UNCHANGED <<files, first>>
    PROVE  SInv'
<1> DEFINE open == [pc |-> "open", path |-> p, data |-> c]
<1>1. open \in Work /\ Fitting(open) /\ open.pc = "open"
  BY WorkForms DEF Fitting
<1> HIDE DEF open
<1>2. Turns(w, NotBusy) \/ Turns(w, open)
  BY DEF AfterMkdir, open
<1> QED BY <1>1, <1>2, WorkForms, TurnsKeep

-----------------------------------------------------------------------------
LEMMA StorageStart == StorageInit => SInv
<1> SUFFICES ASSUME StorageInit PROVE SInv
  OBVIOUS
<1>1. StorageTypeOK
  BY WorkForms DEF StorageInit, StorageTypeOK
<1>2. WrittenIsThere
  BY WorkForms DEF StorageInit, WrittenIsThere
<1> QED BY <1>1, <1>2, WorkForms DEF StorageInit, SInv, FilesWithinLimit

LEMMA UploadKeeps ==
    ASSUME SInv, NEW w \in Clients, NEW p \in Paths, NEW c \in Contents, Upload(w, p, c)
    PROVE  SInv'
<1> DEFINE mkdir == [pc |-> "mkdir", path |-> p, data |-> c]
<1>1. mkdir \in Work /\ mkdir.pc = "mkdir" /\ (Fits(p, c) => Fitting(mkdir))
  BY WorkForms DEF Fitting
<1> HIDE DEF mkdir
<1>2. /\ Fits(p, c)
      /\ AfterMkdir(w, p, c) \/ Turns(w, mkdir)
      /\ UNCHANGED <<files, dirs, first, unsettled>>
  BY DEF Upload, mkdir
<1>3. dirs' \subseteq Dirs /\ unsettled' \subseteq Clients
  BY <1>2 DEF SInv, StorageTypeOK
<1> QED BY <1>1, <1>2, <1>3, AfterMkdirKeeps, TurnsKeep

LEMMA MakeDirKeeps ==
    ASSUME SInv, NEW w \in Clients, MakeDir(w)
    PROVE  SInv'
<1>1. doing[w] \in Storing /\ Fits(doing[w].path, doing[w].data)
  BY WorkByPc DEF SInv, StorageTypeOK, MakeDir, Fitting
<1>2. doing[w].path \in Paths /\ doing[w].data \in Contents
  BY <1>1 DEF Storing
<1>3. dirs' \subseteq Dirs /\ unsettled' \subseteq Clients
  BY <1>2, StorageAssumption DEF SInv, StorageTypeOK, MakeDir
<1> QED BY <1>1, <1>2, <1>3, AfterMkdirKeeps DEF MakeDir

LEMMA OpenFileKeeps ==
    ASSUME SInv, NEW w \in Clients, OpenFile(w)
    PROVE  SInv'
<1> DEFINE p == doing[w].path
           c == doing[w].data
<1> DEFINE write == [pc |-> "write", path |-> p, data |-> c, at |-> 0]
<1>1. doing[w] \in Storing /\ Fits(p, c)
  BY WorkByPc DEF SInv, StorageTypeOK, OpenFile, Fitting
<1>2. p \in Paths /\ c \in Contents
  BY <1>1 DEF Storing
<1>4. /\ files' = [files EXCEPT ![p] = <<>>]
      /\ first' = [first EXCEPT ![p] = IF files[p] = NoFile THEN Whole(c) ELSE @]
      /\ Turns(w, write)
      /\ UNCHANGED <<dirs, unsettled>>
  BY DEF OpenFile
<1> HIDE DEF p, c
<1>3. /\ write \in Work /\ Fitting(write) /\ write.path = p
  <2>1. Fits(p, c) /\ 0 < SizeOf[c]
    BY <1>1, <1>2, SizeIsPositive
  <2> QED BY <1>2, <2>1, WorkForms DEF Fitting
<1>5. Whole(c) \in Seq(Contents)
  BY <1>2, SizeIsPositive DEF Whole
<1> HIDE DEF write
<1>6. first' \in [Paths -> Seq(Contents) \cup {NoFile}]
  BY <1>2, <1>4, <1>5 DEF SInv, StorageTypeOK
<1>7. <<>> \in Seq(Contents) /\ Len(<<>>) <= Area(p).limit
  BY <1>2, LimitIsNat
<1>8. files' \in [Paths -> Seq(Contents) \cup {NoFile}] /\ FilesWithinLimit'
  BY <1>2, <1>4, <1>7, FileWritten
<1>9. /\ doing' \in [Clients -> Work]
      /\ \A o \in Clients : Fitting(doing'[o])
      /\ disturbed' \subseteq Paths
      /\ doing'[w] = write /\ \A o \in Clients : o # w => doing'[o] = doing[o]
  BY <1>3, <1>4, TurnsType
<1>10. StorageTypeOK'
  BY <1>4, <1>6, <1>8, <1>9 DEF SInv, StorageTypeOK
<1>11. (\A o \in Clients : Fitting(doing[o]))'
  BY <1>9 DEF Fitting, Fits, Area
<1>12. WrittenIsThere'
  <2>1. files'[p] # NoFile /\ \A q \in Paths : q # p => files'[q] = files[q]
    BY <1>2, <1>4, <1>7, StorageAssumption DEF SInv, StorageTypeOK
  <2>2. \A o \in Clients : doing[o].pc = "write" => doing[o].path \in Paths
    BY WorkByPc DEF SInv, StorageTypeOK, Writing
  <2> QED BY <1>3, <1>9, <2>1, <2>2 DEF SInv, WrittenIsThere
<1> QED BY <1>8, <1>10, <1>11, <1>12 DEF SInv

LEMMA WriteBlockKeeps ==
    ASSUME SInv, NEW w \in Clients, WriteBlock(w)
    PROVE  SInv'
<1> DEFINE r == doing[w]
<1>1. /\ r \in Writing
      /\ r.pc \in {"write", "orphan"}
      /\ r.pc = "write" => /\ Fits(r.path, r.data) /\ r.at < SizeOf[r.data]
                           /\ files[r.path] # NoFile
  BY WorkByPc DEF SInv, StorageTypeOK, WriteBlock, Fitting, WrittenIsThere
<1>2. /\ r.path \in Paths /\ r.data \in Contents /\ r.at \in Nat
      /\ SizeOf[r.data] \in Nat \ {0} /\ Area(r.path).limit \in Nat
  BY <1>1, SizeIsPositive, LimitIsNat DEF Writing
<1>3. /\ files' = IF r.pc = "orphan" THEN files
                  ELSE [files EXCEPT ![r.path] = Overwritten(@, r.at, r.data)]
      /\ Turns(w, Advanced(r))
      /\ UNCHANGED <<dirs, first, unsettled>>
  BY DEF WriteBlock
<1> HIDE DEF r
<1>4. /\ Advanced(r) \in Work /\ Fitting(Advanced(r))
      /\ Advanced(r).pc = "write" => r.pc = "write" /\ Advanced(r).path = r.path
  <2>1. CASE r.at + 1 = SizeOf[r.data]
    BY <2>1, WorkForms DEF Advanced
  <2>2. CASE r.at + 1 # SizeOf[r.data]
    <3> DEFINE next == [r EXCEPT !.at = @ + 1]
    <3>1. /\ next \in Writing /\ next.pc = r.pc /\ next.path = r.path
          /\ next.data = r.data /\ next.at = r.at + 1
      BY <1>1, <1>2 DEF Writing
    <3>2. Advanced(r) = next
      BY <2>2 DEF Advanced
    <3> HIDE DEF next
    <3>3. Fitting(next)
      BY <1>1, <1>2, <2>2, <3>1 DEF Fitting
    <3> QED BY <3>1, <3>2, <3>3, WorkForms
  <2> QED BY <2>1, <2>2
<1>5. /\ files' \in [Paths -> Seq(Contents) \cup {NoFile}] /\ FilesWithinLimit'
      /\ \A q \in Paths : files[q] # NoFile => files'[q] # NoFile
  <2>1. CASE r.pc = "orphan"
    BY <1>3, <2>1 DEF SInv, StorageTypeOK, FilesWithinLimit, Area
  <2>2. CASE r.pc = "write" /\ files[r.path] # NoFile
    <3> DEFINE blocks == Overwritten(files[r.path], r.at, r.data)
    <3>1. files[r.path] \in Seq(Contents) /\ Len(files[r.path]) <= Area(r.path).limit
      BY <1>2, <2>2 DEF SInv, StorageTypeOK, FilesWithinLimit
    <3>2. r.at < Area(r.path).limit
      BY <1>1, <1>2, <2>2 DEF Fits
    <3>3. blocks \in Seq(Contents) /\ Len(blocks) <= Area(r.path).limit
      BY <1>2, <3>1, <3>2, OverwrittenLength
    <3>4. files' = [files EXCEPT ![r.path] = blocks]
      BY <1>3, <2>2
    <3> HIDE DEF blocks
    <3>5. \A q \in Paths : files[q] # NoFile => files'[q] # NoFile
      BY <1>2, <3>3, <3>4, StorageAssumption DEF SInv, StorageTypeOK
    <3> QED BY <1>2, <3>3, <3>4, <3>5, FileWritten
  <2> QED BY <1>1, <2>1, <2>2
<1>6. /\ doing' \in [Clients -> Work]
      /\ \A o \in Clients : Fitting(doing'[o])
      /\ disturbed' \subseteq Paths
      /\ doing'[w] = Advanced(r) /\ \A o \in Clients : o # w => doing'[o] = doing[o]
  BY <1>3, <1>4, TurnsType
<1>7. StorageTypeOK'
  BY <1>3, <1>5, <1>6 DEF SInv, StorageTypeOK
<1>8. (\A o \in Clients : Fitting(doing[o]))'
  BY <1>6 DEF Fitting, Fits, Area
<1>9. WrittenIsThere'
  <2>1. \A o \in Clients : doing[o].pc = "write" => doing[o].path \in Paths
    BY WorkByPc DEF SInv, StorageTypeOK, Writing
  <2> QED BY <1>1, <1>2, <1>4, <1>5, <1>6, <2>1 DEF SInv, WrittenIsThere
<1> QED BY <1>5, <1>7, <1>8, <1>9 DEF SInv

(* A request ends: a failed call, or the answer of one that touched no file. *)
LEMMA IdleKeeps ==
    ASSUME SInv, UNCHANGED files,
           first' = first, dirs' \subseteq Dirs, unsettled' \subseteq Clients,
           disturbed' \subseteq Paths,
           doing' \in [Clients -> Work],
           \A o \in Clients : doing'[o] \in {doing[o], NotBusy}
    PROVE  SInv'
<1>1. StorageTypeOK'
  BY DEF SInv, StorageTypeOK
<1>2. FilesWithinLimit'
  BY DEF SInv, FilesWithinLimit, Area
<1>3. (\A o \in Clients : Fitting(doing[o]))'
  <2>1. \A o \in Clients : Fitting(doing'[o])
    BY WorkForms DEF SInv
  <2> QED BY <2>1 DEF Fitting, Fits, Area
<1>4. WrittenIsThere'
  BY WorkForms DEF SInv, WrittenIsThere
<1> QED BY <1>1, <1>2, <1>3, <1>4 DEF SInv

LEMMA IOFailsKeeps ==
    ASSUME SInv, NEW w \in Clients, IOFails(w)
    PROVE  SInv'
<1>1. disturbed' \subseteq Paths
  BY WorkByPc DEF SInv, StorageTypeOK, IOFails, Writing
<1>2. /\ doing' \in [Clients -> Work]
      /\ \A o \in Clients : doing'[o] \in {doing[o], NotBusy}
  BY WorkForms DEF SInv, StorageTypeOK, IOFails
<1>3. dirs' \subseteq Dirs /\ unsettled' \subseteq Clients
  BY DEF SInv, StorageTypeOK, IOFails
<1> QED BY <1>1, <1>2, <1>3, IdleKeeps DEF IOFails

LEMMA ProcessDiesKeeps == SInv /\ ProcessDies => SInv'
<1> SUFFICES ASSUME SInv, ProcessDies PROVE SInv'
  OBVIOUS
<1>1. disturbed' \subseteq Paths
  BY WorkByPc DEF SInv, StorageTypeOK, ProcessDies, Writing
<1>2. /\ doing' \in [Clients -> Work]
      /\ \A o \in Clients : doing'[o] \in {doing[o], NotBusy}
  BY WorkForms DEF SInv, StorageTypeOK, ProcessDies
<1>3. dirs' \subseteq Dirs /\ unsettled' \subseteq Clients
  BY DEF SInv, StorageTypeOK, ProcessDies
<1> QED BY <1>1, <1>2, <1>3, IdleKeeps DEF ProcessDies

(* Requests that only read. *)
LEMMA ReadForms ==
    /\ \A p \in Paths :
          /\ [pc |-> "stat", path |-> p] \in Work /\ Fitting([pc |-> "stat", path |-> p])
          /\ [pc |-> "unlink", path |-> p] \in Work /\ Fitting([pc |-> "unlink", path |-> p])
    /\ \A p \in Paths, n \in Nat :
          /\ [pc |-> "stream", path |-> p, size |-> n] \in Work
          /\ Fitting([pc |-> "stream", path |-> p, size |-> n])
    /\ \A d \in Dirs :
          /\ [pc |-> "build", dir |-> d] \in Work /\ Fitting([pc |-> "build", dir |-> d])
          /\ \A n \in Nat : /\ [pc |-> "list", dir |-> d, total |-> n] \in Work
                            /\ Fitting([pc |-> "list", dir |-> d, total |-> n])
BY DEF Work, Reading, Streaming, Unlinking, Building, Listing, Fitting

LEMMA DownloadKeeps ==
    ASSUME SInv, NEW w \in Clients, NEW p \in Paths,
           Download(w, p) \/ DeleteUserFile(w, p)
    PROVE  SInv'
<1> DEFINE stat == [pc |-> "stat", path |-> p]
           unlink == [pc |-> "unlink", path |-> p]
<1>1. stat \in Work /\ Fitting(stat) /\ stat.pc # "write"
  BY ReadForms
<1>2. unlink \in Work /\ Fitting(unlink) /\ unlink.pc # "write"
  BY ReadForms
<1>3. /\ UNCHANGED <<files, first>> /\ dirs' \subseteq Dirs /\ unsettled' \subseteq Clients
      /\ Turns(w, stat) \/ Turns(w, unlink)
  BY DEF SInv, StorageTypeOK, Download, DeleteUserFile
<1> HIDE DEF stat, unlink
<1> QED BY <1>1, <1>2, <1>3, TurnsKeep

LEMMA StatFileKeeps ==
    ASSUME SInv, NEW w \in Clients, StatFile(w)
    PROVE  SInv'
<1> DEFINE p == doing[w].path
           n == Len(files[p])
           next == IF files[p] = NoFile \/ n > Area(p).limit THEN NotBusy
                   ELSE [pc |-> "stream", path |-> p, size |-> n]
<1>1. p \in Paths
  BY WorkByPc DEF SInv, StorageTypeOK, StatFile
<1>2. files[p] # NoFile => n \in Nat
  BY <1>1 DEF SInv, StorageTypeOK
<1>3. /\ UNCHANGED <<files, first>> /\ dirs' \subseteq Dirs /\ unsettled' \subseteq Clients
      /\ Turns(w, next)
  BY DEF SInv, StorageTypeOK, StatFile
<1> HIDE DEF p, n
<1>4. next \in Work /\ Fitting(next) /\ next.pc # "write"
  BY <1>1, <1>2, ReadForms, WorkForms
<1> HIDE DEF next
<1> QED BY <1>3, <1>4, TurnsKeep

LEMMA EndsKeeps ==
    ASSUME SInv, NEW w \in Clients, StreamFile(w) \/ ListFiles(w) \/ BuildDir(w)
    PROVE  SInv'
<1>1. CASE ProcessDies
  BY <1>1, ProcessDiesKeeps
<1>2. CASE ~ProcessDies
  <2>1. /\ UNCHANGED <<files, first>> /\ unsettled' \subseteq Clients /\ Turns(w, NotBusy)
    BY <1>2 DEF SInv, StorageTypeOK, StreamFile, ListFiles, BuildDir
  <2>2. dirs' \subseteq Dirs
    BY <1>2, WorkByPc DEF SInv, StorageTypeOK, StreamFile, ListFiles, BuildDir
  <2>3. NotBusy.pc # "write"
    BY WorkForms
  <2> QED BY <2>1, <2>2, <2>3, WorkForms, TurnsKeep
<1> QED BY <1>1, <1>2

LEMMA DirectoryKeeps ==
    ASSUME SInv, NEW w \in Clients, NEW d \in Dirs,
           BuildServerPath(w, d) \/ Enumerate(w, d)
    PROVE  SInv'
<1> DEFINE n == Cardinality(FilesIn(d))
<1>1. n \in Nat
  <2>1. FilesIn(d) \subseteq Paths
    BY DEF FilesIn
  <2>2. IsFiniteSet(FilesIn(d))
    BY <2>1, StorageAssumption, FS_Subset
  <2> QED BY <2>2, FS_CardinalityType
<1> DEFINE build == [pc |-> "build", dir |-> d]
           list == [pc |-> "list", dir |-> d, total |-> n]
<1>2. /\ UNCHANGED <<files, first>> /\ dirs' \subseteq Dirs /\ unsettled' \subseteq Clients
      /\ Turns(w, build) \/ Turns(w, list)
  BY DEF SInv, StorageTypeOK, BuildServerPath, Enumerate
<1> HIDE DEF n
<1>3. build \in Work /\ Fitting(build) /\ build.pc # "write"
  BY ReadForms
<1>4. list \in Work /\ Fitting(list) /\ list.pc # "write"
  BY <1>1, ReadForms
<1> HIDE DEF build, list
<1> QED BY <1>2, <1>3, <1>4, TurnsKeep

(* The file goes, and who was writing to it writes nowhere. *)
LEMMA UnlinkKeeps ==
    ASSUME SInv, NEW w \in Clients, Unlink(w)
    PROVE  SInv'
<1> DEFINE p == doing[w].path
<1>1. p \in Paths
  BY WorkByPc DEF SInv, StorageTypeOK, Unlink
<1>2. /\ files' = [files EXCEPT ![p] = NoFile]
      /\ first' = [first EXCEPT ![p] = NoFile]
      /\ unsettled' = unsettled \cup Downloads(p)
      /\ UNCHANGED <<dirs, disturbed>>
      /\ doing' = [o \in Clients |->
                     IF o = w THEN NotBusy
                     ELSE IF doing[o].pc = "write" /\ doing[o].path = p
                          THEN [doing[o] EXCEPT !.pc = "orphan"]
                     ELSE doing[o]]
  BY DEF Unlink
<1> HIDE DEF p
<1>3. \A o \in Clients :
         /\ doing'[o] \in Work /\ Fitting(doing'[o])
         /\ doing'[o].pc = "write" => doing'[o] = doing[o] /\ doing[o].path # p
  <2> SUFFICES ASSUME NEW o \in Clients
               PROVE  /\ doing'[o] \in Work /\ Fitting(doing'[o])
                      /\ doing'[o].pc = "write" => doing'[o] = doing[o] /\ doing[o].path # p
    OBVIOUS
  <2> DEFINE orphan == [doing[o] EXCEPT !.pc = "orphan"]
  <2>1. CASE o = w
    BY <1>2, <2>1, WorkForms
  <2>2. CASE o # w /\ doing[o].pc = "write" /\ doing[o].path = p
    <3>1. doing[o] \in Writing
      BY <2>2, WorkByPc DEF SInv, StorageTypeOK
    <3>2. orphan \in Writing /\ orphan.pc = "orphan"
      BY <3>1 DEF Writing
    <3>3. doing'[o] = orphan
      BY <1>2, <2>2
    <3> HIDE DEF orphan
    <3>4. Fitting(orphan)
      BY <3>2 DEF Fitting
    <3> QED BY <3>2, <3>3, <3>4, WorkForms
  <2>3. CASE o # w /\ ~(doing[o].pc = "write" /\ doing[o].path = p)
    <3>1. doing'[o] = doing[o]
      BY <1>2, <2>3
    <3> QED BY <2>3, <3>1 DEF SInv, StorageTypeOK
  <2> QED BY <2>1, <2>2, <2>3
<1>4. doing' \in [Clients -> Work]
  BY <1>2, <1>3
<1>5. /\ files' \in [Paths -> Seq(Contents) \cup {NoFile}]
      /\ first' \in [Paths -> Seq(Contents) \cup {NoFile}]
      /\ files'[p] = NoFile /\ \A q \in Paths : q # p => files'[q] = files[q]
  BY <1>1, <1>2 DEF SInv, StorageTypeOK
<1>6. StorageTypeOK'
  BY <1>2, <1>4, <1>5 DEF SInv, StorageTypeOK, Downloads
<1>7. FilesWithinLimit'
  BY <1>5 DEF SInv, FilesWithinLimit, Area
<1>8. (\A o \in Clients : Fitting(doing[o]))'
  BY <1>3 DEF Fitting, Fits, Area
<1>9. WrittenIsThere'
  <2>1. \A o \in Clients : doing[o].pc = "write" => doing[o].path \in Paths
    BY WorkByPc DEF SInv, StorageTypeOK, Writing
  <2> QED BY <1>3, <1>5, <2>1 DEF SInv, WrittenIsThere
<1> QED BY <1>6, <1>7, <1>8, <1>9 DEF SInv

-----------------------------------------------------------------------------
LEMMA StorageStep == SInv /\ [StorageNext]_storageVars => SInv'
<1> SUFFICES ASSUME SInv, [StorageNext]_storageVars PROVE SInv'
  OBVIOUS
<1>1. CASE UNCHANGED storageVars
  BY <1>1, IdleKeeps DEF storageVars, SInv, StorageTypeOK
<1>2. CASE CrashStorage
  BY <1>2, ProcessDiesKeeps DEF CrashStorage
<1>3. CASE \E w \in Clients :
             \/ MakeDir(w) \/ OpenFile(w) \/ WriteBlock(w) \/ IOFails(w)
             \/ StatFile(w) \/ StreamFile(w) \/ Unlink(w) \/ BuildDir(w) \/ ListFiles(w)
  BY <1>3, MakeDirKeeps, OpenFileKeeps, WriteBlockKeeps, IOFailsKeeps, StatFileKeeps,
     EndsKeeps, UnlinkKeeps
<1>4. CASE \E w \in Clients, p \in Paths :
             \/ \E c \in Contents : Upload(w, p, c)
             \/ Download(w, p) \/ DeleteUserFile(w, p)
  BY <1>4, UploadKeeps, DownloadKeeps
<1>5. CASE \E w \in Clients, d \in Dirs : BuildServerPath(w, d) \/ Enumerate(w, d)
  BY <1>5, DirectoryKeeps
<1> QED BY <1>1, <1>2, <1>3, <1>4, <1>5 DEF StorageNext

(* No file in storage is larger than what its area hands out, whatever uploads,
   deletes, failures and crashes overlap: SInv adds that an upload past its
   check fits, that a write is before the end of its content, and that the
   file it writes to is there. *)
THEOREM FilesStayWithinLimit == StorageSpec => []FilesWithinLimit
<1>1. SInv => FilesWithinLimit
  BY DEF SInv
<1> QED BY <1>1, StorageStart, StorageStep, PTL DEF StorageSpec

(* Every request is at a step of its handler, over the files and directories
   of the storage. *)
THEOREM StorageIsTyped == StorageSpec => []StorageTypeOK
<1>1. SInv => StorageTypeOK
  BY DEF SInv
<1> QED BY <1>1, StorageStart, StorageStep, PTL DEF StorageSpec

-----------------------------------------------------------------------------
(* What a file holds, and what a download hands out. *)

\* A request that changes a file is the only one about it.
Sole(p) ==
    \A w, o \in Clients :
        w # o /\ p \in PathsOf(doing[w]) /\ p \in PathsOf(doing[o]) =>
            ~Changes(doing[w])

WritesTo(w, p) == doing[w].pc = "write" /\ doing[w].path = p

\* An upload found no file, and what it has written of its content is there.
Untorn(p) ==
    /\ Sole(p)
    /\ \A w \in Clients : doing[w].pc = "open" /\ doing[w].path = p => files[p] = NoFile
    /\ \A w \in Clients : WritesTo(w, p) =>
          /\ first[p] = Whole(doing[w].data)
          /\ files[p] = SubSeq(first[p], 1, doing[w].at)
    /\ (\A w \in Clients : ~WritesTo(w, p)) => files[p] = first[p]

\* A download of a file that is there and that nobody writes to.
Steady(w) ==
    doing[w].pc \in {"stat", "stream"} =>
        /\ files[doing[w].path] # NoFile
        /\ \A o \in Clients :
              doing[o].pc \in {"open", "write"} => doing[o].path # doing[w].path
        /\ doing[w].pc = "stream" => doing[w].size = Len(files[doing[w].path])

WholeInv ==
    /\ \A p \in Paths \ disturbed : Untorn(p)
    /\ \A w \in Clients \ unsettled : Steady(w)

FInv == SInv /\ WholeInv

LEMMA PathOfWork ==
    \A r \in Work : r.pc \notin {"idle", "build", "list"} =>
        r.path \in Paths /\ PathsOf(r) = {r.path}
BY DEF Work, NotBusy, Storing, Writing, Reading, Streaming, Unlinking, Building, Listing,
       PathsOf

LEMMA NoPathOfIdle == PathsOf(NotBusy) = {} /\ ~Changes(NotBusy) /\ NotBusy.pc = "idle"
BY DEF PathsOf, NotBusy, Changes

(* A request that turns to its next step meets no other on a path that stays
   undisturbed. *)
LEMMA SoleTurns ==
    ASSUME StorageTypeOK, NEW w \in Clients, NEW r \in Work, Turns(w, r),
           NEW p \in Paths \ disturbed', Sole(p)
    PROVE  Sole(p)'
<1>1. doing'[w] = r /\ \A o \in Clients \ {w} : doing'[o] = doing[o]
  BY DEF Turns, StorageTypeOK
<1>2. \A o \in Clients \ {w} : p \in PathsOf(r) /\ p \in PathsOf(doing[o]) =>
          ~Changes(r) /\ ~Changes(doing[o])
  BY DEF Turns, Contested
<1>3. ASSUME NEW a \in Clients, NEW b \in Clients, a # b,
             p \in PathsOf(doing'[a]), p \in PathsOf(doing'[b])
      PROVE  ~Changes(doing'[a])
  <2>1. CASE a = w
    BY <1>1, <1>2, <1>3, <2>1
  <2>2. CASE b = w
    BY <1>1, <1>2, <1>3, <2>2
  <2>3. CASE a # w /\ b # w
    BY <1>1, <1>3, <2>3 DEF Sole
  <2> QED BY <2>1, <2>2, <2>3
<1>4. QED
  BY <1>3 DEF Sole, PathsOf, Changes

(* A step between a look and an act, that touches no file: what it leaves
   undisturbed stays as it was, and so do the other downloads. *)
LEMMA LookKeeps ==
    ASSUME FInv, NEW w \in Clients, NEW r \in Work, Turns(w, r),
           UNCHANGED <<files, first>>,
           doing[w].pc # "write", r.pc # "write",
           r.pc = "open" => files[r.path] = NoFile,
           \A o \in Clients \ {w} : o \notin unsettled' => o \notin unsettled,
           w \notin unsettled' /\ r.pc \in {"stat", "stream"} =>
              /\ files[r.path] # NoFile
              /\ \A o \in Clients \ {w} :
                    doing[o].pc \in {"open", "write"} => doing[o].path # r.path
              /\ r.pc = "stream" => r.size = Len(files[r.path])
    PROVE  WholeInv'
<1>1. doing'[w] = r /\ \A o \in Clients \ {w} : doing'[o] = doing[o]
  BY DEF Turns, FInv, SInv, StorageTypeOK
<1>2. disturbed \subseteq disturbed'
  BY DEF Turns
<1>3. ASSUME NEW p \in Paths \ disturbed'
      PROVE  Untorn(p)'
  <2>1. Untorn(p)
    BY <1>2 DEF FInv, WholeInv
  <2>2. Sole(p)'
    BY <2>1, SoleTurns DEF Untorn, FInv, SInv
  <2>3. \A o \in Clients : doing'[o].pc = "open" /\ doing'[o].path = p => files'[p] = NoFile
    BY <1>1, <2>1 DEF Untorn
  <2>4. \A o \in Clients : WritesTo(o, p)' <=> WritesTo(o, p) /\ o # w
    BY <1>1 DEF WritesTo
  <2>5. \A o \in Clients : WritesTo(o, p) => o # w
    BY DEF WritesTo
  <2>6. QED
    BY <1>1, <2>1, <2>2, <2>3, <2>4, <2>5 DEF Untorn
<1>4. ASSUME NEW o \in Clients \ unsettled'
      PROVE  Steady(o)'
  <2>1. CASE o = w
    BY <1>1, <2>1 DEF Steady
  <2>2. CASE o # w
    <3>1. Steady(o) /\ doing'[o] = doing[o]
      BY <1>1, <2>2 DEF FInv, WholeInv
    <3>2. QED
      BY <1>1, <2>2, <3>1 DEF Steady
  <2>3. QED
    BY <2>1, <2>2
<1>5. QED
  BY <1>3, <1>4 DEF WholeInv

(* The steps of a request that only looks, or that ends. *)
LEMMA AfterMkdirWhole ==
    ASSUME FInv, NEW w \in Clients, NEW p \in Paths, NEW c \in Contents,
           AfterMkdir(w, p, c), UNCHANGED <<files, first, unsettled>>,
           doing[w].pc # "write"
    PROVE  WholeInv'
<1>1. CASE files[p] # NoFile
  BY <1>1, LookKeeps, WorkForms, NoPathOfIdle DEF AfterMkdir
<1>2. CASE files[p] = NoFile
  <2> DEFINE open == [pc |-> "open", path |-> p, data |-> c]
  <2>1. open \in Work /\ open.pc = "open" /\ open.path = p
    BY WorkForms
  <2>2. Turns(w, open)
    BY <1>2 DEF AfterMkdir
  <2> HIDE DEF open
  <2>3. QED
    BY <1>2, <2>1, <2>2, LookKeeps
<1>3. QED
  BY <1>1, <1>2

LEMMA UploadWhole ==
    ASSUME FInv, NEW w \in Clients, NEW p \in Paths, NEW c \in Contents, Upload(w, p, c)
    PROVE  WholeInv'
<1> DEFINE mkdir == [pc |-> "mkdir", path |-> p, data |-> c]
<1>1. mkdir \in Work /\ mkdir.pc = "mkdir"
  BY WorkForms
<1>2. /\ AfterMkdir(w, p, c) \/ Turns(w, mkdir)
      /\ UNCHANGED <<files, first, unsettled>> /\ doing[w].pc = "idle"
  BY NoPathOfIdle DEF Upload
<1> HIDE DEF mkdir
<1>3. QED
  BY <1>1, <1>2, AfterMkdirWhole, LookKeeps

LEMMA MakeDirWhole ==
    ASSUME FInv, NEW w \in Clients, MakeDir(w)
    PROVE  WholeInv'
<1>1. doing[w].path \in Paths /\ doing[w].data \in Contents
  BY WorkByPc DEF FInv, SInv, StorageTypeOK, MakeDir, Storing
<1>2. QED
  BY <1>1, AfterMkdirWhole DEF MakeDir

LEMMA DownloadWhole ==
    ASSUME FInv, NEW w \in Clients, NEW p \in Paths, Download(w, p)
    PROVE  WholeInv'
<1> DEFINE stat == [pc |-> "stat", path |-> p]
<1>1. stat \in Work /\ stat.pc = "stat" /\ stat.path = p
  BY ReadForms
<1>2. /\ files[p] # NoFile /\ Turns(w, stat) /\ UNCHANGED <<files, first>>
      /\ doing[w].pc = "idle"
      /\ unsettled' = IF \E o \in Clients : Changes(doing[o]) /\ doing[o].path = p
                      THEN unsettled \cup {w} ELSE unsettled \ {w}
  BY NoPathOfIdle DEF Download
<1>3. w \notin unsettled' =>
          \A o \in Clients : doing[o].pc \in {"open", "write"} => doing[o].path # p
  BY <1>2 DEF Changes
<1>4. \A o \in Clients \ {w} : o \notin unsettled' => o \notin unsettled
  BY <1>2
<1> HIDE DEF stat
<1>5. QED
  BY <1>1, <1>2, <1>3, <1>4, LookKeeps

LEMMA StatFileWhole ==
    ASSUME FInv, NEW w \in Clients, StatFile(w)
    PROVE  WholeInv'
<1> DEFINE p == doing[w].path
           stream == [pc |-> "stream", path |-> p, size |-> Len(files[p])]
<1>1. doing[w].pc = "stat" /\ p \in Paths
  BY WorkByPc DEF FInv, SInv, StorageTypeOK, StatFile
<1>2. UNCHANGED <<files, first, unsettled>>
  BY DEF StatFile
<1>3. \/ Turns(w, NotBusy)
      \/ Turns(w, stream) /\ files[p] # NoFile
  BY DEF StatFile
<1>4. ASSUME Turns(w, stream), files[p] # NoFile
      PROVE  WholeInv'
  <2>1. Len(files[p]) \in Nat
    BY <1>1, <1>4 DEF FInv, SInv, StorageTypeOK
  <2>2. /\ stream \in Work /\ stream.pc = "stream" /\ stream.path = p
        /\ stream.size = Len(files[p])
    BY <1>1, <2>1, ReadForms
  <2>3. w \notin unsettled =>
            \A o \in Clients : doing[o].pc \in {"open", "write"} => doing[o].path # p
    BY <1>1 DEF FInv, WholeInv, Steady
  <2> HIDE DEF stream
  <2>4. QED
    BY <1>1, <1>2, <1>4, <2>2, <2>3, LookKeeps
<1>5. ASSUME Turns(w, NotBusy)
      PROVE  WholeInv'
  BY <1>1, <1>2, <1>5, LookKeeps, WorkForms
<1>6. QED
  BY <1>3, <1>4, <1>5

LEMMA OtherLooksWhole ==
    ASSUME FInv, NEW w \in Clients,
           \/ ListFiles(w) \/ BuildDir(w)
           \/ StreamFile(w) /\ ~ProcessDies
           \/ \E p \in Paths : DeleteUserFile(w, p)
           \/ \E d \in Dirs : BuildServerPath(w, d) \/ Enumerate(w, d)
    PROVE  WholeInv'
<1>1. \E r \in Work : Turns(w, r) /\ r.pc \in {"idle", "unlink", "build", "list"}
  <2>1. CASE ListFiles(w) \/ BuildDir(w) \/ (StreamFile(w) /\ ~ProcessDies)
    <3>1. Turns(w, NotBusy)
      BY <2>1 DEF ListFiles, BuildDir, StreamFile
    <3>2. QED
      BY <3>1, WorkForms
  <2>2. CASE \E p \in Paths : DeleteUserFile(w, p)
    BY <2>2, ReadForms DEF DeleteUserFile
  <2>3. CASE \E d \in Dirs : BuildServerPath(w, d)
    BY <2>3, ReadForms DEF BuildServerPath
  <2>4. CASE \E d \in Dirs : Enumerate(w, d)
    <3>1. PICK d \in Dirs : Enumerate(w, d)
      BY <2>4
    <3> DEFINE n == Cardinality(FilesIn(d))
    <3>2. FilesIn(d) \subseteq Paths
      BY DEF FilesIn
    <3>3. n \in Nat
      BY <3>2, StorageAssumption, FS_Subset, FS_CardinalityType
    <3>4. Turns(w, [pc |-> "list", dir |-> d, total |-> n])
      BY <3>1 DEF Enumerate
    <3> HIDE DEF n
    <3>5. [pc |-> "list", dir |-> d, total |-> n] \in Work
      BY <3>3, ReadForms
    <3>6. QED
      BY <3>4, <3>5
  <2>5. QED
    BY <2>1, <2>2, <2>3, <2>4
<1>2. UNCHANGED <<files, first, unsettled>> /\ doing[w].pc # "write"
  BY NoPathOfIdle
     DEF ListFiles, BuildDir, StreamFile, DeleteUserFile, BuildServerPath, Enumerate
<1>3. QED
  BY <1>1, <1>2, LookKeeps

(* What is written of a content, and the next block of it. *)
LEMMA WrittenPart ==
    ASSUME NEW c \in Contents, NEW n \in Nat, n < SizeOf[c]
    PROVE  /\ Overwritten(SubSeq(Whole(c), 1, n), n, c) = SubSeq(Whole(c), 1, n + 1)
           /\ SubSeq(Whole(c), 1, 0) = <<>>
           /\ n + 1 = SizeOf[c] => SubSeq(Whole(c), 1, n + 1) = Whole(c)
<1>1. SizeOf[c] \in Nat \ {0}
  BY SizeIsPositive
<1>2. Whole(c) \in Seq(Contents) /\ Len(Whole(c)) = SizeOf[c]
      /\ \A i \in 1..SizeOf[c] : Whole(c)[i] = c
  BY <1>1 DEF Whole
<1> HIDE DEF Whole
<1>3. \A m \in 0..SizeOf[c] :
          /\ SubSeq(Whole(c), 1, m) \in Seq(Contents)
          /\ Len(SubSeq(Whole(c), 1, m)) = m
          /\ \A i \in 1..m : SubSeq(Whole(c), 1, m)[i] = c
  BY <1>1, <1>2
<1>4. Overwritten(SubSeq(Whole(c), 1, n), n, c) = Append(SubSeq(Whole(c), 1, n), c)
  BY <1>1, <1>3 DEF Overwritten
<1>5. Append(SubSeq(Whole(c), 1, n), c) = SubSeq(Whole(c), 1, n + 1)
  <2> DEFINE part == SubSeq(Whole(c), 1, n)
             next == SubSeq(Whole(c), 1, n + 1)
  <2>1. /\ part \in Seq(Contents) /\ Len(part) = n /\ \A i \in 1..n : part[i] = c
        /\ next \in Seq(Contents) /\ Len(next) = n + 1 /\ \A i \in 1..n+1 : next[i] = c
    BY <1>1, <1>3
  <2> HIDE DEF part, next
  <2>2. /\ Append(part, c) \in Seq(Contents) /\ Len(Append(part, c)) = n + 1
        /\ \A i \in 1..n+1 : Append(part, c)[i] = c
    BY <2>1
  <2>3. Append(part, c) = next
    BY <2>1, <2>2
  <2>4. QED
    BY <2>3 DEF part, next
<1>6. n + 1 = SizeOf[c] => SubSeq(Whole(c), 1, n + 1) = Whole(c)
  BY <1>1, <1>2
<1>7. SubSeq(Whole(c), 1, 0) = <<>>
  BY <1>1, <1>2, <1>3
<1>8. QED
  BY <1>4, <1>5, <1>6, <1>7

LEMMA OpenFileWhole ==
    ASSUME FInv, NEW w \in Clients, OpenFile(w)
    PROVE  WholeInv'
<1> DEFINE p == doing[w].path
           c == doing[w].data
           write == [pc |-> "write", path |-> p, data |-> c, at |-> 0]
<1>1. p \in Paths /\ c \in Contents /\ doing[w].pc = "open" /\ doing[w] \in Work
  BY WorkByPc DEF FInv, SInv, StorageTypeOK, OpenFile, Storing
<1>2. /\ files' = [files EXCEPT ![p] = <<>>]
      /\ first' = [first EXCEPT ![p] = IF files[p] = NoFile THEN Whole(c) ELSE @]
      /\ Turns(w, write) /\ UNCHANGED unsettled
  BY DEF OpenFile
<1>3. p \in PathsOf(doing[w])
  BY <1>1, PathOfWork
<1> HIDE DEF p, c
<1>4. /\ write \in Work /\ write.pc = "write" /\ write.path = p /\ write.data = c
      /\ write.at = 0
  BY <1>1, WorkForms
<1> HIDE DEF write
<1>5. /\ doing'[w] = write /\ \A o \in Clients \ {w} : doing'[o] = doing[o]
      /\ disturbed \subseteq disturbed'
  BY <1>2 DEF Turns, FInv, SInv, StorageTypeOK
<1>6. /\ files'[p] = <<>> /\ first'[p] = IF files[p] = NoFile THEN Whole(c) ELSE first[p]
      /\ \A q \in Paths \ {p} : files'[q] = files[q] /\ first'[q] = first[q]
  BY <1>1, <1>2 DEF FInv, SInv, StorageTypeOK
<1>7. \A o \in Clients : doing[o].pc \in {"open", "write"} =>
          doing[o].path \in Paths /\ PathsOf(doing[o]) = {doing[o].path}
  BY PathOfWork DEF FInv, SInv, StorageTypeOK
<1>8. ASSUME NEW q \in Paths \ disturbed'
      PROVE  Untorn(q)'
  <2>1. Untorn(q)
    BY <1>5 DEF FInv, WholeInv
  <2>2. Sole(q)'
    BY <1>2, <1>4, <2>1, SoleTurns DEF Untorn, FInv, SInv
  <2>3. CASE q # p
    <3>1. \A o \in Clients : WritesTo(o, q)' <=> WritesTo(o, q)
      BY <1>1, <1>4, <1>5, <2>3 DEF WritesTo
    <3>2. QED
      BY <1>4, <1>5, <1>6, <2>1, <2>2, <2>3, <3>1 DEF Untorn, WritesTo
  <2>4. CASE q = p
    <3>1. files[p] = NoFile
      BY <1>1, <2>1, <2>4 DEF Untorn, p
    <3>2. \A o \in Clients \ {w} : p \notin PathsOf(doing[o])
      BY <1>1, <1>3, <2>1, <2>4 DEF Untorn, Sole, Changes
    <3>3. \A o \in Clients \ {w} :
              doing'[o].pc \in {"open", "write"} => doing'[o].path # p
      BY <1>5, <1>7, <3>2
    <3>4. first'[p] = Whole(c) /\ files'[p] = SubSeq(Whole(c), 1, 0)
      BY <1>1, <1>6, <3>1, WrittenPart, SizeIsPositive
    <3>5. QED
      BY <1>4, <1>5, <2>2, <2>4, <3>3, <3>4 DEF Untorn, WritesTo
  <2>5. QED
    BY <2>3, <2>4
<1>9. ASSUME NEW o \in Clients \ unsettled'
      PROVE  Steady(o)'
  <2>1. Steady(o)
    BY <1>2 DEF FInv, WholeInv
  <2>2. CASE doing'[o].pc \in {"stat", "stream"}
    <3>1. o # w /\ doing'[o] = doing[o]
      BY <1>4, <1>5, <2>2
    <3>2. doing[o].path \in Paths /\ doing[o].path # p
      BY <1>1, <2>1, <2>2, <3>1, PathOfWork DEF Steady, FInv, SInv, StorageTypeOK, p
    <3>3. QED
      BY <1>4, <1>5, <1>6, <2>1, <2>2, <3>1, <3>2 DEF Steady
  <2>3. QED
    BY <2>2 DEF Steady
<1>10. QED
  BY <1>8, <1>9 DEF WholeInv

LEMMA WriteBlockWhole ==
    ASSUME FInv, NEW w \in Clients, WriteBlock(w)
    PROVE  WholeInv'
<1> DEFINE r == doing[w]
           p == doing[w].path
<1>1. /\ r \in Work /\ r \in Writing /\ r.pc \in {"write", "orphan"}
      /\ p \in Paths /\ r.data \in Contents /\ r.at \in Nat
      /\ r.pc = "write" => r.at < SizeOf[r.data]
      /\ PathsOf(r) = {p}
  BY WorkByPc, PathOfWork DEF FInv, SInv, StorageTypeOK, WriteBlock, Writing, Fitting
<1>2. /\ files' = IF r.pc = "orphan" THEN files
                  ELSE [files EXCEPT ![p] = Overwritten(@, r.at, r.data)]
      /\ Turns(w, Advanced(r)) /\ UNCHANGED <<first, unsettled>>
  BY DEF WriteBlock
<1>3. /\ doing'[w] = Advanced(r) /\ \A o \in Clients \ {w} : doing'[o] = doing[o]
      /\ disturbed \subseteq disturbed'
  BY <1>2 DEF Turns, FInv, SInv, StorageTypeOK
<1>4. \/ Advanced(r) = NotBusy /\ r.at + 1 = SizeOf[r.data]
      \/ /\ Advanced(r).pc = r.pc /\ Advanced(r).path = p /\ Advanced(r).data = r.data
         /\ Advanced(r).at = r.at + 1
  BY <1>1 DEF Advanced, Writing
<1>5. Advanced(r) \in Work
  <2>1. [r EXCEPT !.at = @ + 1] \in Writing
    BY <1>1 DEF Writing
  <2>2. QED
    BY <2>1, WorkForms DEF Advanced
<1>6. \A q \in Paths : q # p \/ r.pc = "orphan" => files'[q] = files[q]
  BY <1>2 DEF FInv, SInv, StorageTypeOK
<1>7. r.pc = "write" => files'[p] = Overwritten(files[p], r.at, r.data)
  BY <1>1, <1>2 DEF FInv, SInv, StorageTypeOK
<1>8. ASSUME NEW q \in Paths \ disturbed'
      PROVE  Untorn(q)'
  <2>1. Untorn(q)
    BY <1>3 DEF FInv, WholeInv
  <2>2. Sole(q)'
    BY <1>2, <1>5, <2>1, SoleTurns DEF Untorn, FInv, SInv
  <2>3. \A o \in Clients : doing'[o].pc = "open" => o # w /\ doing[o] = doing'[o]
    BY <1>1, <1>3, <1>4, NoPathOfIdle
  <2>4. CASE q # p \/ r.pc = "orphan"
    <3>1. \A o \in Clients : WritesTo(o, q) \/ WritesTo(o, q)' => o # w
      BY <1>1, <1>3, <1>4, <2>4, NoPathOfIdle DEF WritesTo
    <3>2. \A o \in Clients : WritesTo(o, q)' <=> WritesTo(o, q)
      BY <1>3, <3>1 DEF WritesTo
    <3>3. QED
      BY <1>2, <1>3, <1>6, <2>1, <2>2, <2>3, <2>4, <3>1, <3>2 DEF Untorn
  <2>5. CASE q = p /\ r.pc = "write"
    <3>1. \A o \in Clients \ {w} : p \notin PathsOf(doing[o])
      BY <1>1, <2>1, <2>5 DEF Untorn, Sole, Changes
    <3>2. \A o \in Clients \ {w} : doing[o].pc \in {"open", "write"} => doing[o].path # p
      BY <3>1, PathOfWork DEF FInv, SInv, StorageTypeOK
    <3>3. first[p] = Whole(r.data) /\ files[p] = SubSeq(Whole(r.data), 1, r.at)
      BY <2>1, <2>5 DEF Untorn, WritesTo
    <3>4. /\ files'[p] = SubSeq(Whole(r.data), 1, r.at + 1)
          /\ r.at + 1 = SizeOf[r.data] => files'[p] = Whole(r.data)
      BY <1>1, <1>7, <2>5, <3>3, WrittenPart
    <3>5. \A o \in Clients \ {w} : ~WritesTo(o, q)'
      BY <1>3, <2>5, <3>2 DEF WritesTo
    <3>6. \A o \in Clients : doing'[o].pc = "open" => doing'[o].path # q
      BY <2>3, <2>5, <3>2
    <3>7. CASE Advanced(r) = NotBusy
      <4>1. ~WritesTo(w, q)'
        BY <1>3, <3>7, NoPathOfIdle DEF WritesTo
      <4>2. files'[q] = first'[q]
        BY <1>1, <1>2, <1>4, <2>5, <3>3, <3>4, <3>7, NoPathOfIdle
      <4>3. QED
        BY <2>2, <2>5, <3>5, <3>6, <4>1, <4>2 DEF Untorn
    <3>8. CASE Advanced(r) # NotBusy
      <4>1. /\ WritesTo(w, q)' /\ doing'[w].data = r.data /\ doing'[w].at = r.at + 1
        BY <1>3, <1>4, <2>5, <3>8 DEF WritesTo
      <4>2. first'[q] = Whole(doing'[w].data) /\ files'[q] = SubSeq(first'[q], 1, doing'[w].at)
        BY <1>2, <2>5, <3>3, <3>4, <4>1
      <4>3. QED
        BY <2>2, <2>5, <3>5, <3>6, <4>1, <4>2 DEF Untorn
    <3>9. QED
      BY <3>7, <3>8
  <2>6. QED
    BY <1>1, <2>4, <2>5
<1>9. ASSUME NEW o \in Clients \ unsettled'
      PROVE  Steady(o)'
  <2>1. Steady(o)
    BY <1>2 DEF FInv, WholeInv
  <2>2. CASE doing'[o].pc \in {"stat", "stream"}
    <3>1. o # w /\ doing'[o] = doing[o]
      BY <1>1, <1>3, <1>4, <2>2, NoPathOfIdle
    <3>2. doing[o].path \in Paths /\ (r.pc = "write" => doing[o].path # p)
      BY <2>1, <2>2, <3>1, PathOfWork DEF Steady, FInv, SInv, StorageTypeOK
    <3>3. files'[doing[o].path] = files[doing[o].path]
      BY <1>1, <1>6, <3>2
    <3>4. \A x \in Clients : doing'[x].pc \in {"open", "write"} => doing'[x].path # doing[o].path
      <4>1. \A x \in Clients \ {w} :
                doing'[x].pc \in {"open", "write"} => doing'[x].path # doing[o].path
        BY <1>3, <2>1, <2>2, <3>1 DEF Steady
      <4>2. doing'[w].pc \in {"open", "write"} => doing'[w].path # doing[o].path
        BY <1>1, <1>3, <1>4, <3>2, NoPathOfIdle
      <4>3. QED
        BY <4>1, <4>2
    <3>5. QED
      BY <2>1, <2>2, <3>1, <3>3, <3>4 DEF Steady
  <2>3. QED
    BY <2>2 DEF Steady
<1>10. QED
  BY <1>8, <1>9 DEF WholeInv

(* A delete leaves no file, nobody that writes to one, and no download that
   counts on it. *)
LEMMA UnlinkWhole ==
    ASSUME FInv, NEW w \in Clients, Unlink(w)
    PROVE  WholeInv'
<1> DEFINE p == doing[w].path
<1>1. p \in Paths
  BY WorkByPc DEF FInv, SInv, StorageTypeOK, Unlink
<1>2. /\ files'[p] = NoFile /\ first'[p] = NoFile
      /\ \A q \in Paths \ {p} : files'[q] = files[q] /\ first'[q] = first[q]
      /\ unsettled' = unsettled \cup Downloads(p) /\ disturbed' = disturbed
  BY <1>1 DEF Unlink, FInv, SInv, StorageTypeOK
<1>3. /\ doing'[w] = NotBusy
      /\ \A o \in Clients \ {w} :
            \/ doing'[o] = doing[o] /\ ~WritesTo(o, p)
            \/ /\ WritesTo(o, p) /\ doing'[o].pc = "orphan" /\ doing'[o].path = p
               /\ PathsOf(doing'[o]) = {p}
  <2>1. \A o \in Clients : WritesTo(o, p) => doing[o] \in Writing
    BY WorkByPc DEF WritesTo, FInv, SInv, StorageTypeOK
  <2>2. ASSUME NEW o \in Clients, WritesTo(o, p)
        PROVE  LET orphan == [doing[o] EXCEPT !.pc = "orphan"]
               IN  orphan.pc = "orphan" /\ orphan.path = p /\ PathsOf(orphan) = {p}
    BY <2>1, <2>2 DEF Writing, WritesTo, PathsOf
  <2>3. doing' = [o \in Clients |->
                     IF o = w THEN NotBusy
                     ELSE IF WritesTo(o, p) THEN [doing[o] EXCEPT !.pc = "orphan"]
                     ELSE doing[o]]
    BY DEF Unlink, WritesTo
  <2>4. QED
    BY <2>2, <2>3
<1>4. \A o \in Clients : /\ PathsOf(doing'[o]) \subseteq PathsOf(doing[o])
                         /\ Changes(doing'[o]) => Changes(doing[o])
                         /\ doing'[o].pc \in {"open", "write"} => doing'[o] = doing[o]
  <2>1. \A o \in Clients : WritesTo(o, p) => PathsOf(doing[o]) = {p}
    BY PathOfWork DEF WritesTo, FInv, SInv, StorageTypeOK
  <2>2. QED
    BY <1>3, <2>1, NoPathOfIdle DEF Changes, WritesTo
<1> HIDE DEF p
<1>5. ASSUME NEW q \in Paths \ disturbed'
      PROVE  Untorn(q)'
  <2>1. Untorn(q)
    BY <1>2 DEF FInv, WholeInv
  <2>2. Sole(q)'
    BY <1>4, <2>1 DEF Untorn, Sole
  <2>3. CASE q = p
    <3>1. \A o \in Clients : ~WritesTo(o, q)'
      BY <1>3, <2>3, NoPathOfIdle DEF WritesTo
    <3>2. QED
      BY <1>2, <2>2, <2>3, <3>1 DEF Untorn
  <2>4. CASE q # p
    <3>1. \A o \in Clients : WritesTo(o, q)' <=> WritesTo(o, q)
      <4>1. ~WritesTo(w, q)
        BY DEF Unlink, WritesTo
      <4>2. QED
        BY <1>3, <2>4, <4>1, NoPathOfIdle DEF WritesTo
    <3>2. \A o \in Clients : WritesTo(o, q)' => doing'[o] = doing[o]
      BY <1>4 DEF WritesTo
    <3>3. QED
      BY <1>2, <1>4, <2>1, <2>2, <2>4, <3>1, <3>2 DEF Untorn
  <2>5. QED
    BY <2>3, <2>4
<1>6. ASSUME NEW o \in Clients \ unsettled'
      PROVE  Steady(o)'
  <2>1. Steady(o) /\ o \notin Downloads(p)
    BY <1>2 DEF FInv, WholeInv
  <2>2. CASE doing'[o].pc \in {"stat", "stream"}
    <3>1. o # w /\ doing'[o] = doing[o]
      BY <1>3, <2>2, NoPathOfIdle
    <3>2. doing[o].path \in Paths \ {p}
      BY <2>1, <2>2, <3>1, PathOfWork DEF Downloads, FInv, SInv, StorageTypeOK
    <3>3. QED
      BY <1>2, <1>4, <2>1, <2>2, <3>1, <3>2 DEF Steady
  <2>3. QED
    BY <2>2 DEF Steady
<1>7. QED
  BY <1>5, <1>6 DEF WholeInv

(* Requests that end with nothing done: a write that ends so disturbs its path. *)
LEMMA EndingWhole ==
    ASSUME FInv, UNCHANGED <<files, first, unsettled>>,
           disturbed \subseteq disturbed',
           \A o \in Clients :
              \/ doing'[o] = doing[o]
              \/ doing'[o] = NotBusy /\ (doing[o].pc = "write" => doing[o].path \in disturbed')
    PROVE  WholeInv'
<1>1. ASSUME NEW q \in Paths \ disturbed'
      PROVE  Untorn(q)'
  <2>1. Untorn(q)
    BY DEF FInv, WholeInv
  <2>2. \A o \in Clients : doing'[o] \in {doing[o], NotBusy}
    OBVIOUS
  <2>3. Sole(q)'
    BY <2>1, <2>2, NoPathOfIdle DEF Untorn, Sole
  <2>4. \A o \in Clients : WritesTo(o, q) => doing'[o] = doing[o]
    BY DEF WritesTo
  <2>5. \A o \in Clients : WritesTo(o, q)' => doing'[o] = doing[o]
    BY <2>2, NoPathOfIdle DEF WritesTo
  <2>6. \A o \in Clients : WritesTo(o, q)' <=> WritesTo(o, q)
    BY <2>4, <2>5 DEF WritesTo
  <2>7. \A o \in Clients : doing'[o].pc = "open" => doing'[o] = doing[o]
    BY <2>2, NoPathOfIdle
  <2>8. QED
    BY <2>1, <2>3, <2>5, <2>6, <2>7 DEF Untorn
<1>2. ASSUME NEW o \in Clients \ unsettled'
      PROVE  Steady(o)'
  <2>1. Steady(o)
    BY DEF FInv, WholeInv
  <2>2. \A x \in Clients :
            doing'[x].pc \in {"stat", "stream", "open", "write"} => doing'[x] = doing[x]
    BY NoPathOfIdle
  <2>3. QED
    BY <2>1, <2>2 DEF Steady
<1>3. QED
  BY <1>1, <1>2 DEF WholeInv

LEMMA ProcessDiesWhole == FInv /\ ProcessDies => WholeInv'
BY EndingWhole DEF ProcessDies

LEMMA IOFailsWhole == ASSUME FInv, NEW w \in Clients, IOFails(w) PROVE WholeInv'
BY EndingWhole DEF IOFails, FInv, SInv, StorageTypeOK

LEMMA WholeStep == FInv /\ [StorageNext]_storageVars => FInv'
<1> SUFFICES ASSUME FInv, [StorageNext]_storageVars PROVE WholeInv'
  BY StorageStep DEF FInv
<1>1. CASE UNCHANGED storageVars
  BY <1>1, EndingWhole DEF storageVars
<1>2. CASE CrashStorage
  BY <1>2, ProcessDiesWhole DEF CrashStorage
<1>3. ASSUME NEW w \in Clients,
             \/ MakeDir(w) \/ OpenFile(w) \/ WriteBlock(w) \/ IOFails(w)
             \/ StatFile(w) \/ StreamFile(w) \/ Unlink(w) \/ BuildDir(w) \/ ListFiles(w)
      PROVE  WholeInv'
  BY <1>3, MakeDirWhole, OpenFileWhole, WriteBlockWhole, IOFailsWhole, StatFileWhole,
     ProcessDiesWhole, OtherLooksWhole, UnlinkWhole
<1>4. ASSUME NEW w \in Clients, NEW p \in Paths,
             \/ \E c \in Contents : Upload(w, p, c)
             \/ Download(w, p) \/ DeleteUserFile(w, p)
      PROVE  WholeInv'
  BY <1>4, UploadWhole, DownloadWhole, OtherLooksWhole
<1>5. ASSUME NEW w \in Clients, NEW d \in Dirs, BuildServerPath(w, d) \/ Enumerate(w, d)
      PROVE  WholeInv'
  BY <1>5, OtherLooksWhole
<1> QED BY <1>1, <1>2, <1>3, <1>4, <1>5 DEF StorageNext

LEMMA WholeAlways == StorageSpec => []FInv
<1>1. StorageInit => FInv
  <2> SUFFICES ASSUME StorageInit PROVE WholeInv
    BY StorageStart DEF FInv
  <2>1. \A w \in Clients : doing[w] = NotBusy
    BY DEF StorageInit
  <2>2. first = files
    BY DEF StorageInit
  <2>3. QED
    BY <2>1, <2>2, NoPathOfIdle DEF WholeInv, Untorn, Sole, WritesTo, Steady
<1> QED BY <1>1, WholeStep, PTL DEF StorageSpec

(* An upload that meets no other request about its path, and that neither fails
   nor is cut off, leaves the whole of its content, for good: the existsSync
   that comes before the write keeps later uploads off. *)
THEOREM FilesStayWhole == StorageSpec => []StoredWhole
<1>1. FInv => StoredWhole
  BY DEF FInv, WholeInv, Untorn, WritesTo, StoredWhole
<1> QED BY <1>1, WholeAlways, PTL

(* A download streams as many blocks as its Content-Length said, whatever
   uploads of the path begin between its exists, its stat and its stream. *)
THEOREM DownloadsMatch == StorageSpec => []ServedAsAnnounced
<1>1. FInv => ServedAsAnnounced
  BY DEF FInv, WholeInv, Steady, ServedAsAnnounced
<1> QED BY <1>1, WholeAlways, PTL

-----------------------------------------------------------------------------
(* QoS files.                                                              *)

\* Where a walk is when it is about to unlink the file of `s`.
AtFile(r, s) == r.pc = "unlink" /\ r.s = s

\* `s` was deleted, has a file of its own spelling, and no unlink was missed.
Owed(s) == <<s, Normal>> \in purged /\ <<s, Normal>> \in qosFiles /\ s \notin leaked

\* That the file which is owed is about to be unlinked is inductive once it is
\* known that deletions are of four kinds.
QInv ==
    /\ QosTypeOK
    /\ purging = [p \in Purgers |-> purging[p]]
    /\ \A file \in purged : file = <<file[1], file[2]>>
    /\ \A s : Owed(s) => \E p \in Purgers : AtFile(purging[p], s)

-----------------------------------------------------------------------------
(* Between two sessions, a walk is about to unlink nothing. *)
LEMMA OnwardPc == \A rest : Onward(rest).pc \in {"idle", "delete"}
BY DEF Onward, Finished

(* After a delete, a walk is about to unlink the file if there is one. *)
LEMMA FileTherePc ==
    ASSUME NEW s, NEW rest
    PROVE  /\ FileThere(s, rest).pc \in {"idle", "delete", "unlink"}
           /\ <<s, Normal>> \in qosFiles => AtFile(FileThere(s, rest), s)
<1>1. CASE <<s, Normal>> \in qosFiles
  BY <1>1 DEF FileThere, AtFile
<1>2. CASE <<s, Normal>> \notin qosFiles
  BY <1>2, OnwardPc DEF FileThere
<1> QED BY <1>1, <1>2

\* A deletion moves on to `r`, from a step other than an unlink to be done, or
\* past a file that is gone or given up.
MovesTo(p, r) ==
    /\ r.pc \in {"idle", "save", "delete", "unlink"}
    /\ r.pc = "save" => r.s \in QosSessions
    /\ purging' = [purging EXCEPT ![p] = r]
    /\ listed' \subseteq QosSessions
    /\ qosFiles' \subseteq qosFiles
    /\ \A file \in purged' : file = <<file[1], file[2]>>
    /\ \A s : Owed(s)' => \/ Owed(s) /\ ~AtFile(purging[p], s)
                          \/ AtFile(r, s)

(* When one deletion moves on, the others stay at the files they are about to
   unlink. *)
LEMMA WalkMoves ==
    ASSUME QInv, NEW p \in Purgers, NEW r, MovesTo(p, r)
    PROVE  QInv'
<1> USE DEF MovesTo
<1>1. /\ purging' = [q \in Purgers |-> purging'[q]]
      /\ purging'[p] = r
      /\ \A q \in Purgers : q # p => purging'[q] = purging[q]
  BY DEF QInv
<1>2. QosTypeOK'
  BY <1>1 DEF QInv, QosTypeOK
<1>3. ASSUME NEW s, Owed(s)'
      PROVE  \E q \in Purgers : AtFile(purging[q], s)'
  <2>1. CASE Owed(s) /\ ~AtFile(purging[p], s)
    <3>1. PICK q \in Purgers : AtFile(purging[q], s)
      BY <2>1 DEF QInv
    <3>2. q # p
      BY <2>1, <3>1
    <3> QED BY <1>1, <3>1, <3>2 DEF AtFile
  <2>2. CASE AtFile(r, s)
    BY <1>1, <2>2 DEF AtFile
  <2> QED BY <1>3, <2>1, <2>2
<1> QED BY <1>1, <1>2, <1>3 DEF QInv

-----------------------------------------------------------------------------
LEMMA QosStart == QosInit => QInv
BY DEF QosInit, QInv, QosTypeOK, Owed, Finished

(* What a deletion that has just deleted `s` is about to do. *)
LEMMA AfterDelete ==
    ASSUME QInv, NEW p \in Purgers, NEW s, NEW rest,
           purging[p].pc # "unlink",
           purging' = [purging EXCEPT ![p] = FileThere(s, rest)],
           listed' \subseteq QosSessions,
           purged' = purged \cup ({s} \X Spellings),
           UNCHANGED <<qosFiles, leaked>>
    PROVE  QInv'
<1>1. PICK r : /\ r = FileThere(s, rest)
               /\ r.pc \in {"idle", "save", "delete", "unlink"}
               /\ r.pc = "save" => r.s \in QosSessions
               /\ <<s, Normal>> \in qosFiles => AtFile(r, s)
  BY FileTherePc
<1>2. \A file \in purged' : file = <<file[1], file[2]>>
  BY DEF QInv
<1>3. ASSUME NEW t, Owed(t)'
      PROVE  (Owed(t) /\ ~AtFile(purging[p], t)) \/ AtFile(r, t)
  <2>1. CASE t = s
    BY <1>1, <1>3, <2>1 DEF Owed
  <2>2. CASE t # s
    BY <1>3, <2>2 DEF Owed, AtFile
  <2> QED BY <2>1, <2>2
<1>4. MovesTo(p, r)
  BY <1>1, <1>2, <1>3 DEF MovesTo
<1> QED BY <1>4, WalkMoves

LEMMA QosStep == QInv /\ [QosNext]_qosVars => QInv'
<1> SUFFICES ASSUME QInv, [QosNext]_qosVars PROVE QInv'
  OBVIOUS
<1>1. ASSUME NEW s \in QosSessions, ListSession(s) PROVE QInv'
  BY <1>1 DEF QInv, QosTypeOK, Owed, AtFile, ListSession
<1>2. ASSUME NEW s \in QosSessions, ExpireListed(s) PROVE QInv'
  BY <1>2 DEF QInv, QosTypeOK, Owed, AtFile, ExpireListed
<1>3. ASSUME NEW s \in QosSessions, NEW w \in Spellings, QosUpload(s, w) PROVE QInv'
  <2>1. \A t : Owed(t)' => Owed(t)
    BY <1>3 DEF QosUpload, Owed
  <2>2. QosTypeOK'
    BY <1>3 DEF QInv, QosTypeOK, QosPaths, QosUpload
  <2>3. \A file \in purged' : file = <<file[1], file[2]>>
    BY <1>3 DEF QInv, QosUpload
  <2> QED BY <1>3, <2>1, <2>2, <2>3 DEF QInv, AtFile, QosUpload
<1>4. ASSUME NEW p \in Purgers, FindListed(p) PROVE QInv'
  <2>1. PICK order : purging' = [purging EXCEPT ![p] = Onward(order)]
    BY <1>4 DEF FindListed
  <2>2. \A s : ~AtFile(purging[p], s)
    BY <1>4 DEF FindListed, Finished, AtFile
  <2>3. \A s : Owed(s)' => Owed(s)
    BY <1>4 DEF FindListed, Owed
  <2> QED BY <1>4, <2>1, <2>2, <2>3, OnwardPc, WalkMoves DEF MovesTo, FindListed, QInv, QosTypeOK
<1>5. ASSUME NEW p \in Purgers, DeleteListed(p) PROVE QInv'
  <2>1. listed' \subseteq QosSessions
    BY <1>5 DEF DeleteListed, QInv, QosTypeOK
  <2> QED BY <1>5, <2>1, AfterDelete DEF DeleteListed
<1>6. ASSUME NEW p \in Purgers, NEW s \in QosSessions, FindDeparted(p, s) PROVE QInv'
  <2> DEFINE r == [pc |-> "save", s |-> s]
  <2>1. /\ purging' = [purging EXCEPT ![p] = r]
        /\ r.pc = "save" /\ r.s = s
    BY <1>6 DEF FindDeparted
  <2>2. \A t : ~AtFile(purging[p], t)
    BY <1>6 DEF FindDeparted, Finished, AtFile
  <2>3. \A t : Owed(t)' => Owed(t)
    BY <1>6 DEF FindDeparted, Owed
  <2> HIDE DEF r
  <2> QED BY <1>6, <2>1, <2>2, <2>3, WalkMoves DEF MovesTo, FindDeparted, QInv, QosTypeOK
<1>7. ASSUME NEW p \in Purgers, SaveDeparted(p) PROVE QInv'
  <2>1. listed' \subseteq QosSessions
    BY <1>7 DEF SaveDeparted, QInv, QosTypeOK
  <2> QED BY <1>7, <2>1, AfterDelete DEF SaveDeparted
<1>8. ASSUME NEW p \in Purgers, UnlinkQos(p) PROVE QInv'
  <2> DEFINE next == IF <<purging[p].s, Normal>> \in qosFiles
                     THEN Onward(purging[p].rest) ELSE Finished
  <2>1. purging' = [purging EXCEPT ![p] = next] /\ next.pc \in {"idle", "delete"}
    BY <1>8, OnwardPc DEF UnlinkQos, Finished
  <2> HIDE DEF next
  <2>2. \A t : Owed(t)' => Owed(t) /\ ~AtFile(purging[p], t)
    BY <1>8 DEF UnlinkQos, AtFile, Owed
  <2> QED BY <1>8, <2>1, <2>2, WalkMoves DEF MovesTo, UnlinkQos, QInv, QosTypeOK
<1>9. ASSUME NEW p \in Purgers, PurgeFails(p) PROVE QInv'
  <2>1. \A t : Owed(t)' => Owed(t) /\ ~AtFile(purging[p], t)
    BY <1>9 DEF PurgeFails, AtFile, Owed
  <2> QED BY <1>9, <2>1, WalkMoves DEF MovesTo, PurgeFails, Finished, QInv, QosTypeOK
<1>10. CASE UNCHANGED qosVars
  BY <1>10 DEF QInv, QosTypeOK, Owed, AtFile, qosVars
<1>11. QED
  BY <1>1, <1>2, <1>3, <1>4, <1>5, <1>6, <1>7, <1>8, <1>9, <1>10 DEF QosNext

(* However walks over a console's sessions and soft deletes of them overlap,
   whatever expires or is uploaded between their steps, a session that was
   deleted has a file under its own spelling only while some deletion is about
   to unlink it. *)
THEOREM PurgeLeavesNoFile == QosSpec => []QosPurged
<1>1. QInv => QosPurged
  <2> SUFFICES ASSUME QInv, NEW file \in purged, file[2] = Normal, file[1] \notin leaked,
                      LeftBehind(file)
               PROVE  FALSE
    BY DEF QosPurged
  <2>1. Owed(file[1])
    BY DEF QInv, Owed, LeftBehind
  <2>2. PICK p \in Purgers : AtFile(purging[p], file[1])
    BY <2>1 DEF QInv
  <2> QED BY <2>2 DEF AtFile, LeftBehind
<1> QED BY <1>1, QosStart, QosStep, PTL DEF QosSpec

(* The listings, the files and the deletions keep their types. *)
THEOREM QosIsTyped == QosSpec => []QosTypeOK
<1>1. QInv => QosTypeOK
  BY DEF QInv
<1> QED BY <1>1, QosStart, QosStep, PTL DEF QosSpec

-----------------------------------------------------------------------------
(* The log proxy.                                                           *)

\* A stream is over its cap exactly when it was told so, nothing over the cap was
\* passed on, and an answer is the backend's or says how the stream ended.
UploadSound(r) ==
    \/ r.pc = "none"
    \/ /\ r \in [pc : {"stream"}, total : Nat, passed : 0 .. MaxBytes,
                tooLarge : BOOLEAN, replied : SUBSET BackendStatuses]
       /\ r.tooLarge <=> r.total > MaxBytes
    \/ /\ r.pc = "answered"
       /\ r.passed \in 0 .. MaxBytes
       /\ r.status \in r.replied \cup {IF r.total > MaxBytes THEN 413 ELSE 502}

UploadsInv ==
    /\ uploads = [u \in UploadSlots |-> uploads[u]]
    /\ \A u \in UploadSlots : UploadSound(uploads[u])

LEMMA UploadReplaced ==
    ASSUME UploadsInv, NEW u \in UploadSlots, NEW r, UploadSound(r),
           uploads' = [uploads EXCEPT ![u] = r]
    PROVE  UploadsInv'
BY DEF UploadsInv

LEMMA StreamedSound ==
    ASSUME NEW r, UploadSound(r), r.pc = "stream", NEW n \in ChunkSizes
    PROVE  UploadSound(Streamed(r, n))
<1> DEFINE InFlight == [pc : {"stream"}, total : Nat, passed : 0 .. MaxBytes,
                        tooLarge : BOOLEAN, replied : SUBSET BackendStatuses]
           total == r.total + n
           counted == [r EXCEPT !.total = @ + n]
<1>1. r \in InFlight /\ (r.tooLarge <=> r.total > MaxBytes)
    BY DEF UploadSound
<1>2. n \in Nat /\ MaxBytes \in Nat /\ total \in Nat
    BY <1>1, LogsAssumption
<1>3. counted \in InFlight /\ counted.total = total /\ counted.tooLarge = r.tooLarge
    BY <1>1, <1>2
<1>4. Streamed(r, n) = IF counted.total > MaxBytes THEN [counted EXCEPT !.tooLarge = TRUE]
                       ELSE [counted EXCEPT !.passed = counted.total]
    BY DEF Streamed
<1> HIDE DEF counted
<1>5. CASE total > MaxBytes
    <2> DEFINE q == [counted EXCEPT !.tooLarge = TRUE]
    <2>1. q \in InFlight /\ q.total = total /\ q.tooLarge = TRUE
        BY <1>3
    <2> QED
        BY <1>3, <1>4, <1>5, <2>1 DEF UploadSound
<1>6. CASE ~(total > MaxBytes)
    <2> DEFINE q == [counted EXCEPT !.passed = total]
    <2>1. total \in 0 .. MaxBytes /\ ~r.tooLarge
        BY <1>1, <1>2, <1>6
    <2>2. q \in InFlight /\ q.total = total /\ q.tooLarge = r.tooLarge
        BY <1>3, <2>1
    <2> QED
        BY <1>3, <1>4, <1>6, <2>1, <2>2 DEF UploadSound
<1> QED
    BY <1>5, <1>6

LEMMA EndedSound ==
    ASSUME NEW r, UploadSound(r), r.pc = "stream", NEW status,
           status \in r.replied \cup {FailureStatus(r)}
    PROVE  UploadSound(Ended(status, r))
BY DEF UploadSound, Ended, FailureStatus

LEMMA UploadsStep ==
    ASSUME UploadsInv, [LogsNext]_logsVars
    PROVE  UploadsInv'
<1>1. CASE uploads' = uploads
    BY <1>1 DEF UploadsInv
<1>2. ASSUME NEW u \in UploadSlots, NEW k \in Uploaders, Ingest(u, k) PROVE UploadsInv'
    <2>1. UploadSound(Uploading)
        BY LogsAssumption DEF UploadSound, Uploading
    <2>2. uploads' = uploads \/ uploads' = [uploads EXCEPT ![u] = Uploading]
        BY <1>2 DEF Ingest
    <2> QED
        BY <1>1, <2>1, <2>2, UploadReplaced
<1>3. ASSUME NEW u \in UploadSlots, NEW n \in ChunkSizes, Chunk(u, n) PROVE UploadsInv'
    <2>1. uploads' = [uploads EXCEPT ![u] = Streamed(uploads[u], n)]
        BY <1>3 DEF Chunk, UploadsInv
    <2>2. UploadSound(Streamed(uploads[u], n))
        BY <1>3, StreamedSound DEF Chunk, UploadsInv
    <2> QED
        BY <2>1, <2>2, UploadReplaced
<1>4. ASSUME NEW u \in UploadSlots, NEW status \in BackendStatuses,
             BackendAnswers(u, status)
      PROVE  UploadsInv'
    <2> DEFINE r == [uploads[u] EXCEPT !.replied = {status}]
    <2>1. uploads' = [uploads EXCEPT ![u] = r]
        BY <1>4 DEF BackendAnswers, UploadsInv
    <2>2. UploadSound(uploads[u]) /\ uploads[u].pc = "stream"
        BY <1>4 DEF BackendAnswers, UploadsInv
    <2>3. UploadSound(r)
        BY <2>2 DEF UploadSound
    <2> HIDE DEF r
    <2> QED
        BY <2>1, <2>3, UploadReplaced
<1>5. ASSUME NEW u \in UploadSlots, RelayAnswer(u) \/ ForwardFails(u) PROVE UploadsInv'
    <2>1. UploadSound(uploads[u]) /\ uploads[u].pc = "stream"
        BY <1>5 DEF RelayAnswer, ForwardFails, UploadsInv
    <2>2. PICK status \in uploads[u].replied \cup {FailureStatus(uploads[u])} :
              uploads' = [uploads EXCEPT ![u] = Ended(status, uploads[u])]
        BY <1>5 DEF RelayAnswer, ForwardFails, UploadsInv
    <2>3. UploadSound(Ended(status, uploads[u]))
        BY <2>1, EndedSound
    <2> QED
        BY <2>2, <2>3, UploadReplaced
<1> QED
    BY <1>1, <1>2, <1>3, <1>4, <1>5 DEF LogsNext, Tick, logsVars

(* The backend is never sent more than the cap.  Who is answered hears what the
   backend said, or 413 when its log was over the cap and 502 when it was not,
   whatever else failed meanwhile. *)
THEOREM CapIsTold == LogsSpec => []CapTold
<1>1. LogsInit => UploadsInv
    BY DEF LogsInit, UploadsInv, UploadSound, NoUpload
<1>2. UploadsInv /\ [LogsNext]_logsVars => UploadsInv'
    BY UploadsStep
<1>3. UploadsInv => CapTold
    BY LogsAssumption DEF UploadsInv, UploadSound, CapTold
<1> QED
    BY <1>1, <1>2, <1>3, PTL DEF LogsSpec

\* Upload times in the order of the uploads.
Ordered(times) ==
    /\ times \in Seq(Nat)
    /\ \A i, j \in 1 .. Len(times) : i <= j => times[i] <= times[j]

\* An upload and the RateMax-th after it are a window apart.
Spaced(times) ==
    \A i \in 1 .. Len(times) : i + RateMax <= Len(times) =>
        times[i + RateMax] - times[i] >= RateWindow

RecentOf(times, now) ==
    {i \in DOMAIN times : times[i] <= now /\ now - times[i] < RateWindow}

\* `window` is all of `times` but the first `d`.
AllBut(d, window, times) ==
    /\ d \in 0 .. Len(times)
    /\ window \in Seq(Nat)
    /\ Len(window) = Len(times) - d
    /\ \A i \in 1 .. Len(window) : window[i] = times[d + i]

\* The window of a caller holds its uploads except for a number of the oldest,
\* which will not count again.
RateInv(k) ==
    /\ Ordered(allowedAt[k]) /\ Spaced(allowedAt[k])
    /\ \A i \in 1 .. Len(allowedAt[k]) : allowedAt[k][i] <= clock
    /\ \E d \in 0 .. Len(allowedAt[k]) :
          /\ AllBut(d, hits[k], allowedAt[k])
          /\ \A i \in 1 .. d : clock - allowedAt[k][i] >= RateWindow
    /\ \A now \in turnedAway[k] :
          now \in 0 .. clock /\ Cardinality(RecentOf(allowedAt[k], now)) = RateMax

WindowsInv ==
    /\ clock \in Nat
    /\ hits = [k \in Uploaders |-> hits[k]]
    /\ allowedAt = [k \in Uploaders |-> allowedAt[k]]
    /\ turnedAway = [k \in Uploaders |-> turnedAway[k]]
    /\ \A k \in Uploaders : RateInv(k)

\* The uploads of a window are consecutive, and too few to be spaced.
LEMMA FewInWindow ==
    ASSUME NEW times, Ordered(times), Spaced(times), NEW now \in Nat
    PROVE  /\ IsFiniteSet(RecentOf(times, now))
           /\ Cardinality(RecentOf(times, now)) <= RateMax
<1> DEFINE R == RecentOf(times, now)
           N == Len(times)
<1>1. R \in SUBSET Nat /\ N \in Nat /\ R \subseteq 1 .. N
    BY DEF RecentOf, Ordered
<1>2. CASE R = {}
    BY <1>2, FS_EmptySet, LogsAssumption
<1>3. CASE R # {}
    <2>1. PICK m \in R : \A j \in R : m <= j
        BY <1>1, <1>3, Least
    <2>2. m \in 1 .. N /\ times[m] \in Nat /\ now - times[m] < RateWindow
        BY <1>1, <2>1 DEF RecentOf, Ordered
    <2>3. ASSUME NEW j \in R PROVE j \in m .. (m + RateMax - 1)
        <3>1. j \in 1 .. N /\ m <= j /\ times[j] <= now /\ times[j] \in Nat
            BY <1>1, <2>1 DEF RecentOf, Ordered
        <3>2. CASE j >= m + RateMax
            <4>1. m + RateMax \in 1 .. N
                BY <1>1, <2>2, <3>1, <3>2, LogsAssumption
            <4>2. times[m + RateMax] \in Nat /\ times[m + RateMax] <= times[j]
                BY <3>1, <3>2, <4>1 DEF Ordered
            <4>3. times[m + RateMax] - times[m] >= RateWindow
                BY <2>2, <4>1 DEF Spaced
            <4> QED
                BY <2>2, <3>1, <4>2, <4>3, LogsAssumption
        <3> QED
            BY <2>2, <3>1, <3>2, LogsAssumption
    <2>4. /\ IsFiniteSet(m .. (m + RateMax - 1))
          /\ Cardinality(m .. (m + RateMax - 1)) = RateMax
        <3> DEFINE top == m + RateMax - 1
        <3>1. m \in Int /\ top \in Int /\ ~(m > top) /\ top - m + 1 = RateMax
            BY <2>2, LogsAssumption
        <3> HIDE DEF top
        <3>2. IsFiniteSet(m .. top) /\ Cardinality(m .. top) = RateMax
            BY <3>1, FS_Interval
        <3> QED
            BY <3>2 DEF top
    <2> HIDE DEF R
    <2>5. R \in SUBSET (m .. (m + RateMax - 1))
        BY <2>3
    <2> QED
        BY <2>4, <2>5, FS_Subset DEF R
<1> QED
    BY <1>2, <1>3

\* What pruning keeps of a window: its uploads that still count.
LEMMA KeptIsRecent ==
    ASSUME NEW times, Ordered(times), NEW now \in Nat,
           \A i \in 1 .. Len(times) : times[i] <= now,
           NEW window, NEW d \in 0 .. Len(times), AllBut(d, window, times),
           \A i \in 1 .. d : now - times[i] >= RateWindow
    PROVE  \E e \in 0 .. Len(times) :
              /\ AllBut(e, Kept(window, now), times)
              /\ \A i \in 1 .. e : now - times[i] >= RateWindow
              /\ RecentOf(times, now) = e + 1 .. Len(times)
<1> DEFINE N == Len(times)
           M == {i \in 0 .. N : \A j \in i + 1 .. N : now - times[j] < RateWindow}
<1>1. N \in Nat /\ \A i \in 1 .. N : times[i] \in Nat
    BY DEF Ordered
<1>2. N \in M /\ M \in SUBSET Nat
    BY <1>1
<1>3. PICK e \in M : \A i \in M : e <= i
    BY <1>2, Least
<1>4. e \in 0 .. N /\ \A j \in e + 1 .. N : now - times[j] < RateWindow
    BY <1>3
<1>5. e # 0 => now - times[e] >= RateWindow
    <2> SUFFICES ASSUME e # 0, ~(now - times[e] >= RateWindow) PROVE FALSE
        OBVIOUS
    <2>1. e \in 1 .. N /\ times[e] \in Nat
        BY <1>1, <1>4
    <2>2. now - times[e] < RateWindow
        BY <2>1, LogsAssumption
    <2>3. e - 1 \in M
        BY <1>1, <1>4, <2>1, <2>2
    <2> HIDE DEF M
    <2>4. e <= e - 1
        BY <1>3, <2>3
    <2>5. e \in Int
        BY <1>4
    <2> QED
        BY <2>4, <2>5
<1>6. \A i \in 1 .. e : now - times[i] >= RateWindow
    <2> SUFFICES ASSUME NEW i \in 1 .. e PROVE now - times[i] >= RateWindow
        OBVIOUS
    <2>1. i \in 1 .. N /\ e \in 1 .. N /\ i <= e /\ e # 0
        BY <1>1, <1>4
    <2>2. times[i] \in Nat /\ times[e] \in Nat /\ times[i] <= times[e]
        BY <1>1, <2>1 DEF Ordered
    <2> QED
        BY <1>5, <2>1, <2>2, LogsAssumption
<1> HIDE DEF M
<1>7. d <= e
    <2> SUFFICES ASSUME d > e PROVE FALSE
        BY <1>4
    <2>1. d \in 1 .. d /\ d \in e + 1 .. N
        BY <1>1, <1>4
    <2>2. now - times[d] >= RateWindow /\ now - times[d] < RateWindow /\ times[d] \in Nat
        BY <1>1, <1>4, <2>1
    <2> QED
        BY <2>2, LogsAssumption
<1> DEFINE T == {t \in ToSet(window) : InWindow(t, now)}
           c == e - d
<1>8. /\ window \in Seq(Nat) /\ Len(window) = N - d
      /\ \A i \in 1 .. Len(window) : window[i] = times[d + i]
    BY DEF AllBut
<1>9. c \in 0 .. Len(window) /\ c = e - d
    BY <1>1, <1>4, <1>7, <1>8
<1>10. \A i \in 1 .. c : window[i] \notin T
    <2> SUFFICES ASSUME NEW i \in 1 .. c PROVE ~InWindow(window[i], now)
        OBVIOUS
    <2>1. window[i] = times[d + i] /\ d + i \in 1 .. e /\ d + i \in 1 .. N
        BY <1>1, <1>4, <1>8, <1>9
    <2>2. now - window[i] >= RateWindow /\ window[i] \in Nat
        BY <1>1, <1>6, <2>1
    <2> QED
        BY <2>2, LogsAssumption DEF InWindow
<1>11. \A i \in c + 1 .. Len(window) : window[i] \in T
    <2> SUFFICES ASSUME NEW i \in c + 1 .. Len(window) PROVE window[i] \in T
        OBVIOUS
    <2>1. /\ i \in 1 .. Len(window) /\ window[i] = times[d + i]
          /\ d + i \in e + 1 .. N
        BY <1>1, <1>4, <1>8, <1>9
    <2>2. window[i] \in ToSet(window)
        BY <1>8, <2>1 DEF ToSet
    <2> QED
        BY <1>4, <2>1, <2>2 DEF InWindow
<1>12. Kept(window, now) = SubSeq(window, c + 1, Len(window))
    <2> HIDE DEF T, c
    <2>1. Among(window, T) = SubSeq(window, c + 1, Len(window))
        BY <1>8, <1>9, <1>10, <1>11, AmongSuffix
    <2> QED
        BY <2>1 DEF Kept, T
<1>13. AllBut(e, Kept(window, now), times)
    <2> DEFINE kept == SubSeq(window, c + 1, Len(window))
    <2>1. /\ kept \in Seq(Nat) /\ Len(kept) = Len(window) - c
          /\ \A i \in 1 .. Len(kept) : kept[i] = window[c + i]
        <3>1. c \in 0 .. Len(window) /\ Len(window) \in Nat
            BY <1>8, <1>9
        <3> HIDE DEF c
        <3> QED
            BY <1>8, <3>1, SuffixIs
    <2> HIDE DEF kept, c
    <2>2. Len(kept) = N - e
        BY <1>1, <1>4, <1>8, <1>9, <2>1
    <2>3. ASSUME NEW i \in 1 .. Len(kept) PROVE kept[i] = times[e + i]
        <3>1. c + i \in 1 .. Len(window) /\ d + (c + i) = e + i
            BY <1>1, <1>4, <1>8, <1>9, <2>1, <2>2
        <3> QED
            BY <1>8, <2>1, <3>1
    <2> QED
        BY <1>4, <1>12, <2>1, <2>2, <2>3 DEF AllBut, kept
<1>14. RecentOf(times, now) = e + 1 .. N
    <2>1. \A i \in 1 .. N : now - times[i] < RateWindow <=> i \in e + 1 .. N
        BY <1>1, <1>4, <1>6, LogsAssumption
    <2>2. DOMAIN times = 1 .. N
        BY DEF Ordered
    <2> QED
        BY <1>1, <1>4, <2>1, <2>2 DEF RecentOf
<1> QED
    BY <1>4, <1>6, <1>13, <1>14

\* One more upload, at a time that is no earlier.
LEMMA UploadAllowed ==
    ASSUME NEW times, Ordered(times), Spaced(times), NEW now \in Nat,
           \A i \in 1 .. Len(times) : times[i] <= now,
           NEW window, NEW e \in 0 .. Len(times), AllBut(e, window, times),
           \A i \in 1 .. e : now - times[i] >= RateWindow,
           Allows(window)
    PROVE  LET more == Append(times, now)
           IN  /\ Ordered(more) /\ Spaced(more)
               /\ \A i \in 1 .. Len(more) : more[i] <= now
               /\ AllBut(e, Append(window, now), more)
               /\ \A i \in 1 .. e : now - more[i] >= RateWindow
<1> DEFINE more == Append(times, now)
           N == Len(times)
<1>1. /\ times \in Seq(Nat) /\ N \in Nat /\ Len(more) = N + 1 /\ more \in Seq(Nat)
      /\ more[N + 1] = now /\ \A i \in 1 .. N : more[i] = times[i]
    BY DEF Ordered
<1>2. /\ window \in Seq(Nat) /\ Len(window) = N - e /\ N - e < RateMax
      /\ \A i \in 1 .. N - e : window[i] = times[e + i]
    BY DEF AllBut, Allows
<1> HIDE DEF more, N
<1>3. \A i \in 1 .. N : times[i] \in Nat /\ times[i] <= now
    BY <1>1 DEF N
<1>4. \A i \in 1 .. N + 1 : more[i] \in Nat /\ more[i] <= now
    <2> SUFFICES ASSUME NEW i \in 1 .. N + 1 PROVE more[i] \in Nat /\ more[i] <= now
        OBVIOUS
    <2>1. CASE i = N + 1
        BY <1>1, <2>1
    <2>2. CASE i # N + 1
        <3>1. i \in 1 .. N
            BY <1>1, <2>2
        <3> QED
            BY <1>1, <1>3, <3>1
    <2> QED
        BY <2>1, <2>2
<1>5. Ordered(more)
    <2> SUFFICES ASSUME NEW i \in 1 .. N + 1, NEW j \in 1 .. N + 1, i <= j
                 PROVE  more[i] <= more[j]
        BY <1>1 DEF Ordered
    <2>1. CASE j = N + 1
        BY <1>1, <1>4, <2>1
    <2>2. CASE j # N + 1
        <3>1. i \in 1 .. N /\ j \in 1 .. N
            BY <1>1, <2>2
        <3>2. times[i] <= times[j]
            BY <3>1 DEF Ordered, N
        <3> QED
            BY <1>1, <3>1, <3>2
    <2> QED
        BY <2>1, <2>2
<1>6. Spaced(more)
    <2> SUFFICES ASSUME NEW i \in 1 .. N + 1, i + RateMax <= N + 1
                 PROVE  more[i + RateMax] - more[i] >= RateWindow
        BY <1>1 DEF Spaced
    <2>1. i \in 1 .. N /\ more[i] = times[i]
        BY <1>1, LogsAssumption
    <2>2. CASE i + RateMax = N + 1
        <3>1. i \in 1 .. e
            BY <1>1, <1>2, <2>1, <2>2, LogsAssumption
        <3>2. now - times[i] >= RateWindow
            BY <3>1
        <3> QED
            BY <1>1, <2>1, <2>2, <3>2
    <2>3. CASE i + RateMax # N + 1
        <3>1. i + RateMax \in 1 .. N
            BY <1>1, <2>3, LogsAssumption
        <3>2. times[i + RateMax] - times[i] >= RateWindow
            BY <2>1, <3>1 DEF Spaced, N
        <3> QED
            BY <1>1, <2>1, <3>1, <3>2
    <2> QED
        BY <2>2, <2>3
<1>7. AllBut(e, Append(window, now), more)
    <2> DEFINE grown == Append(window, now)
    <2>1. /\ grown \in Seq(Nat) /\ Len(grown) = N - e + 1 /\ grown[N - e + 1] = now
          /\ \A i \in 1 .. N - e : grown[i] = window[i]
        BY <1>1, <1>2
    <2> HIDE DEF grown
    <2>2. e \in 0 .. N
        BY DEF N
    <2>3. ASSUME NEW i \in 1 .. N - e + 1 PROVE grown[i] = more[e + i]
        <3>1. CASE i = N - e + 1
            <4>1. e + i = N + 1
                BY <1>1, <2>2, <3>1
            <4> QED
                BY <1>1, <2>1, <3>1, <4>1
        <3>2. CASE i # N - e + 1
            <4>1. i \in 1 .. N - e /\ e + i \in 1 .. N
                BY <1>1, <2>2, <3>2
            <4> QED
                BY <1>1, <1>2, <2>1, <4>1
        <3> QED
            BY <3>1, <3>2
    <2>4. e \in 0 .. Len(more) /\ Len(grown) = Len(more) - e
        BY <1>1, <2>1, <2>2
    <2> QED
        BY <2>1, <2>3, <2>4 DEF AllBut, grown
<1>8. \A i \in 1 .. e : now - more[i] >= RateWindow
    <2>1. \A i \in 1 .. e : i \in 1 .. N
        BY <1>1 DEF N
    <2> QED
        BY <1>1, <2>1
<1> QED
    BY <1>1, <1>4, <1>5, <1>6, <1>7, <1>8 DEF more

\* A window that ended earlier, or that was full, has not changed.
LEMMA RecentAppend ==
    ASSUME NEW times \in Seq(Nat), NEW now \in Nat, NEW past \in 0 .. now, past # now
    PROVE  RecentOf(Append(times, now), past) = RecentOf(times, past)
<1> DEFINE more == Append(times, now)
           N == Len(times)
<1>1. /\ DOMAIN times = 1 .. N /\ DOMAIN more = 1 .. N + 1 /\ N \in Nat
      /\ more[N + 1] = now /\ \A i \in 1 .. N : more[i] = times[i]
    OBVIOUS
<1> HIDE DEF more, N
<1>2. ~(now <= past)
    OBVIOUS
<1>3. \A i \in 1 .. N + 1 : i = N + 1 \/ i \in 1 .. N
    BY <1>1
<1>4. \A i : i \in RecentOf(more, past) <=> i \in RecentOf(times, past)
    BY <1>1, <1>2, <1>3 DEF RecentOf
<1> QED
    BY <1>4 DEF more

\* An upload that does not count any more will not count later.
LEMMA LaterStillOld ==
    ASSUME NEW times \in Seq(Nat), NEW d \in 0 .. Len(times), NEW now \in Nat,
           \A i \in 1 .. d : now - times[i] >= RateWindow,
           NEW later \in Nat, now <= later
    PROVE  \A i \in 1 .. d : later - times[i] >= RateWindow
<1> SUFFICES ASSUME NEW i \in 1 .. d PROVE later - times[i] >= RateWindow
    OBVIOUS
<1>1. times[i] \in Nat /\ now - times[i] >= RateWindow
    OBVIOUS
<1> QED
    BY <1>1, LogsAssumption

LEMMA WindowsStep ==
    ASSUME WindowsInv, [LogsNext]_logsVars
    PROVE  WindowsInv'
<1>1. CASE UNCHANGED <<clock, hits, allowedAt, turnedAway>>
    BY <1>1 DEF WindowsInv, RateInv
<1>2. CASE Tick
    <2>1. /\ clock' = clock + 1 /\ hits' = hits /\ allowedAt' = allowedAt
          /\ turnedAway' = turnedAway
        BY <1>2 DEF Tick
    <2>2. clock \in Nat
        BY DEF WindowsInv
    <2>3. ASSUME NEW k \in Uploaders PROVE RateInv(k)'
        <3> DEFINE A == allowedAt[k]
        <3>1. RateInv(k)
            BY DEF WindowsInv
        <3>2. A \in Seq(Nat) /\ \A i \in 1 .. Len(A) : A[i] \in Nat
            BY <3>1 DEF RateInv, Ordered
        <3>3. \A i \in 1 .. Len(A) : A[i] <= clock + 1
            BY <2>2, <3>1, <3>2 DEF RateInv
        <3>4. PICK d \in 0 .. Len(A) : /\ AllBut(d, hits[k], A)
                                       /\ \A i \in 1 .. d : clock - A[i] >= RateWindow
            BY <3>1 DEF RateInv
        <3>6. \A now \in turnedAway[k] : now \in 0 .. clock + 1
            BY <2>2, <3>1 DEF RateInv
        <3>7. /\ Ordered(A) /\ Spaced(A)
              /\ \A now \in turnedAway[k] : Cardinality(RecentOf(A, now)) = RateMax
            BY <3>1 DEF RateInv
        <3>8. allowedAt'[k] = A /\ hits'[k] = hits[k] /\ turnedAway'[k] = turnedAway[k]
            BY <2>1
        <3> HIDE DEF A
        <3>9. /\ d \in 0 .. Len(allowedAt'[k]) /\ AllBut(d, hits'[k], allowedAt'[k])
              /\ \A i \in 1 .. d : clock' - allowedAt'[k][i] >= RateWindow
            <4>1. d \in 0 .. Len(allowedAt'[k]) /\ AllBut(d, hits'[k], allowedAt'[k])
                BY <3>4, <3>8
            <4>2. clock' = clock + 1
                BY <2>1
            <4>3. \A i \in 1 .. d : clock' - A[i] >= RateWindow
                <5> DEFINE now == clock'
                <5>1. now \in Nat /\ clock <= now
                    BY <2>2, <4>2
                <5> HIDE DEF now
                <5>2. \A i \in 1 .. d : now - A[i] >= RateWindow
                    BY <2>2, <3>2, <3>4, <5>1, LaterStillOld
                <5> QED
                    BY <5>2 DEF now
            <4> QED
                BY <3>8, <4>1, <4>3
        <3>10. /\ Ordered(allowedAt'[k]) /\ Spaced(allowedAt'[k])
               /\ \A i \in 1 .. Len(allowedAt'[k]) : allowedAt'[k][i] <= clock'
            BY <2>1, <3>3, <3>7, <3>8
        <3>11. \E n \in 0 .. Len(allowedAt'[k]) :
                  /\ AllBut(n, hits'[k], allowedAt'[k])
                  /\ \A i \in 1 .. n : clock' - allowedAt'[k][i] >= RateWindow
            BY <3>9
        <3>12. \A now \in turnedAway'[k] :
                  now \in 0 .. clock' /\ Cardinality(RecentOf(allowedAt'[k], now)) = RateMax
            BY <2>1, <3>6, <3>7, <3>8
        <3> QED
            BY <3>10, <3>11, <3>12 DEF RateInv
    <2> QED
        BY <2>1, <2>2, <2>3 DEF WindowsInv
<1>3. ASSUME NEW u \in UploadSlots, NEW k \in Uploaders, Ingest(u, k) PROVE WindowsInv'
    <2> DEFINE A == allowedAt[k]
               kept == Kept(hits[k], clock)
               more == Append(A, clock)
               grown == Append(kept, clock)
    <2>1. /\ clock \in Nat /\ clock' = clock
          /\ hits = [j \in Uploaders |-> hits[j]]
          /\ allowedAt = [j \in Uploaders |-> allowedAt[j]]
          /\ turnedAway = [j \in Uploaders |-> turnedAway[j]]
        BY <1>3 DEF WindowsInv, Ingest
    <2>2. RateInv(k)
        BY DEF WindowsInv
    <2>3. PICK d \in 0 .. Len(A) : /\ AllBut(d, hits[k], A)
                                   /\ \A i \in 1 .. d : clock - A[i] >= RateWindow
        BY <2>2 DEF RateInv
    <2>4. PICK e \in 0 .. Len(A) :
             /\ AllBut(e, kept, A)
             /\ \A i \in 1 .. e : clock - A[i] >= RateWindow
             /\ RecentOf(A, clock) = e + 1 .. Len(A)
        <3>1. Ordered(A) /\ \A i \in 1 .. Len(A) : A[i] <= clock
            BY <2>2 DEF RateInv
        <3> QED
            BY <2>1, <2>3, <3>1, KeptIsRecent
    <2>5. /\ Ordered(A) /\ Spaced(A) /\ \A i \in 1 .. Len(A) : A[i] <= clock
          /\ \A now \in turnedAway[k] :
                now \in 0 .. clock /\ Cardinality(RecentOf(A, now)) = RateMax
        BY <2>2 DEF RateInv
    <2>6. /\ A \in Seq(Nat) /\ Len(A) \in Nat
          /\ Len(kept) = Len(A) - e
        BY <2>4, <2>5 DEF Ordered, AllBut
    <2>7. Cardinality(RecentOf(A, clock)) = Len(kept)
        <3> DEFINE from == e + 1
        <3>1. from \in Int /\ Len(A) \in Int /\ (from > Len(A) => Len(A) - e = 0)
              /\ Len(A) - from + 1 = Len(A) - e
            BY <2>6
        <3> HIDE DEF from
        <3>2. Cardinality(from .. Len(A)) = IF from > Len(A) THEN 0 ELSE Len(A) - from + 1
            BY <3>1, FS_Interval
        <3>3. Cardinality(from .. Len(A)) = Len(A) - e
            BY <3>1, <3>2
        <3> QED
            BY <2>4, <2>6, <3>3 DEF from
    <2>8. ASSUME NEW j \in Uploaders \ {k} PROVE RateInv(j)'
        <3>1. /\ hits'[j] = hits[j] /\ allowedAt'[j] = allowedAt[j]
              /\ turnedAway'[j] = turnedAway[j]
            BY <1>3, <2>1 DEF Ingest
        <3>2. RateInv(j)
            BY DEF WindowsInv
        <3> QED
            BY <2>1, <3>1, <3>2 DEF RateInv
    <2>9. CASE Allows(kept)
        <3>1. /\ hits' = [hits EXCEPT ![k] = grown]
              /\ allowedAt' = [allowedAt EXCEPT ![k] = more]
              /\ turnedAway' = turnedAway
            BY <1>3, <2>1, <2>9 DEF Ingest
        <3>2. /\ hits' = [j \in Uploaders |-> hits'[j]] /\ hits'[k] = grown
              /\ allowedAt' = [j \in Uploaders |-> allowedAt'[j]] /\ allowedAt'[k] = more
              /\ turnedAway' = [j \in Uploaders |-> turnedAway'[j]]
              /\ turnedAway'[k] = turnedAway[k]
            BY <2>1, <3>1
        <3>3. /\ Ordered(more) /\ Spaced(more)
              /\ \A i \in 1 .. Len(more) : more[i] <= clock
              /\ AllBut(e, grown, more)
              /\ \A i \in 1 .. e : clock - more[i] >= RateWindow
            <4> HIDE DEF A, kept
            <4> QED
                BY <2>1, <2>4, <2>5, <2>9, UploadAllowed
        <3>4. e \in 0 .. Len(more)
            BY <3>3 DEF AllBut
        <3>5. ASSUME NEW now \in turnedAway[k]
              PROVE  now \in 0 .. clock /\ Cardinality(RecentOf(more, now)) = RateMax
            <4>1. now \in 0 .. clock /\ Cardinality(RecentOf(A, now)) = RateMax
                BY <2>5
            <4>2. now # clock
                BY <2>6, <2>7, <2>9, <4>1, LogsAssumption DEF Allows
            <4>3. RecentOf(more, now) = RecentOf(A, now)
                BY <2>1, <2>6, <4>1, <4>2, RecentAppend
            <4> QED
                BY <4>1, <4>3
        <3> HIDE DEF more, grown
        <3>6. RateInv(k)'
            BY <2>1, <3>2, <3>3, <3>4, <3>5 DEF RateInv
        <3> QED
            BY <2>1, <2>8, <3>2, <3>6 DEF WindowsInv
    <2>10. CASE ~Allows(kept)
        <3>1. /\ hits' = [hits EXCEPT ![k] = kept]
              /\ allowedAt' = allowedAt
              /\ turnedAway' = [turnedAway EXCEPT ![k] = {clock}]
            BY <1>3, <2>1, <2>10 DEF Ingest
        <3>2. /\ hits' = [j \in Uploaders |-> hits'[j]] /\ hits'[k] = kept
              /\ allowedAt' = [j \in Uploaders |-> allowedAt'[j]] /\ allowedAt'[k] = A
              /\ turnedAway' = [j \in Uploaders |-> turnedAway'[j]]
              /\ turnedAway'[k] = {clock}
            BY <2>1, <3>1
        <3>3. Cardinality(RecentOf(A, clock)) <= RateMax
            BY <2>1, <2>5, FewInWindow
        <3>4. Cardinality(RecentOf(A, clock)) = RateMax
            BY <2>6, <2>7, <2>10, <3>3, LogsAssumption DEF Allows
        <3> HIDE DEF kept, A
        <3>5. RateInv(k)'
            BY <2>1, <2>4, <2>5, <3>2, <3>4 DEF RateInv
        <3> QED
            BY <2>1, <2>8, <3>2, <3>5 DEF WindowsInv
    <2> QED
        BY <2>9, <2>10
<1> QED
    BY <1>1, <1>2, <1>3
       DEF LogsNext, Chunk, BackendAnswers, RelayAnswer, ForwardFails, logsVars

(* The window, pruned at each request only, limits what it should: in no
   window of RateWindow, wherever it ends, are more than RateMax uploads of a
   caller let through, and a caller is turned away only when RateMax were. *)
THEOREM RateIsKept == LogsSpec => []RateKept
<1>1. LogsInit => WindowsInv
    <2> SUFFICES ASSUME LogsInit PROVE WindowsInv
        OBVIOUS
    <2>1. ASSUME NEW k \in Uploaders PROVE RateInv(k)
        <3>1. hits[k] = <<>> /\ allowedAt[k] = <<>> /\ turnedAway[k] = {}
            BY DEF LogsInit
        <3>2. Ordered(<<>>) /\ Spaced(<<>>) /\ AllBut(0, <<>>, <<>>)
            BY LogsAssumption DEF Ordered, Spaced, AllBut
        <3> QED
            BY <3>1, <3>2 DEF RateInv
    <2> QED
        BY <2>1 DEF LogsInit, WindowsInv
<1>2. WindowsInv /\ [LogsNext]_logsVars => WindowsInv'
    BY WindowsStep
<1>3. WindowsInv => RateKept
    <2> SUFFICES ASSUME WindowsInv, NEW k \in Uploaders
                 PROVE  /\ \A now \in 0 .. clock : Cardinality(Recently(k, now)) <= RateMax
                        /\ \A now \in turnedAway[k] : Cardinality(Recently(k, now)) = RateMax
        BY DEF RateKept
    <2>1. RateInv(k) /\ clock \in Nat
        BY DEF WindowsInv
    <2>2. \A now : Recently(k, now) = RecentOf(allowedAt[k], now)
        BY DEF Recently, RecentOf
    <2>3. \A now \in 0 .. clock : now \in Nat
        BY <2>1
    <2> QED
        BY <2>1, <2>2, <2>3, FewInWindow DEF RateInv
<1> QED
    BY <1>1, <1>2, <1>3, PTL DEF LogsSpec

(* Pruning drops hits and invents none. *)
LEMMA KeptAreHits ==
    ASSUME NEW S, NEW times \in Seq(S), NEW now
    PROVE  Kept(times, now) \in Seq(S)
<1> DEFINE T == {t \in ToSet(times) : InWindow(t, now)}
<1> HIDE DEF T
<1>1. Among(times, T) \in Seq(S)
    BY AmongElements
<1> QED
    BY <1>1 DEF Kept, T

Underway(r) == r.pc \in {"stream", "answered"}

LEMMA LogsTypesStep == UploadsInv /\ LogsTypeOK /\ [LogsNext]_logsVars => LogsTypeOK'
<1> SUFFICES ASSUME UploadsInv, LogsTypeOK, [LogsNext]_logsVars PROVE LogsTypeOK'
    OBVIOUS
<1>1. ASSUME NEW u \in UploadSlots, NEW r, Underway(r),
             uploads' = [uploads EXCEPT ![u] = r]
      PROVE  \A v \in UploadSlots : uploads'[v].pc \in {"none", "stream", "answered"}
    BY <1>1 DEF LogsTypeOK, UploadsInv, Underway
<1>2. CASE Tick \/ UNCHANGED logsVars
    BY <1>2, LogsAssumption DEF Tick, LogsTypeOK, logsVars
<1>3. ASSUME NEW u \in UploadSlots, NEW k \in Uploaders, Ingest(u, k)
      PROVE  LogsTypeOK'
    <2> DEFINE kept == Kept(hits[k], clock)
    <2>1. hits[k] \in Seq(0 .. MaxClock) /\ allowedAt[k] \in Seq(0 .. MaxClock)
          /\ clock \in 0 .. MaxClock
        BY DEF LogsTypeOK
    <2>2. kept \in Seq(0 .. MaxClock)
        BY <2>1, KeptAreHits
    <2> HIDE DEF kept
    <2>3. /\ Append(kept, clock) \in Seq(0 .. MaxClock)
          /\ Append(allowedAt[k], clock) \in Seq(0 .. MaxClock)
        BY <2>1, <2>2
    <2>4. gate' = gate /\ clock' = clock
        BY <1>3 DEF Ingest
    <2>5. CASE Allows(kept)
        <3> DEFINE q == Uploading
        <3>1. /\ hits' = [hits EXCEPT ![k] = Append(kept, clock)]
              /\ allowedAt' = [allowedAt EXCEPT ![k] = Append(allowedAt[k], clock)]
              /\ uploads' = [uploads EXCEPT ![u] = q]
            BY <1>3, <2>5 DEF Ingest, kept
        <3>2. Underway(q)
            BY DEF Uploading, Underway
        <3> HIDE DEF q
        <3>3. \A v \in UploadSlots : uploads'[v].pc \in {"none", "stream", "answered"}
            BY <1>1, <3>1, <3>2
        <3>4. /\ hits' \in [Uploaders -> Seq(0 .. MaxClock)]
              /\ allowedAt' \in [Uploaders -> Seq(0 .. MaxClock)]
            BY <2>3, <3>1 DEF LogsTypeOK
        <3> QED
            BY <2>4, <3>3, <3>4 DEF LogsTypeOK
    <2>6. CASE ~Allows(kept)
        <3>1. /\ hits' = [hits EXCEPT ![k] = kept] /\ UNCHANGED <<allowedAt, uploads>>
            BY <1>3, <2>6 DEF Ingest, kept
        <3> QED
            BY <2>2, <2>4, <3>1 DEF LogsTypeOK
    <2> QED
        BY <2>5, <2>6
<1>4. ASSUME NEW u \in UploadSlots, NEW r, Underway(r),
             uploads' = [uploads EXCEPT ![u] = r],
             UNCHANGED <<gate, clock, hits, allowedAt, turnedAway>>
      PROVE  LogsTypeOK'
    <2>1. \A v \in UploadSlots : uploads'[v].pc \in {"none", "stream", "answered"}
        BY <1>1, <1>4
    <2> QED
        BY <1>4, <2>1 DEF LogsTypeOK
<1>5. ASSUME NEW u \in UploadSlots, NEW n \in ChunkSizes, Chunk(u, n)
      PROVE  LogsTypeOK'
    <2> DEFINE q == Streamed(uploads[u], n)
    <2>1. Underway(q)
        <3>1. UploadSound(uploads[u]) /\ uploads[u].pc = "stream"
            BY <1>5 DEF Chunk, UploadsInv
        <3> QED
            BY <3>1 DEF UploadSound, Streamed, Underway
    <2>2. /\ uploads' = [uploads EXCEPT ![u] = q]
          /\ UNCHANGED <<gate, clock, hits, allowedAt, turnedAway>>
        BY <1>5 DEF Chunk
    <2> HIDE DEF q
    <2> QED
        BY <1>4, <2>1, <2>2
<1>6. ASSUME NEW u \in UploadSlots, NEW status \in BackendStatuses, BackendAnswers(u, status)
      PROVE  LogsTypeOK'
    <2> DEFINE q == [uploads[u] EXCEPT !.replied = {status}]
    <2>1. Underway(q)
        <3>1. UploadSound(uploads[u]) /\ uploads[u].pc = "stream"
            BY <1>6 DEF BackendAnswers, UploadsInv
        <3> QED
            BY <3>1 DEF UploadSound, Underway
    <2>2. /\ uploads' = [uploads EXCEPT ![u] = q]
          /\ UNCHANGED <<gate, clock, hits, allowedAt, turnedAway>>
        BY <1>6 DEF BackendAnswers
    <2> HIDE DEF q
    <2> QED
        BY <1>4, <2>1, <2>2
<1>7. ASSUME NEW u \in UploadSlots, RelayAnswer(u) \/ ForwardFails(u)
      PROVE  LogsTypeOK'
    <2>1. \A status, r : Underway(Ended(status, r))
        BY DEF Ended, Underway
    <2> QED
        BY <1>4, <1>7, <2>1 DEF RelayAnswer, ForwardFails
<1> QED
    BY <1>2, <1>3, <1>5, <1>6, <1>7 DEF LogsNext

(* The windows of the callers and the uploads let through keep their types: what
   is in a window are times of the clock. *)
THEOREM LogsAreTyped == LogsSpec => []LogsTypeOK
<1>1. LogsInit => LogsTypeOK
    BY LogsAssumption DEF LogsInit, LogsTypeOK, NoUpload
<1>2. LogsInit => UploadsInv
    BY DEF LogsInit, UploadsInv, UploadSound, NoUpload
<1>3. UploadsInv /\ [LogsNext]_logsVars => UploadsInv'
    BY UploadsStep
<1> QED
    BY <1>1, <1>2, <1>3, LogsTypesStep, PTL DEF LogsSpec

-----------------------------------------------------------------------------
(* The contexts of a session.                                              *)

(* Dividing by the base and putting the quotient before the rest is the number
   again. *)
LEMMA DivMod ==
    ASSUME NEW n \in Nat
    PROVE  /\ n \div Base \in Nat /\ n % Base \in Nat
           /\ (n \div Base) * Base + (n % Base) = n
BY SessionPropertiesAssumption

(* What is written in four bytes is read from them. *)
LEMMA WordIsRead ==
    ASSUME NEW n \in Nat
    PROVE  ReadWord(BigEndian(n)) = n
<1> DEFINE a == n \div Base
           b == a \div Base
           c == b \div Base
<1>1. a \in Nat /\ b \in Nat /\ c \in Nat /\ Base \in Nat
    BY DivMod, SessionPropertiesAssumption
<1>2. a * Base + (n % Base) = n /\ b * Base + (a % Base) = a
      /\ c * Base + (b % Base) = b
    BY <1>1, DivMod
<1>3. BigEndian(n) = <<c, b % Base, a % Base, n % Base>>
    BY DEF BigEndian
<1>4. ReadWord(<<c, b % Base, a % Base, n % Base>>)
        = ((c * Base + (b % Base)) * Base + (a % Base)) * Base + (n % Base)
    BY DEF ReadWord
<1> HIDE DEF a, b, c
<1> QED
    BY <1>2, <1>3, <1>4

(* A client that parses a context which was encoded finds what was. *)
LEMMA ContextRoundTrip ==
    ASSUME NEW id \in Nat, NEW value \in Nat
    PROVE  LET served == ParseProperty(SerializeContext(id, value)) IN
           /\ served.id = id /\ served.type = CONTEXT
           /\ ReadWord(served.data) = value
<1> DEFINE buffer == SerializeContext(id, value)
           tail == SubSeq(buffer, 13, Len(buffer))
           I == BigEndian(id)
           V == BigEndian(value)
<1>1. buffer = [i \in 1 .. 20 |-> buffer[i]] /\ Len(buffer) = 20
    BY DEF SerializeContext
<1>2. /\ buffer[4] = I[1] /\ buffer[3] = I[2] /\ buffer[2] = I[3] /\ buffer[1] = I[4]
      /\ buffer[5] = CONTEXT
    BY DEF SerializeContext
<1>3. \A i \in 1 .. 4 : buffer[12 + i] = V[i]
    <2>1. \A i \in 1 .. 4 : 12 + i \in 13 .. 16 /\ (12 + i) - 12 = i
        OBVIOUS
    <2>2. \A j \in 13 .. 16 : buffer[j] = V[j - 12]
        BY DEF SerializeContext
    <2> HIDE DEF buffer, V
    <2> QED
        BY <2>1, <2>2
<1>4. I = <<I[1], I[2], I[3], I[4]>>
    BY DEF BigEndian
<1> HIDE DEF buffer, I, V
<1>5. \A i \in 1 .. 4 : tail[i] = V[i]
    <2>1. \A i \in 1 .. 4 : tail[i] = buffer[12 + i]
        BY <1>1
    <2> QED
        BY <1>3, <2>1
<1> HIDE DEF tail
<1>6. ReadWord(tail) = ReadWord(V)
    BY <1>5 DEF ReadWord
<1>7. /\ ParseProperty(buffer).id = ReadWord(I)
      /\ ParseProperty(buffer).type = CONTEXT
      /\ ParseProperty(buffer).data = tail
    <2>1. buffer[5] \notin {WSTRING, BINARY} /\ 12 + 1 = 13
        BY <1>2 DEF CONTEXT, WSTRING, BINARY
    <2>2. <<buffer[4], buffer[3], buffer[2], buffer[1]>> = I
        BY <1>2, <1>4
    <2> DEFINE from == IF buffer[5] \in {WSTRING, BINARY} THEN 20 ELSE 12
    <2>3. from = 12
        BY <2>1
    <2> HIDE DEF from
    <2>4. ParseProperty(buffer) =
             [id |-> ReadWord(<<buffer[4], buffer[3], buffer[2], buffer[1]>>),
              type |-> buffer[5], data |-> SubSeq(buffer, from + 1, Len(buffer))]
        BY DEF ParseProperty, from
    <2>5. SubSeq(buffer, from + 1, Len(buffer)) = tail
        BY <2>1, <2>3 DEF tail
    <2> QED
        BY <1>2, <2>2, <2>4, <2>5
<1>8. ReadWord(I) = id /\ ReadWord(V) = value
    BY WordIsRead DEF I, V
<1> QED
    BY <1>6, <1>7, <1>8 DEF buffer

LEMMA HalfIsInt == Half \in Int /\ Half >= 0
<1>1. Base * Base \in Nat
    BY SessionPropertiesAssumption
<1> DEFINE w == Base * Base * Base * Base
<1>2. w \in Nat
    BY SessionPropertiesAssumption
<1> HIDE DEF w
<1>3. w \div 2 \in Int /\ w \div 2 >= 0
    BY <1>2
<1> QED
    BY <1>3 DEF Half, w

\* What a request may have that is past its log.
Checked(a) == a \in Nat \X Nat /\ ~SerializeThrows(a[2])

\* Every context that no request stored without a log can be encoded.
Encodable(context, exempt) ==
    /\ context \in [DOMAIN context -> Int]
    /\ exempt \subseteq DOMAIN context
    /\ \A id \in DOMAIN context \ exempt :
          id \in Nat /\ context[id] \in Nat /\ ~SerializeThrows(context[id])

EntrySound ==
    entry # NoSuchSession =>
        /\ entry = [context |-> entry.context, properties |-> entry.properties]
        /\ Encodable(entry.context, unchecked)

\* The contexts of a request that is under way, read from its buffers; what it
\* logged has been encoded.
RequestSound(r) ==
    \/ r = AtEase
    \/ /\ r = [pc |-> "contexts", contexts |-> r.contexts, properties |-> r.properties,
               logged |-> r.logged]
       /\ r.contexts \in Seq(Nat \X Nat)
       /\ r.logged => \A a \in ToSet(r.contexts) : Checked(a)
    \/ r = [pc |-> "properties", properties |-> r.properties]

PropertiesInv ==
    /\ EntrySound
    /\ setting = [c \in PropCalls |-> setting[c]]
    /\ \A c \in PropCalls : RequestSound(setting[c])

LEMMA RequestReplaced ==
    ASSUME PropertiesInv, NEW c \in PropCalls, NEW r, RequestSound(r),
           setting' = [setting EXCEPT ![c] = r]
    PROVE  /\ setting' = [d \in PropCalls |-> setting'[d]]
           /\ \A d \in PropCalls : RequestSound(setting'[d])
<1>1. setting' = [d \in PropCalls |-> IF d = c THEN r ELSE setting[d]]
    BY DEF PropertiesInv
<1>2. \A d \in PropCalls : setting'[d] = IF d = c THEN r ELSE setting[d]
    BY <1>1
<1> QED
    BY <1>1, <1>2 DEF PropertiesInv

(* The context of a buffer that can be read is a pair of numbers. *)
LEMMA ContextIsRead ==
    ASSUME NEW b \in Entries, IsContext(b), ~Unreadable(b)
    PROVE  ParseProperty(b).id \in Nat /\ ReadWord(ParseProperty(b).data) \in Nat
<1>1. b \in Seq(Nat) /\ Base \in Nat /\ Len(b) \in Nat
    BY SessionPropertiesAssumption
<1>2. ~(Len(b) < 5) /\ ~ParseDataThrows(ParseProperty(b))
    BY DEF Unreadable
<1>3. b[1] \in Nat /\ b[2] \in Nat /\ b[3] \in Nat /\ b[4] \in Nat
    BY <1>1, <1>2
<1> DEFINE data == ParseProperty(b).data
           from == IF b[5] \in {WSTRING, BINARY} THEN 20 ELSE 12
<1>4. /\ ParseProperty(b).id = ReadWord(<<b[4], b[3], b[2], b[1]>>)
      /\ ParseProperty(b).type = b[5]
      /\ data = SubSeq(b, from + 1, Len(b))
    BY DEF ParseProperty
<1>5. from \in Nat
    OBVIOUS
<1> HIDE DEF from, data
<1>6. Len(data) >= 4
    <2>1. ReadsBytes(ParseProperty(b).type) = 4
        BY DEF IsContext, ReadsBytes
    <2> QED
        BY <1>1, <1>2, <1>4, <1>5, <2>1 DEF ParseDataThrows, data
<1>7. data \in Seq(Nat)
    <2>1. \A i \in from + 1 .. Len(b) : b[i] \in Nat
        BY <1>1, <1>5
    <2>2. from + 1 \in Int /\ Len(b) \in Int
        BY <1>1, <1>5
    <2> QED
        BY <1>4, <2>1, <2>2, SubSeqProperties
<1>8. data[1] \in Nat /\ data[2] \in Nat /\ data[3] \in Nat /\ data[4] \in Nat
    BY <1>6, <1>7
<1>9. \A x, y, z, v \in Nat : ((x * Base + y) * Base + z) * Base + v \in Nat
    BY <1>1
<1>10. ReadWord(data) \in Nat
    BY <1>8, <1>9 DEF ReadWord
<1>11. ReadWord(<<b[4], b[3], b[2], b[1]>>) \in Nat
    BY <1>3, <1>9 DEF ReadWord
<1> QED
    BY <1>4, <1>10, <1>11 DEF data

LEMMA ContextsAreRead ==
    ASSUME NEW buffers \in Requests, \A b \in ToSet(buffers) : ~Unreadable(b)
    PROVE  ContextsOf(buffers) \in Seq(Nat \X Nat)
<1>1. buffers \in Seq(Entries)
    <2>1. CASE buffers \in {<<a>> : a \in Entries}
        <3>1. PICK a \in Entries : buffers = <<a>>
            BY <2>1
        <3> QED
            BY <3>1
    <2>2. CASE buffers \in Entries \X Entries
        <3>1. PICK a \in Entries, b \in Entries : buffers = <<a, b>>
            BY <2>2
        <3> QED
            BY <3>1
    <2> QED
        BY <2>1, <2>2 DEF Requests
<1> DEFINE T == {b \in ToSet(buffers) : IsContext(b)}
           sent == Among(buffers, T)
<1>2. /\ sent \in Seq(Entries)
      /\ \A j \in 1 .. Len(sent) : \E i \in 1 .. Len(buffers) :
            sent[j] = buffers[i] /\ buffers[i] \in T
    BY <1>1, AmongElements
<1>3. \A j \in 1 .. Len(sent) : sent[j] \in Entries /\ IsContext(sent[j]) /\ ~Unreadable(sent[j])
    <2> TAKE j \in 1 .. Len(sent)
    <2>1. sent[j] \in T
        BY <1>2
    <2>2. sent[j] \in Entries
        BY <1>2
    <2> HIDE DEF sent
    <2> QED
        BY <2>1, <2>2
<1>4. ContextsOf(buffers) = [j \in 1 .. Len(sent) |->
          <<ParseProperty(sent[j]).id, ReadWord(ParseProperty(sent[j]).data)>>]
    <2>1. DOMAIN sent = 1 .. Len(sent)
        BY <1>2
    <2> QED
        BY <2>1 DEF ContextsOf
<1> HIDE DEF sent
<1>5. \A j \in 1 .. Len(sent) :
        <<ParseProperty(sent[j]).id, ReadWord(ParseProperty(sent[j]).data)>> \in Nat \X Nat
    BY <1>3, ContextIsRead
<1> QED
    BY <1>2, <1>4, <1>5

(* What a map holds after entries were added: the last one of each id, and what
   it held of the ids that have none. *)
LEMMA AddedHolds ==
    ASSUME NEW context, NEW added \in Seq(Int \X Int)
    PROVE  LET ids == {a[1] : a \in ToSet(added)}
               new == ContextsAdded(context, added) IN
           /\ new = [id \in DOMAIN context \cup ids |-> new[id]]
           /\ \A id \in ids : \E a \in ToSet(added) : a[1] = id /\ new[id] = a[2]
           /\ \A id \in DOMAIN context \ ids : new[id] = context[id]
<1> DEFINE ids == {a[1] : a \in ToSet(added)}
           N == Len(added)
           IsLast(i) == \A j \in DOMAIN added : added[j][1] = added[i][1] => j <= i
           last(id) == CHOOSE i \in DOMAIN added : added[i][1] = id /\ IsLast(i)
           new == ContextsAdded(context, added)
<1>1. N \in Nat /\ DOMAIN added = 1 .. N /\ ToSet(added) = {added[i] : i \in 1 .. N}
    BY DEF ToSet
<1>2. new = [id \in DOMAIN context \cup ids |->
                IF id \in ids THEN added[last(id)][2] ELSE context[id]]
    BY DEF ContextsAdded
<1> HIDE DEF new
<1>3. ASSUME NEW id \in ids PROVE \E i \in DOMAIN added : added[i][1] = id /\ IsLast(i)
    <2> DEFINE after == {N - i : i \in {j \in 1 .. N : added[j][1] = id}}
    <2>1. PICK k \in 1 .. N : added[k][1] = id
        BY <1>1
    <2>2. after \in SUBSET Nat /\ N - k \in after
        BY <1>1, <2>1
    <2> HIDE DEF after
    <2>3. PICK n \in after : \A m \in after : n <= m
        BY <2>2, Least
    <2>4. PICK i \in 1 .. N : added[i][1] = id /\ n = N - i
        BY <2>3 DEF after
    <2>5. ASSUME NEW j \in 1 .. N, added[j][1] = id PROVE j <= i
        <3>1. N - j \in after
            BY <2>5 DEF after
        <3> QED
            BY <1>1, <2>3, <2>4, <3>1
    <2> QED
        BY <1>1, <2>4, <2>5
<1> HIDE DEF IsLast
<1>4. ASSUME NEW id \in ids
      PROVE  last(id) \in 1 .. N /\ added[last(id)][1] = id
    BY <1>1, <1>3
<1> HIDE DEF last
<1>5. ASSUME NEW id \in ids
      PROVE  \E a \in ToSet(added) : a[1] = id /\ new[id] = a[2]
    <2>1. new[id] = added[last(id)][2]
        BY <1>2
    <2>2. added[last(id)] \in ToSet(added)
        BY <1>1, <1>4
    <2> QED
        BY <1>4, <2>1, <2>2
<1> HIDE DEF ids
<1>6. \A id \in DOMAIN context \ ids : new[id] = context[id]
    BY <1>2
<1>7. new = [id \in DOMAIN context \cup ids |-> new[id]]
    BY <1>2
<1> QED
    BY <1>5, <1>6, <1>7 DEF ids, new

LEMMA StoresKeeps ==
    ASSUME EntrySound, entry # NoSuchSession, NEW contexts \in Seq(Int \X Int), NEW logged,
           logged => \A a \in ToSet(contexts) : Checked(a),
           Stores(contexts, logged)
    PROVE  EntrySound'
<1> DEFINE ids == {a[1] : a \in ToSet(contexts)}
           old == entry.context
           new == ContextsAdded(old, contexts)
<1>1. /\ new = [id \in DOMAIN old \cup ids |-> new[id]]
      /\ \A id \in ids : \E a \in ToSet(contexts) : a[1] = id /\ new[id] = a[2]
      /\ \A id \in DOMAIN old \ ids : new[id] = old[id]
    BY AddedHolds
<1>2. /\ entry' = [entry EXCEPT !.context = new]
      /\ unchecked' = IF logged THEN unchecked \ ids ELSE unchecked \cup ids
    BY DEF Stores
<1>3. /\ entry = [context |-> old, properties |-> entry.properties]
      /\ Encodable(old, unchecked)
    BY DEF EntrySound
<1>4. \A a \in ToSet(contexts) : a \in Int \X Int
    BY DEF ToSet
<1> HIDE DEF new, ids, old
<1>5. DOMAIN new = DOMAIN old \cup ids
    BY <1>1
<1>6. \A id \in ids : new[id] \in Int
    BY <1>1, <1>4
<1>7. new \in [DOMAIN new -> Int]
    <2>1. \A id \in DOMAIN old : old[id] \in Int
        BY <1>3 DEF Encodable
    <2>2. \A id \in DOMAIN new : new[id] \in Int
        BY <1>1, <1>5, <1>6, <2>1
    <2> QED
        BY <1>1, <1>5, <2>2
<1>8. unchecked' \subseteq DOMAIN new
    BY <1>2, <1>3, <1>5 DEF Encodable
<1>9. ASSUME NEW id \in DOMAIN new \ unchecked'
      PROVE  id \in Nat /\ new[id] \in Nat /\ ~SerializeThrows(new[id])
    <2>1. CASE id \in ids
        <3>1. logged
            BY <1>2, <2>1, <1>9
        <3>2. PICK a \in ToSet(contexts) : a[1] = id /\ new[id] = a[2]
            BY <1>1, <2>1
        <3> QED
            BY <3>1, <3>2 DEF Checked
    <2>2. CASE id \notin ids
        <3>1. id \in DOMAIN old \ unchecked /\ new[id] = old[id]
            BY <1>1, <1>2, <1>5, <1>9, <2>2
        <3> QED
            BY <1>3, <3>1 DEF Encodable
    <2> QED
        BY <2>1, <2>2
<1>10. Encodable(new, unchecked')
    BY <1>7, <1>8, <1>9 DEF Encodable
<1>11. entry' = [context |-> new, properties |-> entry.properties]
    BY <1>2, <1>3
<1> QED
    BY <1>10, <1>11 DEF EntrySound

LEMMA PropertiesStep == PropertiesInv /\ [PropertiesNext]_propertiesVars => PropertiesInv'
<1> SUFFICES ASSUME PropertiesInv, [PropertiesNext]_propertiesVars PROVE PropertiesInv'
    OBVIOUS
<1>1. CASE UNCHANGED propertiesVars
    BY <1>1 DEF propertiesVars, PropertiesInv, EntrySound
<1>2. CASE Recreate
    <2>1. Encodable(<<>>, {})
        BY DEF Encodable
    <2>2. EntrySound'
        BY <1>2, <2>1 DEF Recreate, Empty, EntrySound
    <2> QED
        BY <1>2, <2>2 DEF Recreate, PropertiesInv
<1>3. CASE Vanish
    BY <1>3 DEF Vanish, PropertiesInv, EntrySound
<1>4. ASSUME NEW c \in PropCalls, NEW buffers \in Requests, SessionPropertySet(c, buffers)
      PROVE  PropertiesInv'
    <2> DEFINE contexts == ContextsOf(buffers)
               properties == PropertiesOf(buffers)
               logged == HasEntries(entry)
               r == [pc |-> "contexts", contexts |-> contexts, properties |-> properties,
                     logged |-> logged]
    <2>1. /\ \A b \in ToSet(buffers) : ~Unreadable(b)
          /\ ~(logged /\ UpdateTableThrows(entry, contexts, properties))
          /\ setting' = [setting EXCEPT ![c] = r]
          /\ UNCHANGED <<entry, unchecked>>
        BY <1>4 DEF SessionPropertySet
    <2>2. contexts \in Seq(Nat \X Nat)
        BY <2>1, ContextsAreRead
    <2> HIDE DEF contexts, properties, logged
    <2>3. \A a \in ToSet(contexts) : a \in Nat \X Nat
        BY <2>2 DEF ToSet
    <2>4. logged => \A a \in ToSet(contexts) : Checked(a)
        BY <2>1, <2>3 DEF UpdateTableThrows, Checked
    <2>5. RequestSound(r)
        BY <2>2, <2>4 DEF RequestSound
    <2> HIDE DEF r
    <2>6. EntrySound'
        BY <2>1 DEF PropertiesInv, EntrySound
    <2> QED
        BY <2>1, <2>5, <2>6, RequestReplaced DEF PropertiesInv
<1>5. ASSUME NEW c \in PropCalls, SetRequestContexts(c)
      PROVE  PropertiesInv'
    <2> DEFINE r == [pc |-> "properties", properties |-> setting[c].properties]
    <2>1. RequestSound(r)
        BY DEF RequestSound
    <2>2. setting' = [setting EXCEPT ![c] = r] /\ setting[c].pc = "contexts"
        BY <1>5 DEF SetRequestContexts
    <2>3. EntrySound'
        <3>1. CASE entry = NoSuchSession
            BY <1>5, <3>1 DEF SetRequestContexts, EntrySound
        <3>2. CASE entry # NoSuchSession
            <4>1. /\ setting[c].contexts \in Seq(Nat \X Nat)
                  /\ setting[c].logged => \A a \in ToSet(setting[c].contexts) : Checked(a)
                <5>1. RequestSound(setting[c])
                    BY DEF PropertiesInv
                <5>2. setting[c] # AtEase
                    BY <2>2 DEF AtEase
                <5>3. setting[c] # [pc |-> "properties", properties |-> setting[c].properties]
                    BY <2>2
                <5> QED
                    BY <5>1, <5>2, <5>3 DEF RequestSound
            <4>2. setting[c].contexts \in Seq(Int \X Int)
                BY <4>1
            <4>3. Stores(setting[c].contexts, setting[c].logged)
                BY <1>5, <3>2 DEF SetRequestContexts
            <4> QED
                BY <3>2, <4>1, <4>2, <4>3, StoresKeeps DEF PropertiesInv
        <3> QED
            BY <3>1, <3>2
    <2> HIDE DEF r
    <2> QED
        BY <2>1, <2>2, <2>3, RequestReplaced DEF PropertiesInv
<1>6. ASSUME NEW c \in PropCalls, SetRequestProperties(c)
      PROVE  PropertiesInv'
    <2>1. /\ setting' = [setting EXCEPT ![c] = AtEase]
          /\ UNCHANGED unchecked
          /\ \/ entry' = entry
             \/ /\ entry # NoSuchSession
                /\ entry' = [entry EXCEPT !.properties =
                                 EntriesAdded(@, setting[c].properties)]
        BY <1>6 DEF SetRequestProperties
    <2>2. RequestSound(AtEase)
        BY DEF RequestSound
    <2>3. EntrySound'
        <3>1. CASE entry' = entry
            BY <2>1, <3>1 DEF PropertiesInv, EntrySound
        <3>2. CASE entry # NoSuchSession /\ entry' # entry
            <4> DEFINE props == EntriesAdded(entry.properties, setting[c].properties)
            <4>1. /\ entry = [context |-> entry.context, properties |-> entry.properties]
                  /\ Encodable(entry.context, unchecked)
                BY <3>2 DEF PropertiesInv, EntrySound
            <4>2. entry' = [entry EXCEPT !.properties = props]
                BY <2>1, <3>2
            <4> HIDE DEF props
            <4>3. entry' = [context |-> entry.context, properties |-> props]
                BY <4>1, <4>2
            <4> QED
                BY <2>1, <4>1, <4>3 DEF EntrySound
        <3> QED
            BY <2>1, <3>1, <3>2
    <2> QED
        BY <2>1, <2>2, <2>3, RequestReplaced DEF PropertiesInv
<1>7. ASSUME NEW c \in PropCalls, SetFails(c)
      PROVE  PropertiesInv'
    <2>1. /\ setting' = [setting EXCEPT ![c] = AtEase]
          /\ UNCHANGED <<entry, unchecked>>
        BY <1>7 DEF SetFails
    <2>2. RequestSound(AtEase) /\ EntrySound'
        BY <2>1 DEF RequestSound, PropertiesInv, EntrySound
    <2> QED
        BY <2>1, <2>2, RequestReplaced DEF PropertiesInv
<1>8. ASSUME NEW a \in Posted, SessionContextSet(a[1], a[2])
      PROVE  PropertiesInv'
    <2>1. << <<a[1], a[2]>> >> \in Seq(Int \X Int)
        BY SessionPropertiesAssumption
    <2>2. EntrySound'
        BY <1>8, <2>1, StoresKeeps DEF SessionContextSet, PropertiesInv
    <2> QED
        BY <1>8, <2>2 DEF SessionContextSet, PropertiesInv
<1> QED
    BY <1>1, <1>2, <1>3, <1>4, <1>5, <1>6, <1>7, <1>8 DEF PropertiesNext

LEMMA PropertiesAlways == PropertiesSpec => []PropertiesInv
<1>1. PropertiesInit => PropertiesInv
    <2> SUFFICES ASSUME PropertiesInit PROVE PropertiesInv
        OBVIOUS
    <2>1. Encodable(<<>>, {})
        BY DEF Encodable
    <2>2. EntrySound
        BY <2>1 DEF PropertiesInit, Empty, EntrySound
    <2> QED
        BY <2>2 DEF PropertiesInit, PropertiesInv, RequestSound
<1> QED
    BY <1>1, PropertiesStep, PTL DEF PropertiesSpec

(* Whatever buffers and numbers clients send, and however their requests, a new
   session under the id and its end overlap, a context that was logged before
   it was stored can be encoded in the answer, and is read back from it as the
   id and the value that were set. *)
THEOREM ContextsAreServed == PropertiesSpec => []ContextsServe
<1>1. PropertiesInv => ContextsServe
    <2> SUFFICES ASSUME PropertiesInv, entry # NoSuchSession,
                        NEW id \in DOMAIN entry.context \ unchecked
                 PROVE  LET value == entry.context[id]
                            served == ParseProperty(SerializeContext(id, value)) IN
                        /\ ~SerializeThrows(value)
                        /\ served.id = id /\ served.type = CONTEXT
                        /\ ReadWord(served.data) = value
        BY DEF ContextsServe
    <2>1. id \in Nat /\ entry.context[id] \in Nat /\ ~SerializeThrows(entry.context[id])
        BY DEF PropertiesInv, EntrySound, Encodable
    <2> QED
        BY <2>1, ContextRoundTrip
<1> QED
    BY <1>1, PropertiesAlways, PTL

(* Contexts are kept by id, those that were stored with no log among them, and
   a request has read its contexts before it stores them. *)
THEOREM PropertiesAreTyped == PropertiesSpec => []PropertiesTypeOK
<1>1. PropertiesInv => PropertiesTypeOK
    <2> SUFFICES ASSUME PropertiesInv PROVE PropertiesTypeOK
        OBVIOUS
    <2>1. ASSUME NEW c \in PropCalls
          PROVE  /\ setting[c].pc \in {"idle", "contexts", "properties"}
                 /\ setting[c].pc = "contexts" =>
                       \A a \in ToSet(setting[c].contexts) : a \in Nat \X Nat
        <3>1. RequestSound(setting[c])
            BY DEF PropertiesInv
        <3> QED
            BY <3>1 DEF RequestSound, AtEase, ToSet
    <2> QED
        BY <2>1 DEF PropertiesInv, EntrySound, Encodable, PropertiesTypeOK
<1> QED
    BY <1>1, PropertiesAlways, PTL

=============================================================================
