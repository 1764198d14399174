---------------------------- MODULE FileTransfer ----------------------------
(***************************************************************************)
(* One destination file and the calls that transfer a source file to it:   *)
(* upload_file_atomic (transfer_policy.rs), download_file_atomic           *)
(* (transfer_download_policy.rs) and, for atomic = false, upload_file and  *)
(* download_file of the engine (transfer.rs).                              *)
(*                                                                         *)
(* A worker is one call, in a process of its own or not.  Every file       *)
(* system operation that a call awaits is one step.  The file system maps  *)
(* names to inodes, because a download publishes with a hard link and a    *)
(* handle outlives the name it was opened by.  A file is a sequence of     *)
(* blocks, and a block is the version of the source it was read from.      *)
(***************************************************************************)
EXTENDS Integers, Sequences, FiniteSets

CONSTANTS
    Workers,
    Settings,       \* the [direction, modes] of the behaviours: which way they copy,
                    \* and the [atomic, resume] options each worker is called with
    Unique,         \* names unique_*_staging_path can draw; collisions included
    Inodes,
    Lengths,        \* lengths of the source, in blocks
    MaxVersion,     \* the source changes at most MaxVersion - 1 times
    None

MaxLength == CHOOSE m \in Lengths : \A k \in Lengths : k <= m
Hole == 0           \* a block of somebody else's file, or one never written

ASSUME SettingsAssumption ==
    Settings \subseteq [direction : {"upload", "download"},
                        modes : [Workers -> SUBSET [atomic : BOOLEAN, resume : BOOLEAN]]]
ASSUME LengthAssumption ==
    Lengths \subseteq Nat /\ MaxLength \in Lengths /\ MaxVersion \in Nat \ {0}
ASSUME NameAssumption == {"final", "part", "kept"} \cap Unique = {}
ASSUME NoneAssumption == None \notin Inodes /\ None \notin Unique

VARIABLES
    setting,        \* never changes
    names,          \* name -> inode
    files,          \* inode -> [via, blocks]
    fd,             \* worker -> inode of its open staging handle
    source,         \* [ver, len]
    pc, call        \* where each call is, and its locals; call.steady is history:
                    \* the source has not changed since it began, nor was the file
                    \* it copies to in place moved away

vars == <<setting, names, files, fd, source, pc, call>>

Names == {"final", "part", "kept"} \cup Unique
Blocks == Seq(Hole..MaxVersion)
Idle == [atomic |-> FALSE, resume |-> FALSE, work |-> "final", existed |-> FALSE,
         pos |-> 0, total |-> 0, steady |-> TRUE]
Blank == [via |-> "none", blocks |-> <<>>]
Content == [k \in 1..source.len |-> source.ver]

TypeOK ==
    /\ setting \in Settings
    /\ names \in [Names -> Inodes \cup {None}]
    /\ files \in [Inodes -> [via : {"none", "fresh", "part", "final", "foreign"},
                             blocks : Blocks]]
    /\ fd \in [Workers -> Inodes \cup {None}]
    /\ source \in [ver : 1..MaxVersion, len : Lengths]
    /\ pc \in [Workers -> {"idle", "final", "stage", "open", "copy", "sync",
                           "recheck", "publish", "unlink", "stamp"}]
    /\ call \in [Workers -> [atomic : BOOLEAN, resume : BOOLEAN,
                             work : Names \ {"kept"}, existed : BOOLEAN,
                             pos : Nat, total : Nat, steady : BOOLEAN]]
    /\ \A w \in Workers : fd[w] # None <=> pc[w] \in {"copy", "sync"}

Init ==
    /\ setting \in Settings
    /\ names = [n \in Names |-> None]
    /\ files = [i \in Inodes |-> Blank]
    /\ fd = [w \in Workers |-> None]
    /\ source \in [ver : {1}, len : Lengths]
    /\ pc = [w \in Workers |-> "idle"]
    /\ call = [w \in Workers |-> Idle]
-----------------------------------------------------------------------------
(* The file system *)

\* Inodes live as long as a name or a handle refers to them.
FileSystem(n, f, h) ==
    /\ names' = n
    /\ fd' = h
    /\ files' = [i \in Inodes |->
                    IF \E m \in Names : n[m] = i THEN f[i]
                    ELSE IF \E w \in Workers : h[w] = i THEN f[i] ELSE Blank]

Free == {i \in Inodes : /\ \A m \in Names : names[m] # i
                        /\ \A w \in Workers : fd[w] # i}
NewInode == CHOOSE i \in Free : TRUE

\* Write block b at position k; a gap before it reads as holes.
WriteAt(blocks, k, b) ==
    [m \in 1..(IF k > Len(blocks) THEN k ELSE Len(blocks)) |->
        IF m = k THEN b ELSE IF m <= Len(blocks) THEN blocks[m] ELSE Hole]

\* The call of w is over; its handle is closed.
Return(w, n) ==
    /\ FileSystem(n, files, [fd EXCEPT ![w] = None])
    /\ pc' = [pc EXCEPT ![w] = "idle"]
    /\ call' = [call EXCEPT ![w] = Idle]
    /\ UNCHANGED <<setting, source>>

Step(w, to) ==
    /\ pc' = [pc EXCEPT ![w] = to]
    /\ UNCHANGED <<setting, source>>
-----------------------------------------------------------------------------
(* A call *)

\* Stat the source, make the parent directories.
Begin(w) ==
    /\ pc[w] = "idle"
    /\ \E mode \in setting.modes[w] :
        /\ call' = [call EXCEPT ![w] = [Idle EXCEPT !.atomic = mode.atomic,
                                                    !.resume = mode.resume,
                                                    !.total = source.len]]
        /\ Step(w, IF mode.atomic THEN "final" ELSE "stage")
    /\ UNCHANGED <<names, files, fd>>

\* ensure_remote_atomic_destination_absent / ensure_atomic_destination_absent
DestinationAbsent(w) == names["final"] = None

CheckFinal(w) ==
    /\ pc[w] = "final"
    /\ IF DestinationAbsent(w)
       THEN Step(w, "stage") /\ UNCHANGED <<names, files, fd, call>>
       ELSE Return(w, names)

WorkNamesInPlace(w) == {"final"}

WorkNames(w) == IF ~call[w].atomic THEN {"final"}
                ELSE IF call[w].resume THEN {"part"} ELSE Unique

\* resume_offset restarts a longer leftover; the atomic policies refuse it.
ResumeOffsetPast(w, len) == IF call[w].resume /\ len < call[w].total THEN len + 1 ELSE 0

ResumeOffset(w, len) == IF call[w].resume /\ len <= call[w].total THEN len ELSE 0

Acceptable(w, len) ==
    call[w].atomic => call[w].resume /\ len <= call[w].total

\* lstat the staging file and decide where to start.
Stage(w) ==
    /\ pc[w] = "stage"
    /\ \E work \in WorkNames(w) :
        LET there == names[work] # None
            len == IF there THEN Len(files[names[work]].blocks) ELSE 0
            offset == IF there THEN ResumeOffset(w, len) ELSE 0
            complete == call[w].resume /\ offset = call[w].total /\ offset # 0
        IN IF there /\ ~Acceptable(w, len) THEN Return(w, names)
           ELSE IF complete /\ ~call[w].atomic /\ setting.direction = "upload"
           THEN Return(w, names)
           ELSE /\ call' = [call EXCEPT ![w].work = work, ![w].existed = there,
                                        ![w].pos = offset]
                /\ Step(w, IF ~complete THEN "open"
                           ELSE IF setting.direction = "upload" THEN "recheck" ELSE "stamp")
                /\ UNCHANGED <<names, files, fd>>

\* atomic_open_flags / open_atomic_staging: an existing staging file is opened
\* for writing only, an absent one is created exclusively.  In place, the file
\* is created if need be, and truncated unless the transfer resumes.  No file is
\* created when the file system has no inode left.
CanOpen(w) ==
    LET there == names[call[w].work] # None IN
    /\ call[w].atomic => (there <=> call[w].existed)
    /\ ~there => Free # {}

KeepsAlways(w, i) == names[call[w].work] = i

Keeps(w, i) == names[call[w].work] = i /\ (call[w].atomic \/ call[w].pos # 0)

Open(w) ==
    LET work == call[w].work
        i == IF names[work] # None THEN names[work] ELSE NewInode
        kept == IF Keeps(w, i) THEN files[i].blocks ELSE <<>>
        via == IF names[work] # None THEN files[i].via
               ELSE IF work \in Unique THEN "fresh" ELSE work
    IN /\ pc[w] = "open"
       /\ IF CanOpen(w)
          THEN /\ FileSystem([names EXCEPT ![work] = i],
                             [files EXCEPT ![i] = [via |-> via, blocks |-> kept]],
                             [fd EXCEPT ![w] = i])
               /\ Step(w, "copy") /\ UNCHANGED call
          ELSE Return(w, names)

\* copy_with_progress: one block, until the source has no more.
Copy(w) ==
    LET k == call[w].pos + 1
        i == fd[w]
    IN /\ pc[w] = "copy"
       /\ IF k <= source.len
          THEN /\ FileSystem(names,
                             [files EXCEPT ![i].blocks = WriteAt(@, k, source.ver)], fd)
               /\ call' = [call EXCEPT ![w].pos = k]
               /\ Step(w, "copy")
          ELSE Step(w, "sync") /\ UNCHANGED <<names, files, fd, call>>

SyncKeepsHandle(w) ==
    /\ pc[w] = "sync"
    /\ Step(w, IF call[w].atomic /\ setting.direction = "upload" THEN "recheck" ELSE "stamp")
    /\ UNCHANGED <<names, files, fd, call>>

\* Flush, close the handle.
Sync(w) ==
    /\ pc[w] = "sync"
    /\ FileSystem(names, files, [fd EXCEPT ![w] = None])
    /\ Step(w, IF call[w].atomic /\ setting.direction = "upload" THEN "recheck" ELSE "stamp")
    /\ UNCHANGED call

\* finish_remote_atomic looks again before it renames.
Recheck(w) ==
    /\ pc[w] = "recheck"
    /\ IF DestinationAbsent(w)
       THEN Step(w, "publish") /\ UNCHANGED <<names, files, fd, call>>
       ELSE Return(w, names)

\* preserve_remote_mtime on the published file, or preserve_local_mtime on the
\* staging file before it is published.
Stamp(w) ==
    /\ pc[w] = "stamp"
    /\ IF call[w].atomic /\ setting.direction = "download" /\ names[call[w].work] # None
       THEN Step(w, "publish") /\ UNCHANGED <<names, files, fd, call>>
       ELSE Return(w, names)

\* SFTP v3 rename and hard_link both fail on an occupied name.
Linked(w) == [names EXCEPT !["final"] = names[call[w].work]]

Renamed(w) == [Linked(w) EXCEPT ![call[w].work] = None]

\* A fresh download removes its staging file when the copy or the publication
\* fails; removal is best effort.  Uploads and resumes leave theirs.
Cleans(w) == /\ setting.direction = "download" /\ call[w].atomic /\ ~call[w].resume
             /\ pc[w] \in {"copy", "publish", "unlink"}

Cleaned(w) == IF Cleans(w) THEN [names EXCEPT ![call[w].work] = None] ELSE names

CanPublishOver(w) == names[call[w].work] # None

CanPublish(w) == names[call[w].work] # None /\ names["final"] = None

Publish(w) ==
    /\ pc[w] = "publish"
    /\ IF ~CanPublish(w) THEN Return(w, Cleaned(w))
       ELSE /\ FileSystem(IF setting.direction = "upload" THEN Renamed(w) ELSE Linked(w), files, fd)
            /\ Step(w, IF setting.direction = "upload" THEN "stamp" ELSE "unlink")
            /\ UNCHANGED call

\* The staging name goes once the final link exists.
Unlink(w) ==
    /\ pc[w] = "unlink"
    /\ Return(w, [names EXCEPT ![call[w].work] = None])

\* An operation fails, or check_cancelled finds the token set.
IoError(w) ==
    /\ pc[w] # "idle"
    /\ Return(w, Cleaned(w))

\* The process exits, or the task is aborted with its JoinSet: nothing runs.
Crash(w) ==
    /\ pc[w] # "idle"
    /\ Return(w, names)
-----------------------------------------------------------------------------
(* Everybody else *)

SourceChanges ==
    /\ source.ver < MaxVersion
    /\ \E len \in Lengths : source' = [ver |-> source.ver + 1, len |-> len]
    /\ call' = [w \in Workers |-> IF pc[w] = "idle" THEN Idle
                                  ELSE [call[w] EXCEPT !.steady = FALSE]]
    /\ UNCHANGED <<setting, names, files, fd, pc>>

\* Somebody else's file is longer than any source.
Foreign == [k \in 1..MaxLength + 1 |-> Hole]

ForeignCreates ==
    /\ names["final"] = None /\ Free # {}
    /\ FileSystem([names EXCEPT !["final"] = NewInode],
                  [files EXCEPT ![NewInode] = [via |-> "foreign", blocks |-> Foreign]], fd)
    /\ UNCHANGED <<setting, source, pc, call>>

\* The user moves the destination file away and keeps it.
UserMoves ==
    /\ names["final"] # None
    /\ FileSystem([names EXCEPT !["kept"] = names["final"], !["final"] = None], files, fd)
    /\ call' = [w \in Workers |->
                    [call[w] EXCEPT !.steady = @ /\ (pc[w] = "idle" \/ call[w].atomic)]]
    /\ UNCHANGED <<setting, source, pc>>

Next ==
    \/ \E w \in Workers :
        \/ Begin(w) \/ CheckFinal(w) \/ Stage(w) \/ Open(w) \/ Copy(w) \/ Sync(w)
        \/ Recheck(w) \/ Stamp(w) \/ Publish(w) \/ Unlink(w) \/ IoError(w) \/ Crash(w)
    \/ SourceChanges \/ ForeignCreates \/ UserMoves

Spec == Init /\ [][Next]_vars
-----------------------------------------------------------------------------
(* Properties *)

AtomicStep ==
    \E w \in Workers : call[w].atomic /\ <<pc[w], call[w].pos>>' # <<pc[w], call[w].pos>>

\* atomic = true is create-only: no atomic call ever removes or replaces the
\* file at the destination, whoever put it there and whenever.
NeverReplaced ==
    [][AtomicStep /\ names["final"] # None => names'["final"] = names["final"]]_vars

\* What an atomic call publishes is the whole source, whatever crashed calls
\* left behind: a fresh call's when the source did not change meanwhile, a
\* resumed call's when it has never changed.
PublishedWhole ==
    [][\A w \in Workers :
        /\ pc[w] = "publish" /\ pc'[w] \in {"stamp", "unlink"}
        /\ call[w].steady /\ (call[w].resume => source.ver = 1)
        => files[names'["final"]].blocks = Content]_vars

\* A file published by a fresh atomic call, or put there by somebody else, is
\* never written by an atomic call again, moved away or not.
FreshIntact ==
    [][\A n \in {"final", "kept"} :
        LET i == names[n] IN
        AtomicStep /\ i # None /\ files[i].via \in {"fresh", "foreign"}
            => files'[i].blocks = files[i].blocks \/ \A m \in Names : names'[m] # i]_vars

\* Nobody else has a fresh call's staging file open or published.
StagingExclusive ==
    \A v, w \in Workers :
        v # w /\ fd[w] # None /\ call[w].atomic /\ ~call[w].resume
            => fd[v] # fd[w] /\ names["final"] # fd[w]

\* A copy in place leaves no tail of what was there, and a call that does not
\* resume leaves the whole source.
InPlaceExact ==
    \A w \in Workers :
        pc[w] = "sync" /\ ~call[w].atomic /\ call[w].steady =>
            LET blocks == files[fd[w]].blocks IN
            Len(blocks) = source.len /\ (~call[w].resume => blocks = Content)
=============================================================================
