---------------------------- MODULE TreeTransfer ----------------------------
(***************************************************************************)
(* One recursive transfer of a directory tree: upload_tree and             *)
(* download_tree of the engine (transfer.rs, "direct"), their atomic forms *)
(* (transfer_policy.rs and transfer_download_policy.rs, "atomic") and the  *)
(* desktop's own recursive download (files.rs, "desktop"), after the       *)
(* symbolic-link policy of symlink_policy.rs.                              *)
(*                                                                         *)
(* The walk lists one directory at a time and handles one entry per step.  *)
(* Files are copied by tasks of a JoinSet that run beside it; FileTransfer *)
(* has the steps of one copy in detail, here a copy opens, writes and      *)
(* publishes.  A resuming copy takes the bytes it finds, in place or in    *)
(* the staging file <path>.kaduox.part of an earlier call, for its own.    *)
(* A call that fails drops the set: its tasks stop at their next await,    *)
(* but a publish already asked for still happens.                          *)
(***************************************************************************)
EXTENDS Naturals, Sequences, FiniteSets, TLC

CONSTANTS
    Paths,              \* sequences of names; << >> is the root of the tree
    Folded,             \* name -> the name up to case and normalisation
    Jobs,               \* [up, how, reject, fold, resume]: see TypeOK
    Sources, Targets,   \* path -> kind of entry, to begin with
    FileConcurrency,
    MaxDepth,           \* MAX_DOWNLOAD_DEPTH, MAX_DIRECTORY_DEPTH
    MaxFiles,           \* MAX_DIRECTORY_FILES
    MaxChanges          \* what others change during the transfer

VARIABLES
    job,        \* fold: the destination file system folds names; never changes
    src,        \* path -> kind
    dst,        \* place -> [kind, by]: by the path it was copied from, Us for a
                \* directory of ours, Foreign, Found for a file that has bytes a
                \* resume found; kind "part" is a file half written
    walk, why,  \* where the call is, and what it failed of
    stack,      \* directories yet to be handled: [dir, listed, todo], todo the
                \* entries of its listing, [path, kind], that are left
    tasks,      \* path -> stage, for the paths whose copy is in the JoinSet
    resumed,    \* the paths whose copy took over bytes of another content
    seen,       \* seen_local_names
    skipped, copied,    \* what the summary counts
    cancelled, changes

vars == <<job, src, dst, walk, why, stack, tasks, resumed, seen, skipped, copied,
          cancelled, changes>>

Kinds == {"none", "file", "dir", "link", "other", "bad"}   \* "bad": no valid name
Stages == {"new", "copy", "stage", "publish", "done", "failed"}
Us == <<"us">>           \* these three are no paths of the tree
Foreign == <<"others">>
Found == <<"found">>
Nothing == [kind |-> "none", by |-> Us]
Frame(d) == [dir |-> d, listed |-> FALSE, todo |-> {}]

TypeOK ==
    /\ job \in [up : BOOLEAN, how : {"direct", "atomic", "desktop"},
                reject : BOOLEAN, fold : BOOLEAN, resume : BOOLEAN]
    /\ src \in [Paths -> Kinds]
    /\ dst \in [Paths -> [kind : Kinds \cup {"part"}, by : Paths \cup {Us, Foreign, Found}]]
    /\ walk \in {"policy", "preflight", "root", "entries", "drain", "ok", "err"}
    /\ why \in {"none", "link", "occupied", "name", "kind", "depth", "limit",
                "cancelled", "io"}
    /\ \A i \in DOMAIN stack : /\ stack[i].dir \in Paths
                               /\ stack[i].todo \subseteq [path : Paths, kind : Kinds]
    /\ DOMAIN tasks \subseteq Paths /\ \A p \in DOMAIN tasks : tasks[p] \in Stages
    /\ Cardinality(DOMAIN tasks) <= FileConcurrency
    /\ skipped \cup copied \cup resumed \subseteq Paths
    /\ cancelled \in BOOLEAN /\ changes \in 0..MaxChanges

Parent(p) == SubSeq(p, 1, Len(p) - 1)
Name(p) == p[Len(p)]
Listing(d) == {[path |-> p, kind |-> src[p]] :
                  p \in {q \in Paths : q # << >> /\ Parent(q) = d /\ src[q] # "none"}}

\* Where an entry of the tree is put.
Place(p) == IF job.fold THEN [i \in DOMAIN p |-> Folded[p[i]]] ELSE p

Init ==
    /\ job \in Jobs
    /\ src \in Sources
    /\ \E t \in Targets : dst = [p \in Paths |-> IF t[p] = "none" THEN Nothing
                                                 ELSE [kind |-> t[p], by |-> Foreign]]
    /\ walk = "policy" /\ why = "none"
    /\ stack = << >> /\ tasks = << >> /\ resumed = {}
    /\ seen = {} /\ skipped = {} /\ copied = {}
    /\ cancelled = FALSE /\ changes = 0

Fail(reason) ==
    /\ walk' = "err" /\ why' = reason
    /\ stack' = << >>
    /\ tasks' = [p \in {q \in DOMAIN tasks : tasks[q] = "publish"} |-> "publish"]
-----------------------------------------------------------------------------
(* Before the walk *)

\* The scan of a remote tree for links also refuses a name that is not one
\* component (preflight_remote_tree_no_links).
NamesScanned == job.reject /\ ~job.up => \A p \in Paths : src[p] # "bad"

\* preflight_local_tree_no_links and its remote counterpart
LinkPolicy == job.reject => \A p \in Paths : src[p] # "link"

Policy ==
    /\ walk = "policy"
    /\ IF cancelled THEN Fail("cancelled") /\ UNCHANGED seen
       ELSE IF ~LinkPolicy THEN Fail("link") /\ UNCHANGED seen
       ELSE IF ~NamesScanned THEN Fail("name") /\ UNCHANGED seen
       ELSE /\ walk' = IF job.how = "atomic" /\ ~job.up /\ src[<< >>] = "dir"
                       THEN "preflight" ELSE "root"
            /\ UNCHANGED <<why, stack, tasks, seen>>
    /\ UNCHANGED <<job, src, resumed, dst, skipped, copied, cancelled, changes>>

DirectoryClear(p) == dst[Place(p)].kind \in {"none", "dir"}   \* preflight_local_directory
FileClear(p) == dst[Place(p)].kind = "none"     \* preflight_atomic_file_destination

ClearDirectories(p) == src[p] = "dir" => DirectoryClear(p)
Clear(p) == /\ src[p] = "dir" => DirectoryClear(p)
            /\ src[p] = "file" => FileClear(p)

\* preflight_atomic_download_tree changes nothing.
Preflight ==
    /\ walk = "preflight"
    /\ IF cancelled THEN Fail("cancelled")
       ELSE IF \E p \in Paths : src[p] = "bad" THEN Fail("name")
       ELSE IF \E p \in Paths : ~Clear(p) THEN Fail("occupied")
       ELSE walk' = "root" /\ UNCHANGED <<why, stack, tasks>>
    /\ UNCHANGED <<job, src, resumed, dst, seen, skipped, copied, cancelled, changes>>

\* ensure_remote_dir, ensure_local_directory_no_links, create_dir_all: only the
\* last follows a link.
CanEnsure(p) == dst[Place(p)].kind \in {"none", "dir"}
                              \cup (IF job.how = "desktop" THEN {"link"} ELSE {})
Ensured(p) == IF dst[Place(p)].kind = "none"
              THEN [dst EXCEPT ![Place(p)] = [kind |-> "dir", by |-> Us]]
              ELSE dst

EnterRoot(to) ==
    /\ dst' = to
    /\ stack' = <<Frame(<< >>)>>
    /\ walk' = "entries"
    /\ UNCHANGED <<why, tasks>>

\* The desktop makes each directory when it has listed it.
RootDesktop == job.how = "desktop" /\ EnterRoot(dst)

RootDir ==
    /\ job.how # "desktop" /\ ~cancelled
    /\ src[<< >>] = "dir" /\ CanEnsure(<< >>)
    /\ EnterRoot(Ensured(<< >>))

RootFile ==
    /\ job.how # "desktop" /\ ~cancelled
    /\ src[<< >>] = "file"
    /\ tasks' = (<< >> :> "new")
    /\ walk' = "drain"
    /\ UNCHANGED <<dst, why, stack>>

RootRefused ==
    /\ job.how # "desktop"
    /\ \/ cancelled
       \/ src[<< >>] \notin {"dir", "file"}
       \/ src[<< >>] = "dir" /\ ~CanEnsure(<< >>)
    /\ Fail(IF cancelled THEN "cancelled"
            ELSE IF src[<< >>] = "dir" THEN "occupied" ELSE "kind")
    /\ UNCHANGED dst

Root ==
    /\ walk = "root"
    /\ RootDesktop \/ RootDir \/ RootFile \/ RootRefused
    /\ UNCHANGED <<job, src, resumed, seen, skipped, copied, cancelled, changes>>
-----------------------------------------------------------------------------
(* The walk *)

Top == stack[Len(stack)]
Rest == SubSeq(stack, 1, Len(stack) - 1)

TooDeep(d) == CASE job.how = "direct" /\ ~job.up -> Len(d) >= MaxDepth
                [] job.how = "desktop" -> Len(d) > MaxDepth
                [] OTHER -> FALSE

\* Take the next directory and list it.
ReadDir ==
    /\ walk = "entries" /\ stack # << >> /\ ~Top.listed
    /\ IF cancelled THEN Fail("cancelled") /\ UNCHANGED dst
       ELSE IF TooDeep(Top.dir) THEN Fail("depth") /\ UNCHANGED dst
       ELSE IF src[Top.dir] # "dir" \/ (job.how = "desktop" /\ ~CanEnsure(Top.dir))
            THEN Fail("io") /\ UNCHANGED dst
       ELSE /\ stack' = Append(Rest, [dir |-> Top.dir, listed |-> TRUE,
                                      todo |-> Listing(Top.dir)])
            /\ dst' = IF job.how = "desktop" THEN Ensured(Top.dir) ELSE dst
            /\ UNCHANGED <<walk, why, tasks>>
    /\ UNCHANGED <<job, src, resumed, seen, skipped, copied, cancelled, changes>>

\* The entry e is handled.  A directory waits below the one being listed or,
\* where the code recurses, comes before the rest of it.
Handled(e) == Append(Rest, [Top EXCEPT !.todo = @ \ {e}])
Pushed(e) == IF job.how = "desktop" THEN Append(Handled(e), Frame(e.path))
             ELSE Rest \o <<Frame(e.path), [Top EXCEPT !.todo = @ \ {e}]>>

Key(p) == <<Parent(p), Folded[Name(p)]>>

\* The name was met before in this directory.  Only the direct download looks.
Duplicate(p) == job.how = "direct" /\ ~job.up /\ Key(p) \in seen

Skips(e) == \/ e.kind \in {"link", "other"}
            \/ e.kind = "bad" /\ job.how = "desktop"
            \/ e.kind \in {"file", "dir"} /\ Duplicate(e.path)

Skip(e) ==
    /\ Skips(e)
    /\ skipped' = skipped \cup {e.path}
    /\ stack' = Handled(e)
    /\ UNCHANGED <<dst, walk, why, tasks, seen, copied>>

EnterDir(e) ==
    /\ ~Skips(e) /\ e.kind = "dir"
    /\ seen' = seen \cup {Key(e.path)}
    /\ IF job.how = "desktop" \/ CanEnsure(e.path)
       THEN /\ dst' = IF job.how = "desktop" THEN dst ELSE Ensured(e.path)
            /\ stack' = Pushed(e)
            /\ UNCHANGED <<walk, why, tasks>>
       ELSE Fail("occupied") /\ UNCHANGED dst
    /\ UNCHANGED <<skipped, copied>>

Started(p, T) == [q \in T \cup {p} |-> IF q = p THEN "new" ELSE tasks[q]]

SpawnFileNoWait(e) ==
    /\ ~Skips(e) /\ e.kind = "file"
    /\ seen' = seen \cup {Key(e.path)}
    /\ Cardinality(DOMAIN tasks) < FileConcurrency
    /\ tasks' = Started(e.path, DOMAIN tasks)
    /\ stack' = Handled(e)
    /\ UNCHANGED <<dst, walk, why, skipped, copied>>

\* Spawn the copy of a file; at the limit, wait first for one to finish.
SpawnFile(e) ==
    /\ ~Skips(e) /\ e.kind = "file"
    /\ seen' = seen \cup {Key(e.path)}
    /\ \/ /\ Cardinality(DOMAIN tasks) < FileConcurrency
          /\ tasks' = Started(e.path, DOMAIN tasks)
          /\ stack' = Handled(e)
          /\ UNCHANGED <<walk, why, copied>>
       \/ /\ Cardinality(DOMAIN tasks) >= FileConcurrency
          /\ \E q \in DOMAIN tasks :
                \/ /\ tasks[q] = "done"
                   /\ copied' = copied \cup {q}
                   /\ tasks' = Started(e.path, DOMAIN tasks \ {q})
                   /\ stack' = Handled(e)
                   /\ UNCHANGED <<walk, why>>
                \/ tasks[q] = "failed" /\ Fail("io") /\ UNCHANGED copied
    /\ UNCHANGED <<dst, skipped>>

\* One entry of the listing.  The desktop copies a file before it goes on.
Entry ==
    /\ walk = "entries" /\ stack # << >> /\ Top.listed
    /\ job.how = "desktop" => DOMAIN tasks = {}
    /\ \E e \in Top.todo :
        \/ /\ ~cancelled
           /\ job.how = "desktop" => Cardinality(copied) < MaxFiles
           /\ Skip(e) \/ EnterDir(e) \/ SpawnFile(e)
        \/ /\ \/ cancelled
              \/ e.kind = "bad" /\ job.how # "desktop"
              \/ job.how = "desktop" /\ Cardinality(copied) >= MaxFiles
           /\ Fail(IF cancelled THEN "cancelled"
                   ELSE IF job.how = "desktop" THEN "limit" ELSE "name")
           /\ UNCHANGED <<dst, seen, skipped, copied>>
    /\ UNCHANGED <<job, src, resumed, cancelled, changes>>

PopDir ==
    /\ walk = "entries"
    /\ job.how = "desktop" => DOMAIN tasks = {}
    /\ \/ /\ stack # << >> /\ Top.listed /\ Top.todo = {}
          /\ stack' = Rest
          /\ UNCHANGED walk
       \/ /\ stack = << >>
          /\ walk' = "drain"
          /\ UNCHANGED stack
    /\ UNCHANGED <<job, src, resumed, dst, why, tasks, seen, skipped, copied, cancelled, changes>>

\* collect_next_transfer, collect_next_download; the desktop also adds up the
\* bytes, and gives up above MAX_DIRECTORY_BYTES.
Collect ==
    /\ walk = "drain" \/ (walk = "entries" /\ job.how = "desktop")
    /\ \E p \in DOMAIN tasks :
        \/ /\ tasks[p] = "done"
           /\ copied' = copied \cup {p}
           /\ \/ /\ tasks' = [q \in DOMAIN tasks \ {p} |-> tasks[q]]
                 /\ UNCHANGED <<walk, why, stack>>
              \/ job.how = "desktop" /\ Fail("limit")
        \/ tasks[p] = "failed" /\ Fail("io") /\ UNCHANGED copied
    /\ UNCHANGED <<job, src, resumed, dst, seen, skipped, cancelled, changes>>

Finish ==
    /\ walk = "drain" /\ DOMAIN tasks = {}
    /\ walk' = "ok"
    /\ UNCHANGED <<job, src, resumed, dst, why, stack, tasks, seen, skipped, copied,
                   cancelled, changes>>
-----------------------------------------------------------------------------
(* The copy of one file *)

To(p, stage) == tasks' = [tasks EXCEPT ![p] = stage]
PutBy(p, kind, by) == dst' = [dst EXCEPT ![Place(p)] = [kind |-> kind, by |-> by]]
Put(p, kind) == PutBy(p, kind, IF p \in resumed THEN Found ELSE p)

\* Whether the copy is published at its end: an atomic transfer, or a desktop
\* one whose destination was not there (transfer_options_for_destination).
Atomic(p) == \/ job.how = "atomic"
             \/ job.how = "desktop" /\ dst[Place(p)].kind = "none"

\* The parents are directories, the source is a file, the destination is absent
\* or, in place, a file.
CanOpen(p) ==
    /\ ~cancelled /\ src[p] = "file"
    /\ p # << >> => dst[Place(Parent(p))].kind = "dir"
    /\ dst[Place(p)].kind \in IF Atomic(p) THEN {"none"} ELSE {"none", "file", "part"}

\* From the start, or from bytes of this very file.
OpenFresh(p) ==
    /\ IF Atomic(p) THEN To(p, "stage") /\ UNCHANGED dst
                    ELSE To(p, "copy") /\ PutBy(p, "part", p)
    /\ UNCHANGED resumed

\* A resume finds a destination as long as the source and leaves it, or continues a
\* shorter one.  Of a staging file it takes over as many bytes, or refuses it for its
\* length or kind.
OpenResumed(p) ==
    /\ job.resume
    /\ \/ /\ ~Atomic(p) /\ dst[Place(p)].kind # "none"
          /\ resumed' = resumed \cup {p}
          /\ \/ To(p, "done") /\ UNCHANGED dst
             \/ To(p, "copy") /\ PutBy(p, "part", Found)
       \/ Atomic(p) /\ resumed' = resumed \cup {p} /\ To(p, "stage") /\ UNCHANGED dst
       \/ Atomic(p) /\ To(p, "failed") /\ UNCHANGED <<dst, resumed>>

TaskOpen(p) ==
    /\ walk # "err" /\ tasks[p] = "new"
    /\ IF CanOpen(p) THEN OpenFresh(p) \/ OpenResumed(p)
                     ELSE To(p, "failed") /\ UNCHANGED <<dst, resumed>>

\* The last block is written, in place or to the staging file; or the copy
\* breaks off.
TaskCopy(p) ==
    /\ walk # "err" /\ tasks[p] \in {"copy", "stage"}
    /\ \/ ~cancelled /\ tasks[p] = "copy" /\ To(p, "done") /\ Put(p, "file")
       \/ ~cancelled /\ tasks[p] = "stage" /\ To(p, "publish") /\ UNCHANGED dst
       \/ To(p, "failed") /\ UNCHANGED dst
    /\ UNCHANGED resumed

\* finish_local_atomic, finish_remote_atomic: the file system refuses to
\* replace what is there.
TaskPublish(p) ==
    /\ tasks[p] = "publish"
    /\ \/ dst[Place(p)].kind = "none" /\ To(p, "done") /\ Put(p, "file")
       \/ To(p, "failed") /\ UNCHANGED dst
    /\ UNCHANGED resumed

Task(p) ==
    /\ p \in DOMAIN tasks
    /\ TaskOpen(p) \/ TaskCopy(p) \/ TaskPublish(p)
    /\ UNCHANGED <<job, src, walk, why, stack, seen, skipped, copied,
                   cancelled, changes>>
-----------------------------------------------------------------------------
(* What others do *)

Active == walk \in {"policy", "preflight", "root", "entries", "drain"}

Cancel ==
    /\ Active /\ job.how # "desktop" /\ ~cancelled
    /\ cancelled' = TRUE
    /\ UNCHANGED <<job, src, dst, walk, why, stack, tasks, resumed, seen, skipped, copied,
                   changes>>

\* The transport is lost.
IoError ==
    /\ Active
    /\ Fail("io")
    /\ UNCHANGED <<job, src, dst, resumed, seen, skipped, copied, cancelled, changes>>

SourceVanishes ==
    /\ Active /\ changes < MaxChanges
    /\ \E p \in Paths : src[p] = "file" /\ src' = [src EXCEPT ![p] = "none"]
    /\ changes' = changes + 1
    /\ UNCHANGED <<job, dst, walk, why, stack, tasks, resumed, seen, skipped, copied,
                   cancelled>>

TargetAppears ==
    /\ Active /\ changes < MaxChanges
    /\ \E p \in Paths : /\ p # << >> /\ Place(p) = p /\ dst[p].kind = "none"
                        /\ dst[Parent(p)].kind = "dir"
                        /\ dst' = [dst EXCEPT ![p] = [kind |-> "file", by |-> Foreign]]
    /\ changes' = changes + 1
    /\ UNCHANGED <<job, src, walk, why, stack, tasks, resumed, seen, skipped, copied,
                   cancelled>>
-----------------------------------------------------------------------------
Walk == Policy \/ Preflight \/ Root \/ ReadDir \/ Entry \/ PopDir \/ Collect \/ Finish
Others == Cancel \/ IoError \/ SourceVanishes \/ TargetAppears

Next == Walk \/ Others \/ \E p \in Paths : Task(p)

Spec == Init /\ [][Next]_vars

\* A spawned future is polled as long as it can go on.
Fairness == WF_vars(Walk) /\ \A p \in Paths : WF_vars(Task(p))
FairSpec == Spec /\ Fairness
-----------------------------------------------------------------------------
(* Properties *)

\* An upload to a server that folds names is the caller's affair: no code looks
\* for clashes there.
Distinct == job.fold => ~job.up

Below(S, p) == \E q \in S : Len(q) <= Len(p) /\ SubSeq(p, 1, Len(q)) = q

\* A recursive transfer that returns Ok copied the tree: every file that is not
\* counted as skipped, nor below a directory that is, is at its place with its
\* own content, and the summary counts exactly those.  With resume, a file that took
\* over bytes of another content is there, but has that content.
TreeCopied ==
    walk = "ok" /\ changes = 0 /\ Distinct =>
        LET files == {p \in Paths : src[p] = "file" /\ ~Below(skipped, p)}
        IN  /\ copied = files
            /\ \A p \in files : dst[Place(p)].kind = "file"
            /\ \A p \in files \ resumed : dst[Place(p)].by = p
            /\ \A p \in Paths : src[p] = "dir" /\ ~Below(skipped, p)
                                    => CanEnsure(p) /\ dst[Place(p)].kind # "none"

\* A copy that is whole is never written over by another entry of the same tree,
\* also where names that differ only in case or normalisation share a place.
NoMutualOverwrite ==
    [][Distinct =>
        \A p \in Paths : dst[p].kind = "file" /\ dst[p].by \in Paths => dst'[p] = dst[p]]_vars

Touched == \E p \in Paths : dst[p].kind # "none" /\ dst[p].by # Foreign

\* The preflight of an atomic download finds every destination that is taken
\* before anything is written: once a file is published, no other is refused
\* for a destination that was there from the start.  (A staging file that a resume
\* refuses is not looked for.)
PreflightDecides ==
    job.how = "atomic" /\ ~job.up /\ ~job.fold /\ changes = 0 /\ src[<< >>] = "dir" =>
        /\ why = "occupied" => ~Touched
        /\ \A p \in DOMAIN tasks : tasks[p] = "new" /\ ~cancelled => CanOpen(p)

\* SymlinkPolicy::Reject: a tree that holds a link leaves the destination as it was.
RejectDecides ==
    job.reject /\ (\E p \in Paths : src[p] = "link") => ~Touched

\* The call returns, whatever fails, is cancelled or is at its limit.
TreeEnds == <>~Active
=============================================================================
