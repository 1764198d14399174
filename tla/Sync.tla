-------------------------------- MODULE Sync --------------------------------
(***************************************************************************)
(* Local-to-remote synchronization (crates/kaduox-ssh-transfer/src/sync.rs *)
(* with sync/preflight.rs and sync/source_preflight.rs): both trees are    *)
(* scanned, a plan is built, the plan is checked against the local sources *)
(* and, in atomic mode, against the remote tree, and is then applied:      *)
(* deletes, directories, and bounded concurrent uploads.  Other parties    *)
(* may change either tree between any two steps.                           *)
(***************************************************************************)
EXTENDS Naturals, SequencesExt

CONSTANTS Paths,            \* relative paths: tuples of components, <<>> is the root
          LocalFiles,       \* the files others may put in the source meanwhile
          ForeignFiles,     \* the files others may put in the destination meanwhile
          Cases,            \* where a synchronization starts: trees, options, and a
                            \* bound on the changes that other parties make
          FileConcurrency   \* transfer.file_concurrency

ASSUME PathsAssumption ==
    <<>> \in Paths /\ \A p \in Paths \ {<<>>} : Front(p) \in Paths

VARIABLES
    local, remote,   \* the trees: an entry for every path
    mode,            \* SyncOptions: [delete, size_only, atomic, resume, dry_run]
    seen,            \* the local snapshot of the plan
    plan, at,        \* the plan, and the next action to look at
    tasks,           \* the uploads of the JoinSet: "run", "ok" or "err"
    phase,           \* where the call is; "ok" and "err" are its results
    changes,         \* how often others may still change a tree
    uploaded,        \* history: the uploads that reported success
    mutated,         \* history: the call has changed the remote tree
    disturbed,       \* history: a tree changed, or a request failed, since the scan
    foreign          \* history: the remote entries others created since the scan

trees == <<local, remote>>
control == <<plan, at, tasks, phase>>
history == <<uploaded, mutated, disturbed, foreign>>
vars == <<trees, mode, seen, control, changes, history>>

NoEntry == [kind |-> "none", len |-> 0, mtime |-> 0, data |-> 0]
Dir == [NoEntry EXCEPT !.kind = "dir"]
Other == [NoEntry EXCEPT !.kind = "other"]     \* a link, a socket, a device
Mixed == 0                                     \* the content of a spliced file

Below(p) == {q \in Paths : IsStrictPrefix(p, q)}
Ancestry(p) == {q \in Paths : IsPrefix(q, p)}
Empty(t, p) == \A q \in Below(p) : t[q].kind = "none"

\* A file system: only directories have entries.
Closed(t) == \A p \in Paths \ {<<>>} : t[p].kind # "none" => t[Front(p)].kind = "dir"

Trees(files) == {t \in [Paths -> files \cup {NoEntry, Dir, Other}] : Closed(t)}

Init ==
    /\ \E c \in Cases : /\ local \in {t \in c.local : t[<<>>] = Dir}
                        /\ remote \in {t \in c.remote : t[<<>>] \in {Dir, NoEntry}}
                        /\ mode \in c.modes /\ changes = c.changes
    /\ seen = [p \in Paths |-> NoEntry]
    /\ plan = <<>> /\ at = 1 /\ tasks = <<>> /\ phase = "scan"
    /\ uploaded = {} /\ mutated = FALSE /\ disturbed = FALSE /\ foreign = {}

Less(p, q) == \/ IsStrictPrefix(p, q)
              \/ \E k \in 1..Len(p) : /\ k <= Len(q) /\ p[k] < q[k]
                                      /\ SubSeq(p, 1, k - 1) = SubSeq(q, 1, k - 1)

-----------------------------------------------------------------------------
(* The plan. *)

\* scan_local: links and special files of the source are skipped.
ScanLocal == [p \in Paths |-> IF p # <<>> /\ local[p].kind # "other" THEN local[p]
                                                                     ELSE NoEntry]

ScanRemote == [p \in Paths |-> IF p # <<>> THEN remote[p] ELSE NoEntry]

Diff(a, b) == IF a < b THEN b - a ELSE a - b

\* files_match: the same length and, unless only sizes count, mtimes a second apart.
FilesMatch(l, r) == l.len = r.len /\ (mode.size_only \/ Diff(l.mtime, r.mtime) <= 1)

Conflict(L, R, p) == /\ L[p].kind # "none" /\ R[p].kind # "none"
                     /\ L[p].kind # R[p].kind

Extra(L, R, p) == L[p].kind = "none" /\ R[p].kind # "none"

\* Extra entries go whatever the options say.
DoomedAlways(L, R) == {p \in Paths : Conflict(L, R, p) \/ Extra(L, R, p)}

Doomed(L, R) == {p \in Paths : \/ Conflict(L, R, p)
                               \/ mode.delete /\ Extra(L, R, p)}

Needed(L, R, kind) == {p \in Paths : L[p].kind = kind /\ R[p].kind # kind}

Changed(L, R) == {p \in Paths : /\ L[p].kind = "file" /\ R[p].kind = "file"
                                /\ ~FilesMatch(L[p], R[p])}

Actions(kind, order, L) ==
    [i \in 1..Len(order) |-> [kind |-> kind, path |-> order[i],
                              bytes |-> L[order[i]].len]]

Shallow(p, q) == Len(p) < Len(q) \/ (Len(p) = Len(q) /\ Less(p, q))
Deep(p, q) == Shallow(q, p)

\* build_push_plan, when there is no type conflict that the options forbid.
BuildPushPlan(L, R) ==
    LET doomed == Doomed(L, R)
    IN  Actions("delete_file", SetToSortSeq({p \in doomed : R[p].kind # "dir"}, Less), L)
        \o Actions("delete_dir", SetToSortSeq({p \in doomed : R[p].kind = "dir"}, Deep), L)
        \o Actions("create_dir", SetToSortSeq(Needed(L, R, "dir"), Shallow), L)
        \o Actions("upload",
                   SetToSortSeq(Needed(L, R, "file") \cup Changed(L, R), Less), L)

Planned(kind) == {plan[i].path : i \in {j \in DOMAIN plan : plan[j].kind = kind}}

Plan ==
    /\ phase = "scan"
    /\ LET L == ScanLocal
           R == ScanRemote
           allowed == mode.delete \/ \A p \in Paths : ~Conflict(L, R, p)
       IN  /\ seen' = L
           /\ plan' = IF allowed THEN BuildPushPlan(L, R) ELSE <<>>
           /\ phase' = IF ~allowed THEN "err"
                       ELSE IF plan' = <<>> \/ mode.dry_run THEN "ok" ELSE "sources"
    /\ UNCHANGED <<trees, mode, at, tasks, changes, history>>

-----------------------------------------------------------------------------
(* The checks before the first mutation. *)

SourceGood(a) ==
    /\ \A q \in Ancestry(a.path) \ {a.path} : local[q].kind = "dir"
    /\ local[a.path].kind = "file" /\ local[a.path].len = a.bytes

\* preflight_local_sync_sources: every upload still has its source.
PreflightSources ==
    /\ phase = "sources"
    /\ phase' = IF \A i \in DOMAIN plan : plan[i].kind = "upload" => SourceGood(plan[i])
                THEN IF mode.atomic THEN "preflight" ELSE "root"
                ELSE "err"
    /\ UNCHANGED <<trees, mode, seen, plan, at, tasks, changes, history>>

DeletesFile(p) == p \in Planned("delete_file")
DeletesDir(p) == p \in Planned("delete_dir")
CreatesDir(p) == p \in Planned("create_dir")
HasDelete(p) == DeletesFile(p) \/ DeletesDir(p)

\* A parent that will be a fresh directory when the uploads start: it is absent, or a
\* non-directory the plan replaces.
Freshened(p) ==
    \/ remote[p].kind = "none" /\ ~HasDelete(p)
    \/ remote[p].kind \in {"file", "other"} /\ DeletesFile(p) /\ CreatesDir(p)

KeptDirectory(p) == remote[p].kind = "dir" /\ ~HasDelete(p)

\* A destination that is occupied is left for the upload to find.
FinalGoodAnyway(p) == ~CreatesDir(p)

\* validate_final_upload_destination
FinalGood(p) ==
    /\ ~CreatesDir(p)
    /\ CASE remote[p].kind = "none" -> ~HasDelete(p)
         [] remote[p].kind = "dir" -> DeletesDir(p) /\ ~DeletesFile(p)
         [] OTHER -> DeletesFile(p) /\ ~DeletesDir(p)

\* preflight_atomic_upload_path: walk down to the first parent that will be fresh;
\* from there on nothing may be deleted, and the destination cannot be occupied.
UploadFeasible(p) ==
    LET parents == {q \in Ancestry(p) : q # p /\ q # <<>>}
        fresh == {q \in parents : ~KeptDirectory(q)}
        first == CHOOSE q \in fresh : \A r \in fresh : IsPrefix(q, r)
    IN  IF fresh = {} THEN FinalGood(p)
        ELSE /\ Freshened(first)
             /\ \A q \in parents : IsStrictPrefix(first, q) => ~HasDelete(q)
             /\ ~HasDelete(p) /\ ~CreatesDir(p)

\* collect_planned_mutations: what a plan may not contradict itself in.
PlanConsistent ==
    /\ \A i, j \in DOMAIN plan :
        /\ plan[i].kind = plan[j].kind /\ plan[i].path = plan[j].path
             /\ plan[i].kind # "upload" => i = j
        /\ plan[i].kind \in {"delete_file", "delete_dir"} /\ plan[j].kind = "create_dir"
             /\ plan[i].path = plan[j].path => i < j
    /\ \A p \in Paths : ~(DeletesFile(p) /\ DeletesDir(p))

PreflightPasses ==
    /\ PlanConsistent
    /\ IF remote[<<>>].kind = "none"
       THEN \A i \in DOMAIN plan :
                /\ plan[i].kind \notin {"delete_file", "delete_dir"}
                /\ plan[i].kind = "upload" => ~CreatesDir(plan[i].path)
       ELSE /\ remote[<<>>].kind = "dir"
            /\ \A p \in Planned("upload") : UploadFeasible(p)

PreflightAtomic ==
    /\ phase = "preflight"
    /\ phase' = IF PreflightPasses THEN "root" ELSE "err"
    /\ UNCHANGED <<trees, mode, seen, plan, at, tasks, changes, history>>

-----------------------------------------------------------------------------
(* Applying the plan. *)

CanEnsure(p) == \A q \in Ancestry(p) : remote[q].kind \in {"none", "dir"}
Ensured(p) == [q \in Paths |-> IF q \in Ancestry(p) THEN Dir ELSE remote[q]]

EnsureRoot ==
    /\ phase = "root"
    /\ IF CanEnsure(<<>>)
       THEN /\ remote' = Ensured(<<>>) /\ phase' = "mutate"
            /\ mutated' = (mutated \/ remote' # remote)
       ELSE phase' = "err" /\ UNCHANGED <<remote, mutated>>
    /\ UNCHANGED <<local, mode, seen, plan, at, tasks, changes,
                   uploaded, disturbed, foreign>>

Emptied(p) == [remote EXCEPT ![p] = NoEntry]

\* A removal that takes what the directory holds.
RemovableTree(p) == remote[p].kind = "dir"

\* remove_dir: the server refuses to remove a directory that is not empty.
Removable(p) == remote[p].kind = "dir" /\ Empty(remote, p)

Possible(a) == CASE a.kind = "delete_file" -> remote[a.path].kind \in {"file", "other"}
                 [] a.kind = "delete_dir" -> Removable(a.path)
                 [] a.kind = "create_dir" -> CanEnsure(a.path)
                 [] OTHER -> TRUE

Gone(a) == [q \in Paths |-> IF IsPrefix(a.path, q) THEN NoEntry ELSE remote[q]]

Applied(a) == CASE a.kind \in {"delete_file", "delete_dir"} -> Gone(a)
                [] a.kind = "create_dir" -> Ensured(a.path)
                [] OTHER -> remote

Mutate ==
    /\ phase = "mutate"
    /\ IF at > Len(plan)
       THEN phase' = "upload" /\ at' = 1 /\ UNCHANGED <<remote, mutated>>
       ELSE IF Possible(plan[at])
       THEN /\ remote' = Applied(plan[at]) /\ at' = at + 1 /\ UNCHANGED phase
            /\ mutated' = (mutated \/ remote' # remote)
       ELSE phase' = "err" /\ UNCHANGED <<remote, at, mutated>>
    /\ UNCHANGED <<local, mode, seen, plan, tasks, changes, uploaded, disturbed, foreign>>

\* The next upload is spawned when there is room in the JoinSet.
Spawn ==
    /\ phase = "upload" /\ at <= Len(plan)
    /\ at' = at + 1
    /\ IF plan[at].kind = "upload"
       THEN /\ Cardinality(DOMAIN tasks) < FileConcurrency
            /\ tasks' = [p \in DOMAIN tasks \cup {plan[at].path} |->
                            IF p \in DOMAIN tasks THEN tasks[p] ELSE "run"]
       ELSE UNCHANGED tasks
    /\ UNCHANGED <<trees, mode, seen, plan, phase, changes, history>>

\* The file is opened without being truncated.
InPlaceOver(p) == IF remote[p].kind = "file" /\ remote[p].len > local[p].len
                  THEN [local[p] EXCEPT !.len = remote[p].len, !.data = Mixed]
                  ELSE local[p]

\* stable_remote_staging_path: <p>.kaduox.part, a sibling of p that a scan lists like
\* any other entry.
Staging(p) == Front(p) \o <<Last(p) + 100>>

Leftover(p) == IF mode.resume /\ Staging(p) \in Paths THEN remote[Staging(p)] ELSE NoEntry

\* A resume takes up a regular file that is no longer than the source.
LeftoverGood(p) == Leftover(p).kind \in {"none", "file"} /\ Leftover(p).len <= local[p].len

\* The file f, continued from what is there: the bytes it has are not read again.
Continued(f, there) ==
    [f EXCEPT !.data = IF there.len = 0 \/ there.data = f.data THEN f.data
                       ELSE IF there.len = f.len THEN there.data ELSE Mixed]

\* What an upload in place leaves: a resume trusts a file as long as the source, and
\* continues a shorter one.
InPlace(p) ==
    LET old == remote[p]
    IN  IF ~mode.resume \/ old.kind = "none" \/ old.len > local[p].len \/ old.len = 0
        THEN local[p]
        ELSE IF old.len = local[p].len THEN old ELSE Continued(local[p], old)

CanUpload(p) ==
    /\ local[p].kind = "file" /\ CanEnsure(Front(p))
    /\ IF mode.atomic THEN remote[p].kind = "none" /\ LeftoverGood(p)
                      ELSE remote[p].kind \in {"none", "file"}

\* The tree with staging file s of p in place: a fresh one has a name of its own, which
\* no path stands for.
Staged(p, s) == [q \in Paths |-> IF mode.resume /\ q = Staging(p) THEN s
                                                                ELSE Ensured(Front(p))[q]]

\* Atomic: the staging file is completed, renamed, and given the source's mtime.
Stored(p) ==
    IF mode.atomic
    THEN [Staged(p, NoEntry) EXCEPT ![p] = Continued(local[p], Leftover(p))]
    ELSE [Ensured(Front(p)) EXCEPT ![p] = InPlace(p)]

\* What a failure in the middle leaves: the destination in place, or the staging file,
\* with some of the bytes.  (A resume in place that finds the whole length writes none.)
Interrupted(p) ==
    LET there == IF mode.atomic THEN Leftover(p) ELSE remote[p]
        kept == IF mode.resume /\ there.len <= local[p].len THEN there.len ELSE 0
        part(n) == [Continued(local[p], [there EXCEPT !.len = kept])
                        EXCEPT !.len = n, !.mtime = local[p].mtime + 9]
        skips == ~mode.atomic /\ mode.resume /\ kept = local[p].len
    IN  {IF mode.atomic THEN Staged(p, part(n)) ELSE [Ensured(Front(p)) EXCEPT ![p] = part(n)] :
            n \in IF skips THEN {} ELSE kept..local[p].len}

Ends(p, how) == tasks' = [tasks EXCEPT ![p] = how]

\* upload_file, as a whole; FileTransfer.tla models what happens inside it.
Upload(p) ==
    /\ p \in DOMAIN tasks /\ tasks[p] = "run"
    /\ IF CanUpload(p)
       THEN /\ remote' = Stored(p) /\ Ends(p, "ok") /\ uploaded' = uploaded \cup {p}
            /\ mutated' = (mutated \/ remote' # remote)
       ELSE Ends(p, "err") /\ UNCHANGED <<remote, uploaded, mutated>>
    /\ UNCHANGED <<local, mode, seen, plan, at, phase, changes, disturbed, foreign>>

\* A request of the upload fails, before or after part of the file is there.
UploadFails(p) ==
    /\ p \in DOMAIN tasks /\ tasks[p] = "run" /\ Ends(p, "err")
    /\ \/ UNCHANGED <<remote, mutated>>
       \/ /\ CanUpload(p) /\ mutated' = TRUE
          /\ remote' \in Interrupted(p)
    /\ disturbed' = TRUE
    /\ UNCHANGED <<local, mode, seen, plan, at, phase, changes, uploaded, foreign>>

\* A request of the mutation phase fails.
MutateFails ==
    /\ phase \in {"root", "mutate"} /\ phase' = "err" /\ disturbed' = TRUE
    /\ UNCHANGED <<trees, mode, seen, plan, at, tasks, changes, uploaded, mutated, foreign>>

\* collect_next_sync_upload: an error drops the JoinSet, which aborts what still runs.
Collect ==
    /\ phase = "upload"
    /\ at <= Len(plan) =>
            plan[at].kind = "upload" /\ Cardinality(DOMAIN tasks) >= FileConcurrency
    /\ \E p \in DOMAIN tasks :
        \/ /\ tasks[p] = "ok" /\ tasks' = Restrict(tasks, DOMAIN tasks \ {p})
           /\ UNCHANGED phase
        \/ tasks[p] = "err" /\ tasks' = <<>> /\ phase' = "err"
    /\ UNCHANGED <<trees, mode, seen, plan, at, changes, history>>

Finish ==
    /\ phase = "upload" /\ at > Len(plan) /\ tasks = <<>> /\ phase' = "ok"
    /\ UNCHANGED <<trees, mode, seen, plan, at, tasks, changes, history>>

-----------------------------------------------------------------------------
(* Other parties. *)

Running == phase \notin {"ok", "err"}

ForeignRemoves(p) ==
    /\ p # <<>> /\ remote[p].kind # "none" /\ Empty(remote, p)
    /\ remote' = Emptied(p) /\ foreign' = foreign \ {p}
    /\ UNCHANGED local

ForeignCreates(p) ==
    /\ p # <<>> /\ remote[p].kind = "none" /\ remote[Front(p)].kind = "dir"
    /\ \E e \in ForeignFiles \cup {Dir} : remote' = [remote EXCEPT ![p] = e]
    /\ foreign' = foreign \cup {p}
    /\ UNCHANGED local

SourceChanges(p) ==
    /\ local[p].kind = "file"
    /\ \E e \in (LocalFiles \cup {NoEntry, Other}) \ {local[p]} :
            local' = [local EXCEPT ![p] = e]
    /\ UNCHANGED <<remote, foreign>>

Others ==
    /\ Running /\ phase # "scan" /\ changes > 0 /\ changes' = changes - 1
    /\ \E p \in Paths : ForeignRemoves(p) \/ ForeignCreates(p) \/ SourceChanges(p)
    /\ disturbed' = TRUE
    /\ UNCHANGED <<mode, seen, control, uploaded, mutated>>

SyncStep ==
    \/ Plan \/ PreflightSources \/ PreflightAtomic \/ EnsureRoot \/ Mutate \/ MutateFails
    \/ Spawn \/ Collect \/ Finish
    \/ \E p \in Paths : Upload(p) \/ UploadFails(p)

Done == ~Running /\ UNCHANGED vars

Next == SyncStep \/ Others \/ Done

Spec == Init /\ [][Next]_vars

-----------------------------------------------------------------------------
(* Properties. *)

\* Every part of the state has its type, and the remote tree stays a file system.
TypeOK ==
    /\ Closed(remote) /\ plan \in Seq([kind : {"delete_file", "delete_dir", "create_dir",
                                               "upload"}, path : Paths, bytes : Nat])
    /\ at \in 1..Len(plan) + 1
    /\ DOMAIN tasks \subseteq Paths /\ Cardinality(DOMAIN tasks) <= FileConcurrency
    /\ \A p \in DOMAIN tasks : tasks[p] \in {"run", "ok", "err"}
    /\ phase \in {"scan", "sources", "preflight", "root", "mutate", "upload", "ok", "err"}
    /\ uploaded \cup foreign \subseteq Paths

Agree(l, r) == /\ l.kind = r.kind
               /\ l.kind = "file" => /\ l.len = r.len
                                     /\ mode.size_only \/ Diff(l.mtime, r.mtime) <= 1

\* A synchronization that reports success, with nobody else at work, leaves a remote
\* tree that matches the local one: every file and directory of the source is there,
\* what was uploaded has the source's content, and with --delete nothing else is left.
\* (Of a resume this holds when what it takes up came from the same source.)
\* (plan_sync_to_remote: "Build a non-mutating plan that makes remote_root match
\* local_root", carried out by apply_sync_to_remote.)
Converged ==
    phase = "ok" /\ ~disturbed /\ ~mode.dry_run =>
        /\ \A p \in Paths : seen[p].kind # "none" => Agree(seen[p], remote[p])
        /\ \A p \in uploaded : remote[p].data = local[p].data
        /\ mode.delete => \A p \in Paths \ {<<>>} : remote[p].kind # "none" =>
                                                        seen[p].kind # "none"

\* In atomic mode the preflight decides: when nobody interferes and no request fails, a
\* synchronization that cannot be completed is refused before the remote tree changed
\* (preflight_atomic_sync runs before the first delete, mkdir or upload).  The one thing
\* it does not look at is the staging file a resume takes up: one that is longer than
\* the source, or no regular file, is refused by the upload itself, with the deletes and
\* directories already made.
PreflightDecides ==
    mode.atomic /\ phase = "err" /\ ~disturbed /\ mutated =>
        \E p \in Planned("upload") : ~LeftoverGood(p)

\* Without --delete a synchronization removes no remote entry and turns none into an
\* entry of another kind, whatever others do to the trees meanwhile; only the staging
\* file of a resumed upload goes, and then its destination appears.
KeepsRemote ==
    [][~mode.delete /\ SyncStep =>
        \A p \in Paths : remote[p].kind # "none" =>
            \/ remote'[p].kind = remote[p].kind
            \/ /\ mode.resume /\ remote[p].kind = "file"
               /\ \E q \in uploaded' \ uploaded : p = Staging(q)]_vars

\* What others create while the plan is applied survives unless the plan names the very
\* path, or a resume takes it for its own staging file: deleting the directory above it
\* fails instead of taking it along.
ForeignSurvives ==
    \A p \in foreign : remote[p].kind = "none" =>
        HasDelete(p) \/ \E q \in uploaded : mode.resume /\ p = Staging(q)
=============================================================================
