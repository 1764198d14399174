------------------------------ MODULE MCRemote ------------------------------
(* What changes a remote or a local tree besides single files: directory       *)
(* transfers, the calls of remote_mutation.rs, and installs through sudo.      *)
(* "which" says which of them a behaviour is about; the variables of the       *)
(* others rest.                                                                *)
EXTENDS Naturals, Sequences, TLC

VARIABLES which,
    job, src, dst, walk, why, stack, tasks, resumed, seen, skipped, copied, cancelled, changes,
    fs, pc, op, scan, approved, left, steady, fresh, others,
    kind, call, staging, work, target, script, exit, link,
    result      \* of RemoteMutation or of Privileged

treeVars == <<job, src, dst, walk, why, stack, tasks, resumed, seen, skipped, copied,
              cancelled, changes>>
mutationVars == <<fs, pc, op, scan, approved, left, steady, fresh, others>>
privilegedVars == <<kind, call, staging, work, target, script, exit, link>>
vars == <<which, treeVars, mutationVars, privilegedVars, result>>

-----------------------------------------------------------------------------
(* A tree of three levels in which two names fold to one. *)
Fold == [n \in {"a", "A", "b", "c"} |-> IF n = "A" THEN "a" ELSE n]
Paths == {<< >>, <<"a">>, <<"A">>, <<"a", "b">>, <<"A", "b">>, <<"a", "b", "c">>,
          <<"c">>}

\* A top entry, and what is in it.
At(p, s) == {f \in [{p, Append(p, "b")} -> {"none", "file", "dir", "link", "other", "bad"}] :
                /\ f[Append(p, "b")] \in s
                /\ f[p] # "dir" => f[Append(p, "b")] = "none"}
Blank == [p \in Paths |-> "none"]
SomeSources ==
    {f @@ g @@ (<< >> :> "dir") @@ Blank :
        f \in At(<<"a">>, {"none", "file", "link"}),
        g \in {g \in At(<<"A">>, {"none", "file"}) : g[<<"A">>] \in {"none", "file", "dir"}}}
    \cup {[Blank EXCEPT ![<< >>] = k] : k \in {"file", "link"}}
    \cup {[p \in Paths |-> IF p = << >> \/ p[1] = "a" THEN "dir" ELSE "none"]}
    \cup {[p \in Paths |-> CASE p = << >> -> "dir" [] Len(p) = 1 -> "file" [] OTHER -> "none"]}
SomeTargets == {Blank} \cup
    {[Blank EXCEPT ![<< >>] = "dir", ![<<"a">>] = "dir", ![<<"a", "b">>] = k] :
        k \in {"none", "file"}}
    \cup {[Blank EXCEPT ![<< >>] = "dir", ![<<"a">>] = k] : k \in {"file", "link"}}

\* Downloads can go to a file system that folds names; the desktop's are left out there
\* (README).
SomeJobs == {j \in [up : BOOLEAN, how : {"direct", "atomic", "desktop"},
                    reject : BOOLEAN, fold : BOOLEAN, resume : BOOLEAN] :
                /\ j.how = "desktop" => ~j.up /\ ~j.reject /\ ~j.fold /\ ~j.resume
                /\ j.up => ~j.fold
                /\ j.reject /\ j.fold => j.how = "direct"
                /\ j.resume => ~j.reject /\ ~j.fold /\ j.up = (j.how = "direct")}

T == INSTANCE TreeTransfer WITH
        Folded <- Fold, Jobs <- SomeJobs, Sources <- SomeSources, Targets <- SomeTargets,
        FileConcurrency <- 2, MaxDepth <- 2, MaxFiles <- 1, MaxChanges <- 1

-----------------------------------------------------------------------------
(* Two callers on a tree of three levels, one of whom may remove it. *)
Callers == {"c1", "c2"}
Tree == {<<"d">>, <<"d", "e">>, <<"d", "f">>, <<"d", "e", "g">>}
Rank == ("d" :> 1) @@ ("e" :> 2) @@ ("f" :> 3) @@ ("g" :> 4)
SomeTrees == {t \in [Tree -> {"none", "file", "dir", "other"}] :
                /\ t[<<"d">>] = "dir" /\ t[<<"d", "f">>] \in {"none", "file", "other"}
                /\ t[<<"d", "e">>] \in {"none", "file", "dir"}
                /\ t[<<"d", "e", "g">>] \in {"none", "file"}
                /\ t[<<"d", "e">>] # "dir" => t[<<"d", "e", "g">>] = "none"}
Op(n, p, q) == [name |-> n, path |-> p, to |-> q]
SingleOps ==
    {Op(n, p, p) : n \in {"mkdir", "create", "write", "remove"}, p \in {<<"d", "e">>, <<"d", "f">>}}
    \cup {Op("rename", <<"d", "e">>, <<"d", "f">>), Op("rename", <<"d", "e", "g">>, <<"d", "f">>)}

M == INSTANCE RemoteMutation WITH
        Ops <- ("c1" :> ({Op("tree", <<"d">>, <<"d">>)} \cup SingleOps)) @@ ("c2" :> SingleOps),
        Trees <- SomeTrees, MaxEntries <- 3, MaxOthers <- 1

P == INSTANCE Privileged

-----------------------------------------------------------------------------
TreeRests ==
    /\ job = [up |-> FALSE, how |-> "direct", reject |-> FALSE, fold |-> FALSE, resume |-> FALSE]
    /\ dst = [p \in Paths |-> T!Nothing]
    /\ src = "off" /\ walk = "off" /\ why = "off" /\ stack = "off" /\ tasks = "off"
    /\ resumed = "off"
    /\ seen = "off" /\ skipped = "off" /\ copied = "off" /\ cancelled = "off"
    /\ changes = "off"
MutationRests ==
    /\ pc = [c \in Callers |-> "done"] /\ fs = [p \in Tree |-> M!Nothing]
    /\ op = "off" /\ scan = "off" /\ approved = "off" /\ left = "off" /\ steady = "off"
    /\ fresh = "off" /\ others = "off"
PrivilegedRests ==
    /\ kind = "off" /\ call = "off" /\ staging = "off" /\ work = "off" /\ target = "off"
    /\ script = "off" /\ exit = "off" /\ link = "off"

Init ==
    \/ which = "tree" /\ T!Init /\ MutationRests /\ PrivilegedRests /\ result = "off"
    \/ which = "mutation" /\ M!Init /\ TreeRests /\ PrivilegedRests
    \/ which = "privileged" /\ P!Init /\ TreeRests /\ MutationRests

\* The calls return, and then nothing happens any more.
Returned ==
    /\ \/ which = "tree" /\ ~T!Active
       \/ which = "mutation" /\ \A c \in Callers : pc[c] = "done"
       \/ which = "privileged"
    /\ UNCHANGED vars

Next ==
    \/ which = "tree" /\ T!Next /\ UNCHANGED <<which, mutationVars, privilegedVars, result>>
    \/ which = "mutation" /\ M!Next /\ UNCHANGED <<which, treeVars, privilegedVars>>
    \/ which = "privileged" /\ P!Next /\ UNCHANGED <<which, treeVars, mutationVars>>
    \/ Returned

Spec ==
    /\ Init /\ [][Next]_vars
    /\ WF_treeVars(which = "tree" /\ T!Walk)
    /\ \A p \in Paths : WF_treeVars(which = "tree" /\ T!Task(p))
    /\ \A c \in Callers : WF_<<mutationVars, result>>(which = "mutation" /\ M!Step(c))

-----------------------------------------------------------------------------
(* What a call reports is so.  A recursive transfer that returns Ok copied the *)
(* tree, but for what it counts as skipped and, when resuming, for files whose *)
(* length it took as proof of their content.  An approved removal with which   *)
(* nobody interferes succeeds, and one that succeeds leaves nothing of the     *)
(* tree.  The destination of an upload through sudo is never a part of what    *)
(* was uploaded, however the install command ends, and has the new content if  *)
(* the call reports success, unless a directory stood where the file should    *)
(* go.  All of it within FILE_CONCURRENCY, MAX_DIRECTORY_DEPTH,                *)
(* MAX_DIRECTORY_FILES and max_entries.                                        *)
SuccessMeansDone ==
    /\ which = "tree" => T!TypeOK /\ T!TreeCopied
    /\ which = "mutation" => M!TypeOK /\ M!RemovalComplete
    /\ which = "privileged" => P!TypeOK /\ P!InstalledWhole /\ P!ReportedInstalled

(* A recursive transfer that is refused beforehand has touched nothing: the    *)
(* preflight of an atomic download finds every destination that is taken       *)
(* before anything is written, and SymlinkPolicy::Reject finds every link.     *)
RefusalMeansUntouched == which = "tree" => T!PreflightDecides /\ T!RejectDecides

(* No step of ours takes away what it was not asked to.  A copy that is whole  *)
(* is never written over by another entry of the same tree, also where names   *)
(* fold (seen_local_names); create, mkdir and rename do not replace what is    *)
(* there; a removal starts only if the tree is the one that was approved; an   *)
(* entry somebody else has at the staging path of an install is left alone.    *)
NothingOverwritten ==
    T!NoMutualOverwrite /\ M!NeverReplaces /\ M!StalePlanHarmless /\ P!ForeignKept

(* A recursive transfer and the calls of remote_mutation.rs return, whatever   *)
(* fails, is cancelled or is at its limit.                                     *)
CallsReturn == T!TreeEnds /\ M!CallsReturn
=============================================================================
