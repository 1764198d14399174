-------------------------------- MODULE Fleet --------------------------------
(***************************************************************************)
(* kssh-fleet: one command on many hosts (fleet_main.rs).  The targets are *)
(* hosts and groups of the inventory, whose groups nest (fleet_targets.rs, *)
(* inventory.rs; the recursion of expand_group_inner is written with its   *)
(* stack).  All of them are resolved before the first prompt and the first *)
(* connection; then at most --jobs tasks are in the JoinSet at a time, a   *)
(* finished one until its result is printed.                               *)
(***************************************************************************)
EXTENDS Naturals, Sequences, FiniteSets, SequencesExt

CONSTANTS
    Hosts, Groups,      \* labels
    Inventories,        \* [hosts: the declared ones, groups: group -> its members]
    Requests,           \* [hosts, groups, path, command, plan]: the command line
    Unresolvable,       \* labels without a usable configuration
    Jobs,               \* --jobs
    OutputLimit,        \* --output-limit, in chunks of output
    MaxTargets, MaxExpanded

VARIABLES
    inventory, request,
    phase,      \* where main is
    todo,       \* groups still to be expanded, those of the request last
    visiting,   \* the groups being expanded, the innermost last
    expanded,   \* the hosts found in the group at hand
    labels,     \* the targets
    resolved,   \* how many of them have a configuration
    pending,    \* targets without a task
    task,       \* target -> its task
    kept,       \* target -> chunks of its output in memory
    failed, printed

vars == <<inventory, request, phase, todo, visiting, expanded, labels, resolved, pending,
          task, kept, failed, printed>>

Live == {"connecting", "running", "closing", "closing_failed"}
Finished == {"succeeded", "failed", "panicked"}
InSet == {h \in Hosts : task[h] \in Live \union Finished}     \* tasks in the JoinSet
Init ==
    /\ inventory \in Inventories /\ request \in Requests
    /\ phase = "load" /\ todo = <<>> /\ visiting = <<>> /\ expanded = <<>>
    /\ labels = <<>> /\ resolved = 0 /\ pending = <<>>
    /\ task = [h \in Hosts |-> "none"] /\ kept = [h \in Hosts |-> 0] /\ failed = 0 /\ printed = {}

TypeOK ==
    /\ phase \in {"load", "expand", "check", "resolve", "plan", "prompt", "run", "ok", "err"}
    /\ Len(visiting) <= Cardinality(Groups) /\ Len(expanded) <= MaxExpanded
    /\ resolved \in 0..Len(labels) /\ IsInjective(labels)
    /\ phase \in {"resolve", "prompt", "run"} => Len(labels) \in 1..MaxTargets
    /\ kept \in [Hosts -> 0..OutputLimit] /\ failed \in 0..Len(labels)
    /\ printed \subseteq ToSet(labels)

-----------------------------------------------------------------------------
(* The targets *)
\* push_unique, over what a group or the command line names.
PushUnique(seq, new) ==
    FoldLeft(LAMBDA acc, h : IF h \in ToSet(acc) THEN acc ELSE Append(acc, h), seq, new)

\* parse_inventory: a group has members, none of them twice, all of them declared.
Parses ==
    \A g \in DOMAIN inventory.groups :
        /\ inventory.groups[g] # <<>> /\ IsInjective(inventory.groups[g])
        /\ ToSet(inventory.groups[g]) \subseteq inventory.hosts \union DOMAIN inventory.groups

\* The inventory is read if a group is named or a path given, and then every group in it
\* is expanded once, for its errors.
Load ==
    /\ phase = "load"
    /\ labels' = PushUnique(<<>>, request.hosts)
    /\ IF request.groups = <<>> /\ ~request.path
       THEN phase' = "check" /\ UNCHANGED todo
       ELSE IF ~Parses
       THEN phase' = "err" /\ UNCHANGED todo
       ELSE /\ phase' = "expand"
            /\ LET own == SetToSeq(DOMAIN inventory.groups)
               IN todo' = [i \in DOMAIN own |-> [group |-> own[i], keep |-> FALSE]]
                          \o [i \in DOMAIN request.groups |->
                                 [group |-> request.groups[i], keep |-> TRUE]]
    /\ UNCHANGED <<inventory, request, visiting, expanded, resolved, pending, task, kept,
                   failed, printed>>

Fail == /\ phase' = "err"
        /\ UNCHANGED <<todo, visiting, expanded, labels, resolved, pending>>

\* expand_group_inner is entered; a group that is being expanded is a cycle.
EnterGroup(g, rest) ==
    IF \E d \in DOMAIN visiting : visiting[d].group = g
    THEN Fail
    ELSE /\ visiting' = Append(rest, [group |-> g, at |-> 0])
         /\ UNCHANGED <<phase, todo, expanded, labels, resolved, pending>>

Inner == visiting[Len(visiting)]

ExpandGroup ==
    /\ phase = "expand" /\ visiting = <<>>
    /\ IF todo = <<>>
       THEN phase' = "check" /\ UNCHANGED <<todo, visiting, expanded, labels, resolved, pending>>
       ELSE IF Head(todo).group \notin DOMAIN inventory.groups
       THEN Fail
       ELSE EnterGroup(Head(todo).group, <<>>)
    /\ UNCHANGED <<inventory, request, task, kept, failed, printed>>

ExpandMember ==
    /\ phase = "expand" /\ visiting # <<>> /\ Inner.at < Len(inventory.groups[Inner.group])
    /\ LET member == inventory.groups[Inner.group][Inner.at + 1]
           on == [visiting EXCEPT ![Len(visiting)].at = @ + 1]
           more == PushUnique(expanded, <<member>>)
       IN IF member \in Groups THEN EnterGroup(member, on)
          ELSE IF Len(more) > MaxExpanded THEN Fail
          ELSE /\ visiting' = on /\ expanded' = more
               /\ UNCHANGED <<phase, todo, labels, resolved, pending>>
    /\ UNCHANGED <<inventory, request, task, kept, failed, printed>>

LeaveGroup ==
    /\ phase = "expand" /\ visiting # <<>> /\ Inner.at = Len(inventory.groups[Inner.group])
    /\ visiting' = Front(visiting)
    /\ IF Len(visiting) > 1
       THEN UNCHANGED <<todo, expanded, labels>>
       ELSE /\ labels' = IF Head(todo).keep THEN PushUnique(labels, expanded) ELSE labels
            /\ expanded' = <<>> /\ todo' = Tail(todo)
    /\ UNCHANGED <<inventory, request, phase, resolved, pending, task, kept, failed,
                   printed>>

-----------------------------------------------------------------------------
(* main, up to the first task *)
\* validate_limits and build_command_spec; only a plan can do without a command.
Check ==
    /\ phase = "check"
    /\ phase' = IF /\ Len(labels) \in 1..MaxTargets
                   /\ request.command = "valid" \/ (request.command = "none" /\ request.plan)
                THEN "resolve" ELSE "err"
    /\ UNCHANGED <<inventory, request, todo, visiting, expanded, labels, resolved, pending,
                   task, kept, failed, printed>>

ResolveFirst ==
    /\ phase = "resolve"
    /\ phase' = IF labels[1] \in Unresolvable THEN "err"
                ELSE IF request.plan THEN "plan" ELSE "prompt"
    /\ resolved' = 1
    /\ UNCHANGED <<inventory, request, todo, visiting, expanded, labels, pending, task, kept,
                   failed, printed>>

\* The next target's configuration, and after the last what is to be done with them.
Resolve ==
    /\ phase = "resolve"
    /\ IF resolved = Len(labels)
       THEN phase' = (IF request.plan THEN "plan" ELSE "prompt") /\ UNCHANGED resolved
       ELSE IF labels[resolved + 1] \in Unresolvable
       THEN phase' = "err" /\ UNCHANGED resolved
       ELSE resolved' = resolved + 1 /\ UNCHANGED phase
    /\ UNCHANGED <<inventory, request, todo, visiting, expanded, labels, pending, task, kept,
                   failed, printed>>

\* print_plan, which is all a plan does.
Plan(writable) ==
    /\ phase = "plan" /\ phase' = IF writable THEN "ok" ELSE "err"
    /\ UNCHANGED <<inventory, request, todo, visiting, expanded, labels, resolved, pending,
                   task, kept, failed, printed>>

Spawned(hs) == [h \in Hosts |-> IF h \in hs THEN "connecting" ELSE task[h]]

\* The secret is asked for, and the first tasks are spawned.
Prompt(given) ==
    LET first == IF Jobs < Len(labels) THEN Jobs ELSE Len(labels)
    IN /\ phase = "prompt"
       /\ IF given
          THEN /\ phase' = "run"
               /\ task' = Spawned(ToSet(SubSeq(labels, 1, first)))
               /\ pending' = SubSeq(labels, first + 1, Len(labels))
          ELSE phase' = "err" /\ UNCHANGED <<task, pending>>
       /\ UNCHANGED <<inventory, request, todo, visiting, expanded, labels, resolved, kept,
                      failed, printed>>

-----------------------------------------------------------------------------
(* The tasks and the loop that joins them *)
\* run_target: connect, run, close.  It is closed also after the command failed, and the
\* target succeeded only if the command exited with 0 and the close went well.
Steps(h, to) ==
    /\ phase = "run"
    /\ \/ task[h] = "connecting" /\ to \in {"running", "failed"}
       \/ task[h] = "running" /\ to \in {"closing", "closing_failed"}
       \/ task[h] = "closing" /\ to \in {"succeeded", "failed"}
       \/ task[h] = "closing_failed" /\ to = "failed"
    /\ task' = [task EXCEPT ![h] = to]
    /\ UNCHANGED <<inventory, request, phase, todo, visiting, expanded, labels, resolved,
                   pending, kept, failed, printed>>

\* CappedBuffer: output is read to the end and kept up to the limit.
Output(h) ==
    /\ phase = "run" /\ task[h] = "running" /\ kept[h] < OutputLimit
    /\ kept' = [kept EXCEPT ![h] = @ + 1]
    /\ UNCHANGED <<inventory, request, phase, todo, visiting, expanded, labels, resolved,
                   pending, task, failed, printed>>

\* A task that ends without a result.
Panics(h) ==
    /\ phase = "run" /\ task[h] \in Live
    /\ task' = [task EXCEPT ![h] = "panicked"] /\ kept' = [kept EXCEPT ![h] = 0]
    /\ UNCHANGED <<inventory, request, phase, todo, visiting, expanded, labels, resolved,
                   pending, failed, printed>>

\* The next target takes the place of h.
NextInPlaceOf(h) ==
    /\ task' = [t \in Hosts |-> IF t = h THEN (IF task[h] = "succeeded" THEN "good" ELSE "bad")
                                ELSE IF pending # <<>> /\ t = pending[1] THEN "connecting"
                                ELSE task[t]]
    /\ pending' = IF pending = <<>> THEN pending ELSE Tail(pending)

\* join_next gives a result, which is counted and printed.  When stdout is closed main
\* returns, and the tasks are dropped with the JoinSet.  That a task has no result is
\* said on stderr.
Join(h, writable) ==
    /\ phase = "run" /\ task[h] \in Finished
    /\ task[h] = "panicked" => writable
    /\ failed' = IF task[h] = "succeeded" THEN failed ELSE failed + 1
    /\ IF writable
       THEN /\ NextInPlaceOf(h)
            /\ printed' = printed \union {h} /\ kept' = [kept EXCEPT ![h] = 0]
            /\ UNCHANGED phase
       ELSE /\ phase' = "err"
            /\ task' = [t \in Hosts |-> IF t \in InSet THEN "dropped" ELSE task[t]]
            /\ kept' = [t \in Hosts |-> 0]
            /\ UNCHANGED <<pending, printed>>
    /\ UNCHANGED <<inventory, request, todo, visiting, expanded, labels, resolved>>

Ends ==
    /\ phase = "run" /\ InSet = {}
    /\ phase' = IF failed = 0 THEN "ok" ELSE "err"
    /\ UNCHANGED <<inventory, request, todo, visiting, expanded, labels, resolved, pending,
                   task, kept, failed, printed>>

Main == \/ Load \/ ExpandGroup \/ ExpandMember \/ LeaveGroup \/ Check \/ Resolve
        \/ \E given \in BOOLEAN : Prompt(given) \/ Plan(given)
        \/ \E h \in Hosts : Join(h, TRUE)
        \/ Ends
Task(h) == \E to \in Live \union Finished : Steps(h, to)

Next == \/ Main
        \/ \E h \in Hosts : Task(h) \/ Output(h) \/ Panics(h) \/ Join(h, FALSE)

Spec == Init /\ [][Next]_vars
\* The runtime runs the tasks, and a connection, a command and a close end.
FairSpec == Spec /\ WF_vars(Main) /\ \A h \in Hosts : WF_vars(Task(h))

-----------------------------------------------------------------------------
Members(gs) == UNION {ToSet(inventory.groups[g]) : g \in gs \intersect DOMAIN inventory.groups}

(* The groups gs and those that are reached from them. *)
Below(gs) ==
    LET level[n \in 0..Cardinality(Groups)] ==
            IF n = 0 THEN gs
            ELSE level[n - 1] \union (Groups \intersect Members(level[n - 1]))
    IN level[Cardinality(Groups)]

Asked == ToSet(request.hosts) \union (Hosts \intersect Members(Below(ToSet(request.groups))))

Cyclic == \E g \in DOMAIN inventory.groups : g \in Below(Groups \intersect Members({g}))

(* A secret is asked for, and a task started, only once every host that was    *)
(* asked for, directly or through groups, is known and has a configuration,    *)
(* and only if no group of an inventory that was read contains itself: the     *)
(* comments of main and of parse_inventory promise it.                         *)
Preflighted ==
    phase \in {"prompt", "run"} =>
        /\ ToSet(labels) = Asked /\ Asked \intersect Unresolvable = {}
        /\ (request.groups # <<>> \/ request.path) => ~Cyclic
        /\ ~request.plan /\ request.command = "valid"

(* kssh-fleet reports success only if the command succeeded on every host      *)
(* asked for, and every result was printed, also when a task ended without     *)
(* one; a plan touches none of them.                                           *)
SuccessMeansAll ==
    phase = "ok" =>
        IF request.plan THEN \A h \in Hosts : task[h] = "none"
        ELSE printed = Asked /\ \A h \in Asked : task[h] = "good"

(* Output is kept of at most --jobs hosts, those whose results wait to be      *)
(* printed included: this is the window validate_limits computes.              *)
OutputBounded == MapThenSumSet(LAMBDA h : kept[h], Hosts) <= Jobs * OutputLimit

(* kssh-fleet ends, if its remote commands do: it has no timeout for them.     *)
FleetEnds == <>(phase \in {"ok", "err"})
=============================================================================
