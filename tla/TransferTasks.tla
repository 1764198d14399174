--------------------------- MODULE TransferTasks ---------------------------
(***************************************************************************)
(* Tracked transfers of kaduox-ssh-transfer: the bounded task registry     *)
(* (transfer_task.rs) and the manager that runs a transfer under it        *)
(* (transfer_task_manager.rs).                                             *)
(*                                                                         *)
(* A runner is one async call of run_new or retry.  Every registry method  *)
(* holds the registry's mutex throughout and is one action.  Beside each   *)
(* running transfer a spawned bridge copies progress events from a bounded *)
(* queue into the registry and polls the caller's cancellation token.      *)
(* The SFTP copy itself is abstracted to the events it emits and to the    *)
(* outcome it returns.                                                     *)
(***************************************************************************)
EXTENDS Integers, FiniteSets, Sequences

CONSTANTS
    Runners,        \* async tasks calling into the manager
    Droppable,      \* the runners whose future may be dropped while it waits
    Kinds,          \* the TransferTaskKinds of this instance
    Sources, Destinations,
    Capacities,     \* the values max_retained may be given
    LastId,         \* u64::MAX, where the id counter overflows
    ProgressQueue,  \* TRACKED_PROGRESS_QUEUE
    Chunks,         \* bytes_transferred counts chunks, 0..Chunks
    None

UploadKinds == {"UploadFile", "UploadDirectory"}
FileKinds == {"UploadFile", "DownloadFile"}
Direction(kind) == IF kind \in UploadKinds THEN "Upload" ELSE "Download"

ASSUME KindsAssumption ==
    Kinds \subseteq UploadKinds \cup {"DownloadFile", "DownloadDirectory"}
ASSUME BoundsAssumption ==
    /\ Capacities \subseteq Nat \ {0} /\ LastId \in Nat \ {0}
    /\ ProgressQueue \in Nat \ {0} /\ Chunks \in Nat
ASSUME NoneIsNoId == None \notin Int

VARIABLES
    tasks,          \* id -> TaskRecord, for the retained ids
    order,          \* ids, oldest first
    next_id,
    max_retained,   \* RegistryInner::max_retained, set when the registry is made
    cancelled,      \* ids whose TransferCancellation token is set
    pc, id, job,    \* per runner: where it is, its task, what it transfers
    result,         \* per runner: what the transfer returned
    queue,          \* per task: the progress channel
    sent,           \* per task: bytes of the last event emitted
    sending,        \* per task: the transfer still holds a progress sender
    bridge,         \* per task: the tracking bridge
    caller          \* per task: the caller's own token is set

runnerVars == <<pc, id, job, result>>
bridgeVars == <<queue, sent, sending, bridge, caller>>
registryVars == <<tasks, order, next_id, max_retained, cancelled>>
vars == <<tasks, order, next_id, max_retained, cancelled, pc, id, job, result,
          queue, sent, sending, bridge, caller>>

Ids == 1..(LastId - 1)
Job == [kind : Kinds, source : Sources, destination : Destinations]
TerminalStates == {"Completed", "Cancelled", "Failed"}
States == TerminalStates \cup {"Queued", "Running"}
Bytes == 0..Chunks

TaskRecord == [job : Job, state : States, cancel_requested : BOOLEAN,
               progress : Bytes \cup {None}, retry_of : Ids \cup {None}]

TypeOK ==
    /\ DOMAIN tasks \subseteq Ids /\ tasks \in [DOMAIN tasks -> TaskRecord]
    /\ order \in Seq(Ids)
    /\ next_id \in 1..LastId /\ max_retained \in Capacities
    /\ cancelled \subseteq Ids
    /\ pc \in [Runners -> {"idle", "retry", "registered", "transfer", "await"}]
    /\ id \in [Runners -> Ids \cup {None}]
    /\ job \in [Runners -> Job \cup {None}]
    /\ result \in [Runners -> {"none", "ok", "err"}]
    /\ queue \in [Ids -> Seq(Bytes)]
    /\ \A i \in Ids : Len(queue[i]) <= ProgressQueue
    /\ sent \in [Ids -> Bytes]
    /\ sending \in [Ids -> BOOLEAN]
    /\ bridge \in [Ids -> {"none", "running", "ok", "err"}]
    /\ caller \in [Ids -> BOOLEAN]

Init ==
    /\ tasks = [i \in {} |-> None] /\ order = <<>> /\ next_id = 1
    /\ max_retained \in Capacities
    /\ cancelled = {}
    /\ pc = [r \in Runners |-> "idle"]
    /\ id = [r \in Runners |-> None]
    /\ job = [r \in Runners |-> None]
    /\ result = [r \in Runners |-> "none"]
    /\ queue = [i \in Ids |-> <<>>]
    /\ sent = [i \in Ids |-> 0]
    /\ sending = [i \in Ids |-> FALSE]
    /\ bridge = [i \in Ids |-> "none"]
    /\ caller = [i \in Ids |-> FALSE]
-----------------------------------------------------------------------------
(* The registry *)

Terminal(i) == tasks[i].state \in TerminalStates

\* A task that has not ended already writes to this destination.
ConflictSameKind(j) ==
    \E i \in DOMAIN tasks : /\ ~Terminal(i)
                            /\ tasks[i].job.kind = j.kind
                            /\ tasks[i].job.destination = j.destination

Conflict(j) ==
    \E i \in DOMAIN tasks : /\ ~Terminal(i)
                            /\ Direction(tasks[i].job.kind) = Direction(j.kind)
                            /\ tasks[i].job.destination = j.destination

\* make_capacity: drop the oldest ended tasks until one slot is free.
SurplusOffByOne == Cardinality(DOMAIN tasks) - max_retained

Surplus == Cardinality(DOMAIN tasks) - max_retained + 1

PrunableAny == {order[k] : k \in DOMAIN order}

Prunable == {i \in {order[k] : k \in DOMAIN order} : i \in DOMAIN tasks => Terminal(i)}

OlderPrunable(i) ==
    {j \in Prunable : \E a, b \in DOMAIN order : a < b /\ order[a] = j /\ order[b] = i}

Evicted == {i \in Prunable : Cardinality(OlderPrunable(i)) < Surplus}
HasCapacity == Surplus <= Cardinality(Prunable)

Forget(gone) ==
    LET Kept(i) == i \notin gone IN
    /\ tasks' = [i \in DOMAIN tasks \ gone |-> tasks[i]]
    /\ order' = SelectSeq(order, Kept)

NewRecord(j, retry_of) ==
    [job |-> j, state |-> "Queued", cancel_requested |-> FALSE,
     progress |-> None, retry_of |-> retry_of]

\* register_locked admits job j as the task next_id of runner r.
Admit(r, j, retry_of) ==
    LET Kept(i) == i \notin Evicted IN
    /\ ~Conflict(j) /\ HasCapacity /\ next_id < LastId
    /\ tasks' = [i \in (DOMAIN tasks \ Evicted) \cup {next_id} |->
                    IF i = next_id THEN NewRecord(j, retry_of) ELSE tasks[i]]
    /\ order' = Append(SelectSeq(order, Kept), next_id)
    /\ next_id' = next_id + 1
    /\ pc' = [pc EXCEPT ![r] = "registered"]
    /\ id' = [id EXCEPT ![r] = next_id]
    /\ UNCHANGED <<max_retained, cancelled, result, bridgeVars>>

\* The registration is refused and the call returns.  What make_capacity had
\* dropped by then stays dropped.
Refuse(r, j) ==
    /\ \/ Conflict(j) /\ UNCHANGED <<tasks, order>>
       \/ ~Conflict(j) /\ (HasCapacity => next_id = LastId) /\ Forget(Evicted)
    /\ pc' = [pc EXCEPT ![r] = "idle"]
    /\ job' = [job EXCEPT ![r] = None]
    /\ id' = [id EXCEPT ![r] = None]
    /\ UNCHANGED <<next_id, max_retained, cancelled, result, bridgeVars>>

\* request_cancel(i) on a retained task.
RequestCancel(i) ==
    IF Terminal(i) \/ tasks[i].cancel_requested
    THEN UNCHANGED <<tasks, cancelled>>
    ELSE /\ tasks' = [tasks EXCEPT ![i].cancel_requested = TRUE]
         /\ cancelled' = cancelled \cup {i}

IsRunning(i) == i \in DOMAIN tasks /\ tasks[i].state = "Running"

\* complete, fail and mark_cancelled, called by the runner at the end.
CanEnd(i, state) ==
    IsRunning(i) \/ (state = "Cancelled" /\ i \in DOMAIN tasks /\ tasks[i].state = "Queued")

End(i, state) ==
    IF ~CanEnd(i, state)
    THEN UNCHANGED <<tasks, cancelled>>
    ELSE /\ tasks' = [tasks EXCEPT ![i].state = state,
                                   ![i].cancel_requested = @ \/ state = "Cancelled"]
         /\ cancelled' = IF state = "Cancelled" THEN cancelled \cup {i} ELSE cancelled
-----------------------------------------------------------------------------
(* The runner *)

\* run_new: register, or fail.
RunNew(r) ==
    /\ pc[r] = "idle"
    /\ \E j \in Job :
        \/ Admit(r, j, None) /\ job' = [job EXCEPT ![r] = j]
        \/ Refuse(r, j)

\* retry: read the earlier task's snapshot under the lock, and release it.
RetryLookup(r) ==
    /\ pc[r] = "idle"
    /\ \E previous \in DOMAIN tasks :
        /\ id' = [id EXCEPT ![r] = previous]
        /\ job' = [job EXCEPT ![r] = tasks[previous].job]
    /\ pc' = [pc EXCEPT ![r] = "retry"]
    /\ UNCHANGED <<result, registryVars, bridgeVars>>

Retryable(i) == i \in DOMAIN tasks /\ tasks[i].state \in {"Cancelled", "Failed"}

\* register_retry takes the lock again: the earlier task may be gone by now.
\* The transfer then uses the snapshot, the record uses the registry's copy.
RegisterRetry(r) ==
    LET previous == id[r] IN
    /\ pc[r] = "retry"
    /\ \/ /\ ~Retryable(previous)
          /\ pc' = [pc EXCEPT ![r] = "idle"]
          /\ id' = [id EXCEPT ![r] = None]
          /\ job' = [job EXCEPT ![r] = None]
          /\ UNCHANGED <<result, registryVars, bridgeVars>>
       \/ /\ Retryable(previous)
          /\ \/ Admit(r, tasks[previous].job, previous) /\ UNCHANGED job
             \/ Refuse(r, tasks[previous].job)

\* mark_running, then the bridge is spawned and the transfer starts.
Start(r) ==
    LET i == id[r] IN
    /\ pc[r] = "registered"
    /\ IF i \in DOMAIN tasks /\ tasks[i].state = "Queued"
       THEN /\ tasks' = [tasks EXCEPT ![i].state = "Running"]
            /\ pc' = [pc EXCEPT ![r] = "transfer"]
            /\ bridge' = [bridge EXCEPT ![i] = "running"]
            /\ sending' = [sending EXCEPT ![i] = TRUE]
            /\ UNCHANGED <<id, job>>
       ELSE /\ pc' = [pc EXCEPT ![r] = "idle"]
            /\ id' = [id EXCEPT ![r] = None]
            /\ job' = [job EXCEPT ![r] = None]
            /\ UNCHANGED <<tasks, bridge, sending>>
    /\ UNCHANGED <<order, next_id, max_retained, cancelled, result, queue, sent, caller>>

\* emit_progress: try_send, so an event that finds the queue full, or no
\* receiver, is dropped.
EnqueueUnbounded(i, bytes) == Append(queue[i], bytes)

Enqueue(i, bytes) ==
    IF Len(queue[i]) < ProgressQueue /\ bridge[i] = "running"
    THEN Append(queue[i], bytes) ELSE queue[i]

\* The copy loop checks the token, copies a chunk and reports it.  A file's
\* counter only grows; in a directory the files report side by side.
Emit(r) ==
    LET i == id[r] IN
    /\ pc[r] = "transfer" /\ i \notin cancelled
    /\ \E bytes \in Bytes :
        /\ job[r].kind \in FileKinds => bytes >= sent[i]
        /\ sent' = [sent EXCEPT ![i] = bytes]
        /\ queue' = [queue EXCEPT ![i] = Enqueue(i, bytes)]
    /\ UNCHANGED <<runnerVars, registryVars, sending, bridge, caller>>

\* The transfer returns.  A copy past its last check still ends well after a
\* cancellation; anything may fail.  Its progress sender is dropped.
TransferReturns(r) ==
    /\ pc[r] = "transfer"
    /\ \E outcome \in {"ok", "err"} : result' = [result EXCEPT ![r] = outcome]
    /\ pc' = [pc EXCEPT ![r] = "await"]
    /\ sending' = [sending EXCEPT ![id[r]] = FALSE]
    /\ UNCHANGED <<id, job, registryVars, queue, sent, bridge, caller>>

\* What the runner reports once the bridge has ended.
FinalState(r) ==
    IF bridge[id[r]] = "err" THEN "Failed"
    ELSE IF result[r] = "ok" THEN "Completed"
    ELSE IF id[r] \in cancelled THEN "Cancelled" ELSE "Failed"

\* await_tracking_bridge comes first, then the registry learns the outcome.
\* The call's options and tokens are gone when it returns.
Finish(r) ==
    /\ pc[r] = "await" /\ bridge[id[r]] \in {"ok", "err"}
    /\ End(id[r], FinalState(r))
    /\ pc' = [pc EXCEPT ![r] = "idle"]
    /\ id' = [id EXCEPT ![r] = None]
    /\ job' = [job EXCEPT ![r] = None]
    /\ result' = [result EXCEPT ![r] = "none"]
    /\ sent' = [sent EXCEPT ![id[r]] = 0]
    /\ caller' = [caller EXCEPT ![id[r]] = FALSE]
    /\ UNCHANGED <<order, next_id, max_retained, queue, sending, bridge>>

\* The runner's future is dropped while it awaits.  The bridge is a spawned
\* task and lives on; nobody will report the task's outcome.
DropFuture(r) ==
    /\ r \in Droppable /\ pc[r] \in {"transfer", "await"}
    /\ pc' = [pc EXCEPT ![r] = "idle"]
    /\ sending' = [sending EXCEPT ![id[r]] = FALSE]
    /\ id' = [id EXCEPT ![r] = None]
    /\ job' = [job EXCEPT ![r] = None]
    /\ result' = [result EXCEPT ![r] = "none"]
    /\ UNCHANGED <<registryVars, queue, sent, bridge, caller>>
-----------------------------------------------------------------------------
(* The tracking bridge of task i *)

\* progress_rx.recv() yields an event: record_progress, or the bridge fails.
BridgeRecords(i) ==
    /\ bridge[i] = "running" /\ queue[i] # <<>>
    /\ queue' = [queue EXCEPT ![i] = Tail(@)]
    /\ IF IsRunning(i)
       THEN /\ tasks' = [tasks EXCEPT ![i].progress = Head(queue[i])]
            /\ UNCHANGED bridge
       ELSE /\ bridge' = [bridge EXCEPT ![i] = "err"]
            /\ UNCHANGED tasks
    /\ UNCHANGED <<runnerVars, order, next_id, max_retained, cancelled, sent, sending, caller>>

\* recv() yields None: every sender is gone and the queue is drained.
BridgeEnds(i) ==
    /\ bridge[i] = "running" /\ queue[i] = <<>> /\ ~sending[i]
    /\ bridge' = [bridge EXCEPT ![i] = "ok"]
    /\ UNCHANGED <<runnerVars, registryVars, queue, sent, sending, caller>>

\* The poll tick finds the caller's token set: request_cancel.
CallerCancelled(i) == caller[i]

BridgePolls(i) ==
    /\ bridge[i] = "running" /\ CallerCancelled(i)
    /\ IF i \in DOMAIN tasks
       THEN RequestCancel(i) /\ UNCHANGED bridge
       ELSE /\ bridge' = [bridge EXCEPT ![i] = "err"]
            /\ UNCHANGED <<tasks, cancelled>>
    /\ UNCHANGED <<runnerVars, order, next_id, max_retained, queue, sent, sending, caller>>
-----------------------------------------------------------------------------
(* The user *)

\* Esc in the terminal listener: the caller's token of the running call.
CallerCancels(r) ==
    /\ pc[r] \in {"registered", "transfer", "await"} /\ ~caller[id[r]]
    /\ caller' = [caller EXCEPT ![id[r]] = TRUE]
    /\ UNCHANGED <<runnerVars, registryVars, queue, sent, sending, bridge>>

\* A front end holding the registry cancels a task by id.
UserCancels(i) ==
    /\ i \in DOMAIN tasks
    /\ RequestCancel(i)
    /\ UNCHANGED <<runnerVars, order, next_id, max_retained, bridgeVars>>

ClearableNotRunning(i) == tasks[i].state # "Running"

Clearable(i) == Terminal(i)

ClearFinished ==
    /\ \E i \in DOMAIN tasks : Clearable(i)
    /\ Forget({i \in DOMAIN tasks : Clearable(i)})
    /\ UNCHANGED <<runnerVars, next_id, max_retained, cancelled, bridgeVars>>

Next ==
    \/ \E r \in Runners :
        \/ RunNew(r) \/ RetryLookup(r) \/ RegisterRetry(r) \/ Start(r)
        \/ Emit(r) \/ TransferReturns(r) \/ Finish(r) \/ DropFuture(r)
        \/ CallerCancels(r)
    \/ \E i \in Ids : \/ BridgeRecords(i) \/ BridgeEnds(i) \/ BridgePolls(i)
                      \/ UserCancels(i)
    \/ ClearFinished

Spec == Init /\ [][Next]_vars

\* The runtime polls every ready runner; every SFTP request ends or times out,
\* so a transfer returns.
RunnerFairness ==
    \A r \in Runners : /\ WF_vars(RegisterRetry(r)) /\ WF_vars(Start(r))
                       /\ WF_vars(TransferReturns(r)) /\ WF_vars(Finish(r))

-----------------------------------------------------------------------------
(* Properties *)

\* No two transfers of one direction ever write to one destination at the same
\* time: their staging files have the same name (register_locked).
ExclusiveWriter ==
    \A r, s \in Runners :
        r # s /\ pc[r] = "transfer" /\ pc[s] = "transfer"
        => \/ Direction(job[r].kind) # Direction(job[s].kind)
           \/ job[r].destination # job[s].destination

\* A runner between registration and report owns a retained, unended task that
\* says what it transfers: neither eviction, nor clear_finished, nor the
\* unlocked gap in retry can come between them, so no registry call it makes
\* fails.
OwnsItsTask ==
    \A r \in Runners :
        pc[r] \in {"registered", "transfer", "await"} =>
            /\ id[r] \in DOMAIN tasks
            /\ tasks[id[r]].job = job[r]
            /\ tasks[id[r]].state = IF pc[r] = "registered" THEN "Queued" ELSE "Running"

\* A bridge never meets a task that is gone or not running.
TrackingNeverFails == \A i \in Ids : bridge[i] # "err"

\* order lists exactly the retained tasks, once each, oldest first, and there
\* are never more than max_retained of them.
RetentionExact ==
    /\ {order[k] : k \in DOMAIN order} = DOMAIN tasks
    /\ \A a, b \in DOMAIN order : a < b => order[a] < order[b]
    /\ Len(order) <= max_retained

\* A retry descends from an older task that was cancelled or failed, over the
\* same kind, source and destination.
RetryLineage ==
    \A i \in DOMAIN tasks :
        LET from == tasks[i].retry_of IN
        from # None =>
            /\ from < i
            /\ from \in DOMAIN tasks => /\ tasks[from].job = tasks[i].job
                                        /\ tasks[from].state \in {"Cancelled", "Failed"}

\* The record and the token the copy loop polls agree on cancellation, and only
\* a task somebody asked to cancel ends Cancelled.
CancelAgrees ==
    \A i \in DOMAIN tasks :
        /\ tasks[i].cancel_requested <=> i \in cancelled
        /\ tasks[i].state = "Cancelled" => i \in cancelled

\* Only ended tasks are ever forgotten, an ended task never changes again, and
\* the only way is Queued, Running, ended.
Lifecycle ==
    [][\A i \in DOMAIN tasks :
        IF i \notin DOMAIN tasks' THEN Terminal(i)
        ELSE \/ tasks'[i] = tasks[i]
             \/ ~Terminal(i) /\ tasks'[i].state = tasks[i].state
             \/ tasks[i].state = "Queued" /\ tasks'[i].state = "Running"
             \/ tasks[i].state = "Running" /\ tasks'[i].state \in TerminalStates]_vars

\* The task of a runner whose caller keeps waiting for it ends, if the runtime
\* polls the runners and every transfer returns.
TaskEnds ==
    RunnerFairness => \A r \in Runners \ Droppable, i \in Ids :
        (id[r] = i /\ pc[r] # "retry") ~> (i \in DOMAIN tasks => Terminal(i))

\* A caller's cancellation reaches the token the copy loop polls, however busy
\* the transfer keeps the progress queue, unless the transfer is over by then.
\* Nothing is assumed of the transfer itself: it may copy for ever.
CancelReaches ==
    \A i \in Ids : (caller[i] /\ sending[i]) ~> (i \in cancelled \/ ~sending[i])
=============================================================================
