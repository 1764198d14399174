------------------------ MODULE TransferTasksProofs ------------------------
(***************************************************************************)
(* Proofs about TransferTasks for any number of runners, tasks and kinds.  *)
(*                                                                         *)
(* Every step changes the registry in one of four ways (Effect): not at    *)
(* all, by forgetting ended tasks, by admitting one, or by moving one task *)
(* along its life.  What the registry promises follows from that alone     *)
(* (RegistryStep); what ties a runner and a bridge to their task is        *)
(* argued action by action (RunnerStep).                                   *)
(***************************************************************************)
EXTENDS TransferTasks, TLAPS

RegistryShape ==
    /\ DOMAIN tasks \subseteq Ids /\ tasks \in [DOMAIN tasks -> TaskRecord]
    /\ next_id \in 1..LastId
    /\ \A i \in DOMAIN tasks : i < next_id
    /\ cancelled \subseteq Ids /\ \A i \in cancelled : i < next_id

RunnerShape ==
    /\ pc \in [Runners -> {"idle", "retry", "registered", "transfer", "await"}]
    /\ id \in [Runners -> Ids \cup {None}]
    /\ job \in [Runners -> Job \cup {None}]
    /\ queue \in [Ids -> Seq(Bytes)]
    /\ bridge \in [Ids -> {"none", "running", "ok", "err"}]

Shape == RegistryShape /\ RunnerShape

\* Two tasks that have not ended never share direction and destination.
OneWriter ==
    \A i, k \in DOMAIN tasks :
        i # k /\ ~Terminal(i) /\ ~Terminal(k)
        => \/ Direction(tasks[i].job.kind) # Direction(tasks[k].job.kind)
           \/ tasks[i].job.destination # tasks[k].job.destination

RegistryInv == OneWriter /\ CancelAgrees /\ RetryLineage

Busy == {"registered", "transfer", "await"}

\* Runners at work have tasks of their own.
Distinct == \A r, s \in Runners : r # s /\ pc[r] \in Busy /\ pc[s] \in Busy => id[r] # id[s]

\* Between its two lock acquisitions a retry knows the earlier task's job.
Retrying ==
    \A r \in Runners : pc[r] = "retry" =>
        /\ id[r] \in Ids /\ id[r] < next_id
        /\ id[r] \in DOMAIN tasks => tasks[id[r]].job = job[r]

\* A bridge runs only beside a running task.
Bridged == \A i \in Ids : bridge[i] # "err" /\ (bridge[i] = "running" => IsRunning(i))

RunnerInv == OwnsItsTask /\ Distinct /\ Retrying /\ Bridged

IInv == Shape /\ RegistryInv /\ RunnerInv
-----------------------------------------------------------------------------
(* What a step may do to the registry *)

Typed == tasks' \in [DOMAIN tasks' -> TaskRecord]

Same == tasks' = tasks /\ cancelled' = cancelled /\ next_id' = next_id

Forgets ==
    /\ Typed
    /\ DOMAIN tasks' \subseteq DOMAIN tasks
    /\ \A i \in DOMAIN tasks' : tasks'[i] = tasks[i]
    /\ \A i \in DOMAIN tasks \ DOMAIN tasks' : Terminal(i)
    /\ cancelled' = cancelled /\ next_id' = next_id

Admits(j, from) ==
    /\ Typed
    /\ ~Conflict(j) /\ next_id < LastId
    /\ DOMAIN tasks' \subseteq DOMAIN tasks \cup {next_id} /\ next_id \in DOMAIN tasks'
    /\ \A i \in DOMAIN tasks' \ {next_id} : tasks'[i] = tasks[i]
    /\ \A i \in DOMAIN tasks \ DOMAIN tasks' : Terminal(i)
    /\ tasks'[next_id] = NewRecord(j, from)
    /\ from # None => Retryable(from) /\ tasks[from].job = j
    /\ cancelled' = cancelled /\ next_id' = next_id + 1

Moves(i) ==
    /\ Typed
    /\ i \in DOMAIN tasks /\ DOMAIN tasks' = DOMAIN tasks
    /\ \A k \in DOMAIN tasks \ {i} : tasks'[k] = tasks[k]
    /\ tasks'[i].job = tasks[i].job /\ tasks'[i].retry_of = tasks[i].retry_of
    /\ \/ ~Terminal(i) /\ tasks'[i].state = tasks[i].state
       \/ tasks[i].state = "Queued" /\ tasks'[i].state = "Running"
       \/ tasks[i].state = "Running" /\ tasks'[i].state \in TerminalStates
    /\ tasks'[i].cancel_requested \in BOOLEAN
    /\ tasks[i].cancel_requested => tasks'[i].cancel_requested
    /\ tasks'[i].state = "Cancelled" => tasks'[i].cancel_requested
    /\ cancelled' = IF tasks'[i].cancel_requested THEN cancelled \cup {i} ELSE cancelled
    /\ next_id' = next_id

Effect ==
    \/ Same \/ Forgets
    \/ \E j \in Job, from \in Ids \cup {None} : Admits(j, from)
    \/ \E i \in Ids : Moves(i)

\* Retention only ever drops ended tasks (make_capacity).
LEMMA EvictedEnded == \A i \in DOMAIN tasks : i \in Evicted => Terminal(i)
  BY DEF Evicted, Prunable

\* Whatever the effect, a record keeps its job and its lineage, an ended task
\* keeps its state, and only ended tasks disappear.
Keeps ==
    /\ \A i \in DOMAIN tasks \cap DOMAIN tasks' :
        /\ tasks'[i].job = tasks[i].job /\ tasks'[i].retry_of = tasks[i].retry_of
        /\ Terminal(i) => tasks'[i].state = tasks[i].state
    /\ \A i \in DOMAIN tasks \ DOMAIN tasks' : Terminal(i)
    /\ DOMAIN tasks' \subseteq DOMAIN tasks \cup {next_id}
    /\ next_id <= next_id'

\* Each of the effects an action can have on the registry has the property Keeps.
LEMMA EffectKeeps == ASSUME Shape, Effect PROVE Keeps
<1>0. next_id \in Int BY DEF Shape, RegistryShape
<1>1. CASE Same BY <1>0, <1>1 DEF Same, Keeps
<1>2. CASE Forgets BY <1>0, <1>2 DEF Forgets, Keeps
<1>3. ASSUME NEW j \in Job, NEW from \in Ids \cup {None}, Admits(j, from)
      PROVE  Keeps
  BY <1>3 DEF Admits, Shape, RegistryShape, Keeps, Ids
<1>4. ASSUME NEW i \in Ids, Moves(i) PROVE Keeps
  BY <1>0, <1>4 DEF Moves, Terminal, TerminalStates, Keeps
<1> QED BY <1>1, <1>2, <1>3, <1>4 DEF Effect

\* The registry's promises survive every effect.
LEMMA RegistryStep == ASSUME Shape, RegistryInv, Effect PROVE RegistryInv'
<1> USE DEF RegistryInv
<1>k. Keeps BY EffectKeeps
<1>1. CASE Same
  BY <1>1 DEF Same, OneWriter, CancelAgrees, RetryLineage, Terminal
<1>2. CASE Forgets
  <2>1. OneWriter' BY <1>2 DEF Forgets, OneWriter, Terminal
  <2>2. CancelAgrees' BY <1>2 DEF Forgets, CancelAgrees
  <2>3. RetryLineage' BY <1>2 DEF Forgets, RetryLineage
  <2> QED BY <2>1, <2>2, <2>3
<1>3. ASSUME NEW j \in Job, NEW from \in Ids \cup {None}, Admits(j, from)
      PROVE  RegistryInv'
  <2> DEFINE new == NewRecord(j, from)
  <2>0. /\ new.job = j /\ new.state = "Queued" /\ ~new.cancel_requested
        /\ new.retry_of = from
    BY DEF NewRecord
  <2>1. OneWriter'
    <3>1. \A i \in DOMAIN tasks : ~Terminal(i) =>
             \/ Direction(tasks[i].job.kind) # Direction(j.kind)
             \/ tasks[i].job.destination # j.destination
      BY <1>3 DEF Admits, Conflict
    <3>2. \A i \in DOMAIN tasks' \ {next_id} : i \in DOMAIN tasks /\ tasks'[i] = tasks[i]
      BY <1>3 DEF Admits
    <3>3. tasks'[next_id].job = j
      BY <1>3, <2>0 DEF Admits
    <3> QED BY <3>1, <3>2, <3>3 DEF OneWriter, Terminal
  <2>2. CancelAgrees'
    <3>1. next_id \notin cancelled BY DEF Shape, RegistryShape, RunnerShape, Ids
    <3> QED BY <1>3, <2>0, <3>1 DEF Admits, CancelAgrees
  <2>3. RetryLineage'
    <3>1. from # None => /\ from \in DOMAIN tasks /\ from < next_id /\ from # next_id
                         /\ tasks[from].job = j
                         /\ tasks[from].state \in {"Cancelled", "Failed"}
      BY <1>3 DEF Admits, Retryable, Shape, RegistryShape, RunnerShape, Ids
    <3>2. \A i \in DOMAIN tasks' \ {next_id} : i \in DOMAIN tasks /\ tasks'[i] = tasks[i]
      BY <1>3 DEF Admits
    <3>3. \A i \in DOMAIN tasks : tasks[i].retry_of # None =>
             tasks[i].retry_of # next_id
      BY DEF RetryLineage, Shape, RegistryShape, RunnerShape, Ids, TaskRecord
    <3>4. tasks'[next_id].job = j /\ tasks'[next_id].retry_of = from
      BY <1>3, <2>0 DEF Admits
    <3> QED BY <3>1, <3>2, <3>3, <3>4 DEF RetryLineage
  <2> QED BY <2>1, <2>2, <2>3
<1>4. ASSUME NEW i \in Ids, Moves(i) PROVE RegistryInv'
  <2>1. OneWriter'
    BY <1>4 DEF Moves, OneWriter, Terminal, TerminalStates
  <2>2. CancelAgrees'
    BY <1>4 DEF Moves, CancelAgrees
  <2>3. RetryLineage'
    BY <1>4 DEF Moves, RetryLineage, TerminalStates, Terminal
  <2> QED BY <2>1, <2>2, <2>3
<1> QED BY <1>1, <1>2, <1>3, <1>4 DEF Effect
-----------------------------------------------------------------------------
(* Every action has one of the effects *)

\* clear_finished, and what make_capacity drops for a refused registration.
LEMMA ForgetEffect ==
    ASSUME Shape, NEW gone, \A i \in DOMAIN tasks : i \in gone => Terminal(i),
           Forget(gone), UNCHANGED <<cancelled, next_id>>
    PROVE  Forgets
<1>1. tasks' = [i \in DOMAIN tasks \ gone |-> tasks[i]] BY DEF Forget
<1> QED BY <1>1 DEF Forgets, Typed, Shape, RegistryShape, RunnerShape

\* register_locked.
LEMMA AdmitEffect ==
    ASSUME Shape, NEW r, NEW j \in Job, NEW from \in Ids \cup {None},
           from # None => Retryable(from) /\ tasks[from].job = j,
           Admit(r, j, from)
    PROVE  Admits(j, from)
<1>1. /\ tasks' = [i \in (DOMAIN tasks \ Evicted) \cup {next_id} |->
                     IF i = next_id THEN NewRecord(j, from) ELSE tasks[i]]
      /\ ~Conflict(j) /\ next_id < LastId
      /\ cancelled' = cancelled /\ next_id' = next_id + 1
  BY DEF Admit
<1>2. \A i \in DOMAIN tasks \ DOMAIN tasks' : Terminal(i)
  BY <1>1, EvictedEnded
<1>3. NewRecord(j, from) \in TaskRecord
  BY DEF NewRecord, TaskRecord, States
<1>4. Typed
  BY <1>1, <1>3 DEF Typed, Shape, RegistryShape, RunnerShape
<1> QED BY <1>1, <1>2, <1>4 DEF Admits

\* A refused registration changes nothing or forgets ended tasks.
LEMMA RefuseEffect ==
    ASSUME Shape, NEW r, NEW j, Refuse(r, j)
    PROVE  Same \/ Forgets
<1>1. CASE tasks' = tasks BY <1>1 DEF Same, Refuse
<1>2. CASE Forget(Evicted) BY <1>2, ForgetEffect, EvictedEnded DEF Refuse
<1> QED BY <1>1, <1>2 DEF Refuse

\* request_cancel moves nothing but the cancellation.
LEMMA RequestCancelEffect ==
    ASSUME Shape, NEW i \in DOMAIN tasks, RequestCancel(i), next_id' = next_id
    PROVE  Effect
<1>1. CASE Terminal(i) \/ tasks[i].cancel_requested
  BY <1>1 DEF RequestCancel, Effect, Same
<1>2. CASE ~(Terminal(i) \/ tasks[i].cancel_requested)
  <2>1. tasks[i] \in TaskRecord /\ i \in Ids BY DEF Shape, RegistryShape, RunnerShape
  <2>2. /\ tasks' = [tasks EXCEPT ![i].cancel_requested = TRUE]
        /\ cancelled' = cancelled \cup {i}
    BY <1>2 DEF RequestCancel
  <2>3. /\ tasks'[i].state = tasks[i].state /\ tasks'[i].job = tasks[i].job
        /\ tasks'[i].retry_of = tasks[i].retry_of /\ tasks'[i].cancel_requested
        /\ tasks'[i].cancel_requested \in BOOLEAN
    BY <2>1, <2>2 DEF TaskRecord
  <2>4. /\ DOMAIN tasks' = DOMAIN tasks
        /\ \A k \in DOMAIN tasks \ {i} : tasks'[k] = tasks[k]
    BY <2>2
  <2>5. Typed BY <2>1, <2>2 DEF Typed, Shape, RegistryShape, RunnerShape, TaskRecord
  <2>6. Moves(i) BY <1>2, <2>2, <2>3, <2>4, <2>5 DEF Moves
  <2> QED BY <2>1, <2>6 DEF Effect
<1> QED BY <1>1, <1>2

\* complete, fail and mark_cancelled end a task that was running.
LEMMA EndEffect ==
    ASSUME Shape, CancelAgrees, NEW i \in Ids, IsRunning(i), NEW state \in TerminalStates,
           End(i, state), next_id' = next_id
    PROVE  Moves(i) /\ tasks'[i].state = state
<1>1. tasks[i] \in TaskRecord /\ i \in DOMAIN tasks BY DEF Shape, RegistryShape,
     RunnerShape, IsRunning
<1>2. /\ tasks' = [tasks EXCEPT ![i].state = state,
                                ![i].cancel_requested = @ \/ state = "Cancelled"]
      /\ cancelled' = IF state = "Cancelled" THEN cancelled \cup {i} ELSE cancelled
  BY DEF End, CanEnd
<1>3. /\ tasks'[i].state = state /\ tasks'[i].job = tasks[i].job
      /\ tasks'[i].retry_of = tasks[i].retry_of
      /\ tasks'[i].cancel_requested = (tasks[i].cancel_requested \/ state = "Cancelled")
  BY <1>1, <1>2 DEF TaskRecord
<1>4. /\ DOMAIN tasks' = DOMAIN tasks
      /\ \A k \in DOMAIN tasks \ {i} : tasks'[k] = tasks[k]
  BY <1>2
<1>5. tasks[i].cancel_requested \in BOOLEAN /\ (tasks[i].cancel_requested => i \in cancelled)
  BY <1>1 DEF TaskRecord, CancelAgrees
<1>6. Typed
  <2>1. tasks'[i] \in TaskRecord
    BY <1>1, <1>2, <1>5 DEF TaskRecord, States
  <2> QED BY <1>2, <1>4, <2>1 DEF Typed, Shape, RegistryShape, RunnerShape
<1> QED BY <1>1, <1>2, <1>3, <1>4, <1>5, <1>6 DEF Moves, IsRunning

\* mark_running and record_progress, which set one field of one record.
LEMMA FieldEffect ==
    ASSUME Shape, CancelAgrees, NEW i \in DOMAIN tasks, UNCHANGED <<cancelled, next_id>>,
           \/ tasks[i].state = "Queued" /\ tasks' = [tasks EXCEPT ![i].state = "Running"]
           \/ /\ tasks[i].state = "Running"
              /\ \E b \in Bytes : tasks' = [tasks EXCEPT ![i].progress = b]
    PROVE  Moves(i)
<1>1. tasks[i] \in TaskRecord BY DEF Shape, RegistryShape, RunnerShape
<1>2. /\ tasks[i].cancel_requested \in BOOLEAN
      /\ tasks[i].cancel_requested => i \in cancelled
      /\ tasks[i].state = "Cancelled" => tasks[i].cancel_requested
  BY <1>1 DEF TaskRecord, CancelAgrees
<1>3. CASE tasks[i].state = "Queued" /\ tasks' = [tasks EXCEPT ![i].state = "Running"]
  <2>1. /\ tasks'[i].state = "Running" /\ tasks'[i].job = tasks[i].job
        /\ tasks'[i].retry_of = tasks[i].retry_of
        /\ tasks'[i].cancel_requested = tasks[i].cancel_requested
        /\ DOMAIN tasks' = DOMAIN tasks
        /\ \A k \in DOMAIN tasks \ {i} : tasks'[k] = tasks[k]
    BY <1>1, <1>3 DEF TaskRecord
  <2>2. Typed BY <1>1, <1>3 DEF Typed, Shape, RegistryShape, RunnerShape, TaskRecord,
       States
  <2> QED BY <1>2, <1>3, <2>1, <2>2 DEF Moves
<1>4. ASSUME NEW b \in Bytes, tasks' = [tasks EXCEPT ![i].progress = b],
             tasks[i].state = "Running"
      PROVE  Moves(i)
  <2>1. /\ tasks'[i].state = tasks[i].state /\ tasks'[i].job = tasks[i].job
        /\ tasks'[i].retry_of = tasks[i].retry_of
        /\ tasks'[i].cancel_requested = tasks[i].cancel_requested
        /\ DOMAIN tasks' = DOMAIN tasks
        /\ \A k \in DOMAIN tasks \ {i} : tasks'[k] = tasks[k]
    BY <1>1, <1>4 DEF TaskRecord
  <2>2. Typed BY <1>1, <1>4 DEF Typed, Shape, RegistryShape, RunnerShape, TaskRecord
  <2> QED BY <1>2, <1>4, <2>1, <2>2 DEF Moves, Terminal, TerminalStates
<1> QED BY <1>3, <1>4

\* Every step has one of the four effects.
LEMMA StepEffect == ASSUME IInv, [Next]_vars PROVE Effect
<1> USE DEF IInv, RegistryInv, RunnerInv
<1>1. ASSUME NEW r \in Runners, RunNew(r) PROVE Effect
  <2>1. PICK j \in Job : Admit(r, j, None) \/ Refuse(r, j)
    BY <1>1 DEF RunNew
  <2>2. CASE Admit(r, j, None) BY <2>2, AdmitEffect DEF Effect
  <2>3. CASE Refuse(r, j) BY <2>3, RefuseEffect DEF Effect
  <2> QED BY <2>1, <2>2, <2>3
<1>2. ASSUME NEW r \in Runners, RetryLookup(r) PROVE Effect
  BY <1>2 DEF RetryLookup, registryVars, Effect, Same
<1>3. ASSUME NEW r \in Runners, RegisterRetry(r) PROVE Effect
  <2> DEFINE j == tasks[id[r]].job
  <2>1. CASE ~Retryable(id[r])
    BY <1>3, <2>1 DEF RegisterRetry, registryVars, Effect, Same
  <2>2. CASE Retryable(id[r])
    <3>1. j \in Job /\ id[r] \in Ids BY <2>2 DEF Retryable, Shape, RegistryShape,
         RunnerShape, TaskRecord
    <3>2. CASE Admit(r, j, id[r])
      <4> HIDE DEF j
      <4>1. tasks[id[r]].job = j BY DEF j
      <4> QED BY <2>2, <3>1, <3>2, <4>1, AdmitEffect DEF Effect
    <3>3. CASE Refuse(r, j) BY <3>3, RefuseEffect DEF Effect
    <3> QED BY <1>3, <2>2, <3>2, <3>3 DEF RegisterRetry
  <2> QED BY <2>1, <2>2
<1>4. ASSUME NEW r \in Runners, Start(r) PROVE Effect
  <2>1. /\ id[r] \in DOMAIN tasks /\ tasks[id[r]].state = "Queued"
        /\ tasks' = [tasks EXCEPT ![id[r]].state = "Running"]
        /\ UNCHANGED <<cancelled, next_id>>
    BY <1>4 DEF Start, OwnsItsTask
  <2>2. Moves(id[r]) BY <2>1, FieldEffect
  <2> QED BY <2>1, <2>2 DEF Effect, Shape, RegistryShape, RunnerShape
<1>5. ASSUME NEW r \in Runners, Finish(r) PROVE Effect
  <2>1. id[r] \in Ids /\ IsRunning(id[r])
    BY <1>5 DEF Finish, OwnsItsTask, IsRunning, Shape, RegistryShape, RunnerShape
  <2>2. FinalState(r) \in TerminalStates BY DEF FinalState, TerminalStates
  <2>3. End(id[r], FinalState(r)) /\ next_id' = next_id BY <1>5 DEF Finish
  <2>4. Moves(id[r]) BY <2>1, <2>2, <2>3, EndEffect
  <2> QED BY <2>1, <2>4 DEF Effect
<1>6. ASSUME NEW r \in Runners,
             Emit(r) \/ TransferReturns(r) \/ DropFuture(r) \/ CallerCancels(r)
      PROVE  Effect
  BY <1>6 DEF Emit, TransferReturns, DropFuture, CallerCancels, registryVars, Effect,
       Same
<1>7. ASSUME NEW i \in Ids, BridgeRecords(i) PROVE Effect
  <2>1. IsRunning(i) /\ queue[i] \in Seq(Bytes) /\ queue[i] # <<>>
    BY <1>7 DEF BridgeRecords, Bridged, Shape, RegistryShape, RunnerShape
  <2>2. Head(queue[i]) \in Bytes BY <2>1
  <2>3. /\ tasks' = [tasks EXCEPT ![i].progress = Head(queue[i])]
        /\ UNCHANGED <<cancelled, next_id>>
    BY <1>7, <2>1 DEF BridgeRecords
  <2>4. Moves(i) BY <2>1, <2>2, <2>3, FieldEffect DEF IsRunning
  <2> QED BY <2>4 DEF Effect
<1>8. ASSUME NEW i \in Ids, BridgePolls(i) PROVE Effect
  <2>1. i \in DOMAIN tasks BY <1>8 DEF BridgePolls, Bridged, IsRunning
  <2> QED BY <1>8, <2>1, RequestCancelEffect DEF BridgePolls
<1>9. ASSUME NEW i \in Ids, UserCancels(i) PROVE Effect
  BY <1>9, RequestCancelEffect DEF UserCancels
<1>10. ASSUME NEW i \in Ids, BridgeEnds(i) PROVE Effect
  BY <1>10 DEF BridgeEnds, registryVars, Effect, Same
<1>11. CASE ClearFinished
  BY <1>11, ForgetEffect DEF ClearFinished, Clearable, Effect
<1>12. CASE UNCHANGED vars BY <1>12 DEF vars, Effect, Same
<1> QED BY <1>1, <1>2, <1>3, <1>4, <1>5, <1>6, <1>7, <1>8, <1>9, <1>10, <1>11, <1>12
     DEF Next

\* The registry's part of Shape follows from the effect.
LEMMA RegistryShapeStep == ASSUME Shape, Effect PROVE RegistryShape'
<1> USE BoundsAssumption DEF Ids, Shape
<1>1. CASE Same BY <1>1 DEF Same, RegistryShape
<1>2. CASE Forgets BY <1>2 DEF Forgets, RegistryShape, Typed
<1>3. ASSUME NEW j \in Job, NEW from \in Ids \cup {None}, Admits(j, from)
      PROVE  RegistryShape'
  BY <1>3 DEF Admits, RegistryShape, Typed
<1>4. ASSUME NEW i \in Ids, Moves(i) PROVE RegistryShape'
  BY <1>4 DEF Moves, RegistryShape, Typed
<1> QED BY <1>1, <1>2, <1>3, <1>4 DEF Effect
-----------------------------------------------------------------------------
(* Runners and bridges *)

Owns(r) ==
    pc[r] \in Busy =>
        /\ id[r] \in DOMAIN tasks
        /\ tasks[id[r]].job = job[r]
        /\ tasks[id[r]].state = IF pc[r] = "registered" THEN "Queued" ELSE "Running"

Knows(r) ==
    pc[r] = "retry" =>
        /\ id[r] \in Ids /\ id[r] < next_id
        /\ id[r] \in DOMAIN tasks => tasks[id[r]].job = job[r]

\* OwnsItsTask and Retrying say the same of every runner by itself.
LEMMA PerRunner ==
    /\ OwnsItsTask <=> \A r \in Runners : Owns(r)
    /\ Retrying <=> \A r \in Runners : Knows(r)
    /\ OwnsItsTask' <=> \A r \in Runners : Owns(r)'
    /\ Retrying' <=> \A r \in Runners : Knows(r)'
  BY DEF OwnsItsTask, Owns, Retrying, Knows, Busy

SameRunner(r) == pc'[r] = pc[r] /\ id'[r] = id[r] /\ job'[r] = job[r]

\* The effect leaves the state of task i alone, if it is still there.
SameState(i) == i \in DOMAIN tasks /\ i \in DOMAIN tasks' => tasks'[i].state = tasks[i].state

\* A runner that takes no step keeps its task, if its task keeps its state.
LEMMA Bystander ==
    ASSUME IInv, Keeps, RegistryShape', NEW s \in Runners, SameRunner(s),
           pc[s] \in Busy => SameState(id[s])
    PROVE  Owns(s)' /\ Knows(s)'
<1>1. Owns(s) /\ Knows(s) BY PerRunner DEF IInv, RunnerInv
<1>2. Owns(s)'
  BY <1>1 DEF Owns, Keeps, SameRunner, SameState, Busy, Terminal, TerminalStates
<1>3. Knows(s)'
  <2>1. next_id \in Int /\ next_id' \in Int BY DEF IInv, Shape, RegistryShape, Keeps
  <2> QED BY <1>1, <2>1 DEF Knows, Keeps, SameRunner, Ids, IInv, Shape, RegistryShape
<1> QED BY <1>2, <1>3

\* A step of runner r alone: what is left to show is about r and the bridges.
LEMMA OneRunner ==
    ASSUME IInv, Keeps, RegistryShape', NEW r \in Runners,
           \A s \in Runners \ {r} : SameRunner(s),
           \A i \in DOMAIN tasks : SameState(i) \/ (pc[r] \in Busy /\ i = id[r]),
           Owns(r)', Knows(r)',
           pc'[r] \in Busy => (pc[r] \in Busy /\ id'[r] = id[r]) \/ id'[r] = next_id
    PROVE  (OwnsItsTask /\ Retrying /\ Distinct)'
<1>1. \A s \in Runners \ {r} : pc[s] \in Busy => SameState(id[s])
  BY DEF IInv, RunnerInv, Distinct, OwnsItsTask, Busy
<1>2. \A s \in Runners \ {r} : Owns(s)' /\ Knows(s)'
  BY <1>1, Bystander
<1>3. \A s \in Runners : pc[s] \in Busy => id[s] # next_id
  BY DEF IInv, RunnerInv, OwnsItsTask, Busy, Shape, RegistryShape, Ids
<1>4. Distinct'
  BY <1>3 DEF IInv, RunnerInv, Distinct, SameRunner
<1> QED BY <1>2, <1>4, PerRunner

\* A step of no runner that changes no task's state.
LEMMA NoRunner ==
    ASSUME IInv, Keeps, RegistryShape', UNCHANGED <<pc, id, job>>,
           \A i \in DOMAIN tasks : SameState(i)
    PROVE  (OwnsItsTask /\ Retrying /\ Distinct)'
<1>1. \A s \in Runners : SameRunner(s) BY DEF SameRunner
<1>2. \A s \in Runners : pc[s] \in Busy => SameState(id[s]) BY DEF SameState
<1>3. \A s \in Runners : Owns(s)' /\ Knows(s)' BY <1>1, <1>2, Bystander
<1>4. Distinct' BY DEF IInv, RunnerInv, Distinct
<1> QED BY <1>3, <1>4, PerRunner

\* A bridge keeps its running task unless the step ends that task.
LEMMA BridgesStay ==
    ASSUME IInv, Keeps, RegistryShape',
           \A i \in Ids : bridge'[i] # "err",
           \A i \in Ids : bridge'[i] = "running" =>
               \/ bridge[i] = "running" /\ SameState(i)
               \/ IsRunning(i)'
    PROVE  Bridged'
<1>1. \A i \in Ids : bridge[i] = "running" /\ SameState(i) => IsRunning(i)'
  BY DEF IInv, RunnerInv, Bridged, IsRunning, Keeps, SameState, Terminal, TerminalStates
<1> QED BY <1>1 DEF Bridged

\* The four effects and states: only a move changes one, and only its own.
LEMMA SameStates ==
    ASSUME Shape
    PROVE  /\ Same \/ Forgets => \A i \in DOMAIN tasks : SameState(i)
           /\ \A j \in Job, from \in Ids \cup {None} :
                Admits(j, from) => \A i \in DOMAIN tasks : SameState(i)
           /\ \A k \in Ids : Moves(k) => \A i \in DOMAIN tasks \ {k} : SameState(i)
<1>1. \A i \in DOMAIN tasks : i # next_id BY DEF Shape, RegistryShape, Ids
<1> QED BY <1>1 DEF Same, Forgets, Admits, Moves, SameState

\* request_cancel changes no state.
LEMMA CancelSameStates ==
    ASSUME Shape, NEW k \in DOMAIN tasks, RequestCancel(k)
    PROVE  \A i \in DOMAIN tasks : SameState(i)
<1>1. tasks[k] \in TaskRecord BY DEF Shape, RegistryShape
<1> QED BY <1>1 DEF RequestCancel, SameState, TaskRecord

\* A registration that is admitted gives r a task of its own.
LEMMA AdmitRunner ==
    ASSUME IInv, Keeps, RegistryShape', NEW r \in Runners, NEW j \in Job,
           NEW from \in Ids \cup {None},
           Admits(j, from), Admit(r, j, from),
           job'[r] = j, \A s \in Runners \ {r} : job'[s] = job[s]
    PROVE  RunnerInv'
<1>1. pc' = [pc EXCEPT ![r] = "registered"] /\ id' = [id EXCEPT ![r] = next_id]
      /\ bridge' = bridge
  BY DEF Admit, bridgeVars
<1>2. pc'[r] = "registered" /\ id'[r] = next_id
      /\ \A s \in Runners \ {r} : SameRunner(s)
  BY <1>1 DEF IInv, Shape, RunnerShape, SameRunner
<1>3. \A i \in DOMAIN tasks : SameState(i) BY SameStates DEF IInv
<1>4. tasks'[next_id].job = j /\ tasks'[next_id].state = "Queued" /\ next_id \in DOMAIN tasks'
  BY DEF Admits, NewRecord
<1>5. Owns(r)' /\ Knows(r)' BY <1>2, <1>4 DEF Owns, Knows
<1>6. (OwnsItsTask /\ Retrying /\ Distinct)' BY <1>2, <1>3, <1>5, OneRunner
<1>7. \A i \in Ids : bridge'[i] # "err" BY <1>1 DEF IInv, RunnerInv, Bridged
<1>8. \A i \in Ids : bridge'[i] = "running" => bridge[i] = "running" /\ SameState(i)
  BY <1>1, <1>3 DEF IInv, RunnerInv, Bridged, IsRunning
<1>9. Bridged' BY <1>7, <1>8, BridgesStay
<1> QED BY <1>6, <1>9 DEF RunnerInv

\* A call that returns without a task leaves everybody else as they were.
LEMMA LeaveRunner ==
    ASSUME IInv, Keeps, RegistryShape', NEW r \in Runners,
           pc' = [pc EXCEPT ![r] = "idle"],
           \A s \in Runners \ {r} : id'[s] = id[s] /\ job'[s] = job[s],
           \A i \in DOMAIN tasks : SameState(i), bridge' = bridge
    PROVE  RunnerInv'
<1>1. pc'[r] = "idle" /\ \A s \in Runners \ {r} : SameRunner(s)
  BY DEF IInv, Shape, RunnerShape, SameRunner
<1>2. Owns(r)' /\ Knows(r)' BY <1>1 DEF Owns, Knows, Busy
<1>3. pc'[r] \notin Busy BY <1>1 DEF Busy
<1>4. (OwnsItsTask /\ Retrying /\ Distinct)' BY <1>1, <1>2, <1>3, OneRunner
<1>5. \A i \in Ids : bridge'[i] # "err" BY DEF IInv, RunnerInv, Bridged
<1>6. \A i \in Ids : bridge'[i] = "running" => bridge[i] = "running" /\ SameState(i)
  BY DEF IInv, RunnerInv, Bridged, IsRunning
<1>7. Bridged' BY <1>5, <1>6, BridgesStay
<1> QED BY <1>4, <1>7 DEF RunnerInv

\* A step that touches no runner, no bridge and no state.
LEMMA IdleRunners ==
    ASSUME IInv, Keeps, RegistryShape', UNCHANGED <<pc, id, job>>,
           \A i \in DOMAIN tasks : SameState(i),
           \A i \in Ids : bridge'[i] # "err",
           \A i \in Ids : bridge'[i] = "running" => bridge[i] = "running"
    PROVE  RunnerInv'
<1>1. (OwnsItsTask /\ Retrying /\ Distinct)' BY NoRunner
<1>2. \A i \in Ids : bridge'[i] = "running" => bridge[i] = "running" /\ SameState(i)
  BY DEF IInv, RunnerInv, Bridged, IsRunning
<1>3. Bridged' BY <1>2, BridgesStay
<1> QED BY <1>1, <1>3 DEF RunnerInv

\* Runners and bridges keep their tasks, action by action.
LEMMA RunnerStep == ASSUME IInv, [Next]_vars PROVE RunnerInv'
<1>e. Effect BY StepEffect
<1>k. Keeps BY <1>e, EffectKeeps DEF IInv
<1>s. Shape /\ RegistryShape' BY <1>e, RegistryShapeStep DEF IInv
<1>t. RunnerShape BY <1>s DEF Shape
<1>b. \A i \in Ids : bridge[i] # "err" BY DEF IInv, RunnerInv, Bridged
<1>r. ASSUME NEW r \in Runners, NEW j, Refuse(r, j) PROVE RunnerInv'
  <2>1. \A i \in DOMAIN tasks : SameState(i) BY <1>s, <1>r, RefuseEffect, SameStates
  <2>2. /\ pc' = [pc EXCEPT ![r] = "idle"] /\ bridge' = bridge
        /\ \A s \in Runners \ {r} : id'[s] = id[s] /\ job'[s] = job[s]
    BY <1>r, <1>t DEF Refuse, bridgeVars, RunnerShape
  <2> QED BY <1>k, <1>s, <2>1, <2>2, LeaveRunner
<1>1. ASSUME NEW r \in Runners, RunNew(r) PROVE RunnerInv'
  <2>1. PICK j \in Job : \/ Admit(r, j, None) /\ job' = [job EXCEPT ![r] = j]
                         \/ Refuse(r, j)
    BY <1>1 DEF RunNew
  <2>2. CASE Admit(r, j, None) /\ job' = [job EXCEPT ![r] = j]
    <3>1. Admits(j, None) BY <1>s, <2>2, AdmitEffect
    <3>2. job'[r] = j /\ \A s \in Runners \ {r} : job'[s] = job[s]
      BY <1>t, <2>2 DEF RunnerShape
    <3> QED BY <1>k, <1>s, <2>2, <3>1, <3>2, AdmitRunner
  <2> QED BY <2>1, <2>2, <1>r
<1>2. ASSUME NEW r \in Runners, RetryLookup(r) PROVE RunnerInv'
  <2>1. PICK previous \in DOMAIN tasks :
            /\ id' = [id EXCEPT ![r] = previous]
            /\ job' = [job EXCEPT ![r] = tasks[previous].job]
    BY <1>2 DEF RetryLookup
  <2>2. pc' = [pc EXCEPT ![r] = "retry"] /\ tasks' = tasks /\ next_id' = next_id
        /\ bridge' = bridge
    BY <1>2 DEF RetryLookup, registryVars, bridgeVars
  <2>3. /\ pc'[r] = "retry" /\ id'[r] = previous /\ job'[r] = tasks[previous].job
        /\ \A s \in Runners \ {r} : SameRunner(s)
    BY <1>t, <2>1, <2>2 DEF RunnerShape, SameRunner
  <2>4. \A i \in DOMAIN tasks : SameState(i) BY <2>2 DEF SameState
  <2>5. Owns(r)' BY <2>3 DEF Owns, Busy
  <2>6. Knows(r)' BY <1>s, <2>2, <2>3 DEF Knows, Shape, RegistryShape
  <2>7. pc'[r] \notin Busy BY <2>3 DEF Busy
  <2>8. (OwnsItsTask /\ Retrying /\ Distinct)'
    BY <1>k, <1>s, <2>3, <2>4, <2>5, <2>6, <2>7, OneRunner
  <2>9. Bridged' BY <1>k, <1>s, <1>b, <2>2, <2>4, BridgesStay DEF IInv, RunnerInv,
       Bridged, IsRunning
  <2> QED BY <2>8, <2>9 DEF RunnerInv
<1>3. ASSUME NEW r \in Runners, RegisterRetry(r) PROVE RunnerInv'
  <2>1. CASE ~Retryable(id[r])
    <3>1. /\ pc' = [pc EXCEPT ![r] = "idle"] /\ id' = [id EXCEPT ![r] = None]
          /\ job' = [job EXCEPT ![r] = None] /\ tasks' = tasks /\ bridge' = bridge
      BY <1>3, <2>1 DEF RegisterRetry, registryVars, bridgeVars
    <3>2. \A s \in Runners \ {r} : id'[s] = id[s] /\ job'[s] = job[s]
      BY <1>t, <3>1 DEF RunnerShape
    <3>3. \A i \in DOMAIN tasks : SameState(i) BY <3>1 DEF SameState
    <3> QED BY <1>k, <1>s, <3>1, <3>2, <3>3, LeaveRunner
  <2>2. CASE Retryable(id[r]) /\ Admit(r, tasks[id[r]].job, id[r]) /\ UNCHANGED job
    <3>1. id[r] \in DOMAIN tasks /\ id[r] \in Ids /\ tasks[id[r]].job \in Job
      BY <1>s, <2>2 DEF Retryable, Shape, RegistryShape, TaskRecord
    <3>2. job[r] = tasks[id[r]].job
      BY <1>3, <3>1 DEF RegisterRetry, IInv, RunnerInv, Retrying
    <3>3. Admits(tasks[id[r]].job, id[r]) BY <1>s, <2>2, <3>1, AdmitEffect
    <3>4. job'[r] = tasks[id[r]].job /\ \A s \in Runners \ {r} : job'[s] = job[s]
      BY <2>2, <3>2
    <3> QED BY <1>k, <1>s, <2>2, <3>1, <3>3, <3>4, AdmitRunner
  <2> QED BY <1>3, <2>1, <2>2, <1>r DEF RegisterRetry
<1>4. ASSUME NEW r \in Runners, Start(r) PROVE RunnerInv'
  <2>1. /\ pc[r] = "registered" /\ id[r] \in DOMAIN tasks /\ tasks[id[r]].state = "Queued"
        /\ tasks[id[r]].job = job[r]
    BY <1>4 DEF Start, IInv, RunnerInv, OwnsItsTask
  <2>2. /\ tasks' = [tasks EXCEPT ![id[r]].state = "Running"]
        /\ pc' = [pc EXCEPT ![r] = "transfer"]
        /\ bridge' = [bridge EXCEPT ![id[r]] = "running"]
        /\ UNCHANGED <<id, job, cancelled, next_id>>
    BY <1>4, <2>1 DEF Start
  <2>3. Moves(id[r]) /\ id[r] \in Ids
    BY <1>s, <2>1, <2>2, FieldEffect DEF IInv, RegistryInv, Shape, RegistryShape
  <2>4. tasks'[id[r]].state = "Running" /\ id[r] \in DOMAIN tasks'
    BY <1>s, <2>1, <2>2 DEF Shape, RegistryShape, TaskRecord
  <2>5. pc'[r] = "transfer" /\ \A s \in Runners \ {r} : SameRunner(s)
    BY <1>t, <2>2 DEF RunnerShape, SameRunner
  <2>6. \A i \in DOMAIN tasks : SameState(i) \/ i = id[r]
    BY <1>s, <2>3, SameStates
  <2>7. Owns(r)' /\ Knows(r)'
    BY <2>1, <2>2, <2>3, <2>4, <2>5 DEF Owns, Knows, Moves
  <2>8. pc[r] \in Busy BY <2>1 DEF Busy
  <2>9. (OwnsItsTask /\ Retrying /\ Distinct)'
    BY <1>k, <1>s, <2>2, <2>5, <2>6, <2>7, <2>8, OneRunner
  <2>10. \A i \in Ids : bridge'[i] # "err" BY <1>b, <1>t, <2>2 DEF RunnerShape
  <2>11. \A i \in Ids : bridge'[i] = "running" =>
            \/ bridge[i] = "running" /\ SameState(i)
            \/ IsRunning(i)'
    BY <1>t, <2>2, <2>4, <2>6 DEF RunnerShape, IsRunning, IInv, RunnerInv, Bridged
  <2>12. Bridged' BY <1>k, <1>s, <2>10, <2>11, BridgesStay
  <2> QED BY <2>9, <2>12 DEF RunnerInv
<1>5. ASSUME NEW r \in Runners, TransferReturns(r) PROVE RunnerInv'
  <2>1. pc[r] = "transfer" /\ pc' = [pc EXCEPT ![r] = "await"]
        /\ UNCHANGED <<id, job, tasks, next_id, bridge>>
    BY <1>5 DEF TransferReturns, registryVars
  <2>2. pc'[r] = "await" /\ \A s \in Runners \ {r} : SameRunner(s)
    BY <1>t, <2>1 DEF RunnerShape, SameRunner
  <2>3. \A i \in DOMAIN tasks : SameState(i) BY <2>1 DEF SameState
  <2>4. Owns(r) BY PerRunner DEF IInv, RunnerInv
  <2>5. Owns(r)' /\ Knows(r)' BY <2>1, <2>2, <2>4 DEF Owns, Knows, Busy
  <2>6. pc[r] \in Busy BY <2>1 DEF Busy
  <2>7. (OwnsItsTask /\ Retrying /\ Distinct)'
    BY <1>k, <1>s, <2>1, <2>2, <2>3, <2>5, <2>6, OneRunner
  <2>8. Bridged' BY <1>k, <1>s, <1>b, <2>1, <2>3, BridgesStay DEF IInv, RunnerInv,
       Bridged, IsRunning
  <2> QED BY <2>7, <2>8 DEF RunnerInv
<1>6. ASSUME NEW r \in Runners, Finish(r) PROVE RunnerInv'
  <2>1. /\ pc[r] = "await" /\ bridge[id[r]] # "running"
        /\ id[r] \in Ids /\ IsRunning(id[r])
    BY <1>6 DEF Finish, IInv, RunnerInv, OwnsItsTask, IsRunning, Shape, RegistryShape
  <2>2. /\ pc' = [pc EXCEPT ![r] = "idle"] /\ id' = [id EXCEPT ![r] = None]
        /\ job' = [job EXCEPT ![r] = None] /\ next_id' = next_id /\ bridge' = bridge
        /\ End(id[r], FinalState(r))
    BY <1>6 DEF Finish
  <2>3. FinalState(r) \in TerminalStates BY DEF FinalState, TerminalStates
  <2>4. Moves(id[r]) BY <1>s, <2>1, <2>2, <2>3, EndEffect DEF IInv, RegistryInv
  <2>5. pc'[r] = "idle" /\ \A s \in Runners \ {r} : SameRunner(s)
    BY <1>t, <2>2 DEF RunnerShape, SameRunner
  <2>6. \A i \in DOMAIN tasks : SameState(i) \/ i = id[r]
    BY <1>s, <2>1, <2>4, SameStates
  <2>7. Owns(r)' /\ Knows(r)' BY <2>5 DEF Owns, Knows, Busy
  <2>8. pc[r] \in Busy /\ pc'[r] \notin Busy BY <2>1, <2>5 DEF Busy
  <2>9. (OwnsItsTask /\ Retrying /\ Distinct)'
    BY <1>k, <1>s, <2>5, <2>6, <2>7, <2>8, OneRunner
  <2>10. \A i \in Ids : bridge'[i] = "running" => bridge[i] = "running" /\ SameState(i)
    BY <2>1, <2>2, <2>6 DEF IInv, RunnerInv, Bridged, IsRunning
  <2>11. Bridged' BY <1>k, <1>s, <1>b, <2>2, <2>10, BridgesStay
  <2> QED BY <2>9, <2>11 DEF RunnerInv
<1>7. ASSUME NEW r \in Runners, DropFuture(r) PROVE RunnerInv'
  <2>1. /\ pc' = [pc EXCEPT ![r] = "idle"] /\ id' = [id EXCEPT ![r] = None]
        /\ job' = [job EXCEPT ![r] = None] /\ tasks' = tasks /\ bridge' = bridge
    BY <1>7 DEF DropFuture, registryVars
  <2>2. \A s \in Runners \ {r} : id'[s] = id[s] /\ job'[s] = job[s]
    BY <1>t, <2>1 DEF RunnerShape
  <2>3. \A i \in DOMAIN tasks : SameState(i) BY <2>1 DEF SameState
  <2> QED BY <1>k, <1>s, <2>1, <2>2, <2>3, LeaveRunner
<1>8. ASSUME NEW i \in Ids, BridgeRecords(i) PROVE RunnerInv'
  <2>1. IsRunning(i) BY <1>8 DEF BridgeRecords, IInv, RunnerInv, Bridged
  <2>2. /\ tasks' = [tasks EXCEPT ![i].progress = Head(queue[i])]
        /\ UNCHANGED <<pc, id, job, bridge>>
    BY <1>8, <2>1 DEF BridgeRecords, runnerVars
  <2>3. tasks[i] \in TaskRecord BY <1>s, <2>1 DEF IsRunning, Shape, RegistryShape
  <2>4. \A k \in DOMAIN tasks : SameState(k) BY <2>2, <2>3 DEF SameState, TaskRecord
  <2> QED BY <1>k, <1>s, <1>b, <2>2, <2>4, IdleRunners
<1>9. ASSUME NEW i \in Ids, BridgePolls(i) \/ UserCancels(i) PROVE RunnerInv'
  <2>1. i \in DOMAIN tasks
    BY <1>9 DEF BridgePolls, UserCancels, IInv, RunnerInv, Bridged, IsRunning
  <2>2. RequestCancel(i) /\ UNCHANGED <<pc, id, job, bridge>>
    BY <1>9, <2>1 DEF BridgePolls, UserCancels, runnerVars, bridgeVars
  <2>3. \A k \in DOMAIN tasks : SameState(k) BY <1>s, <2>1, <2>2, CancelSameStates
  <2> QED BY <1>k, <1>s, <1>b, <2>2, <2>3, IdleRunners
<1>10. ASSUME NEW i \in Ids, BridgeEnds(i) PROVE RunnerInv'
  <2>1. bridge' = [bridge EXCEPT ![i] = "ok"] /\ UNCHANGED <<pc, id, job, tasks>>
    BY <1>10 DEF BridgeEnds, runnerVars, registryVars
  <2>2. \A k \in DOMAIN tasks : SameState(k) BY <2>1 DEF SameState
  <2>3. \A k \in Ids : /\ bridge'[k] # "err"
                       /\ bridge'[k] = "running" => bridge[k] = "running"
    BY <1>b, <1>t, <2>1 DEF RunnerShape
  <2> QED BY <1>k, <1>s, <2>1, <2>2, <2>3, IdleRunners
<1>11. CASE ClearFinished
  <2>1. Forgets BY <1>s, <1>11, ForgetEffect DEF ClearFinished, Clearable
  <2>2. UNCHANGED <<pc, id, job, bridge>>
    BY <1>11 DEF ClearFinished, runnerVars, bridgeVars
  <2>3. \A k \in DOMAIN tasks : SameState(k) BY <1>s, <2>1, SameStates
  <2> QED BY <1>k, <1>s, <1>b, <2>2, <2>3, IdleRunners
<1>12. ASSUME (\E r \in Runners : Emit(r) \/ CallerCancels(r)) \/ UNCHANGED vars
       PROVE  RunnerInv'
  <2>1. UNCHANGED <<pc, id, job, tasks, bridge>>
    BY <1>12 DEF Emit, CallerCancels, runnerVars, registryVars, vars
  <2>2. \A k \in DOMAIN tasks : SameState(k) BY <2>1 DEF SameState
  <2> QED BY <1>k, <1>s, <1>b, <2>1, <2>2, IdleRunners
<1> QED
  BY <1>1, <1>2, <1>3, <1>4, <1>5, <1>6, <1>7, <1>8, <1>9, <1>10, <1>11, <1>12 DEF Next

\* The runners' part of Shape, action by action.
LEMMA RunnerShapeStep == ASSUME IInv, [Next]_vars PROVE RunnerShape'
<1>t. RunnerShape /\ RegistryShape BY DEF IInv, Shape
<1>n. next_id < LastId => next_id \in Ids
  BY <1>t, BoundsAssumption DEF RegistryShape, Ids
<1>j. \A i \in DOMAIN tasks : i \in Ids /\ tasks[i].job \in Job
  BY <1>t DEF RegistryShape, TaskRecord
<1>r. ASSUME NEW r \in Runners, NEW j, Refuse(r, j) PROVE RunnerShape'
  BY <1>t, <1>r DEF Refuse, bridgeVars, RunnerShape
<1>1. ASSUME NEW r \in Runners, RunNew(r) PROVE RunnerShape'
  <2>1. PICK j \in Job : \/ Admit(r, j, None) /\ job' = [job EXCEPT ![r] = j]
                         \/ Refuse(r, j)
    BY <1>1 DEF RunNew
  <2>2. CASE Admit(r, j, None) /\ job' = [job EXCEPT ![r] = j]
    BY <1>t, <1>n, <2>2 DEF Admit, bridgeVars, RunnerShape
  <2> QED BY <2>1, <2>2, <1>r
<1>2. ASSUME NEW r \in Runners, RetryLookup(r) PROVE RunnerShape'
  BY <1>t, <1>j, <1>2 DEF RetryLookup, bridgeVars, RunnerShape
<1>3. ASSUME NEW r \in Runners, RegisterRetry(r) PROVE RunnerShape'
  <2>1. CASE ~Retryable(id[r])
    BY <1>t, <1>3, <2>1 DEF RegisterRetry, bridgeVars, RunnerShape
  <2>2. CASE Admit(r, tasks[id[r]].job, id[r]) /\ UNCHANGED job
    BY <1>t, <1>n, <2>2 DEF Admit, bridgeVars, RunnerShape
  <2> QED BY <1>3, <2>1, <2>2, <1>r DEF RegisterRetry
<1>4. ASSUME NEW r \in Runners, Start(r) PROVE RunnerShape'
  BY <1>t, <1>4 DEF Start, RunnerShape
<1>5. ASSUME NEW r \in Runners, Emit(r) PROVE RunnerShape'
  <2>1. PICK b \in Bytes : queue' = [queue EXCEPT ![id[r]] = Enqueue(id[r], b)]
    BY <1>5 DEF Emit
  <2>2. id[r] \in Ids
    BY <1>5, <1>j DEF Emit, IInv, RunnerInv, OwnsItsTask
  <2>3. Enqueue(id[r], b) \in Seq(Bytes)
    BY <1>t, <2>2 DEF Enqueue, RunnerShape
  <2> QED BY <1>t, <1>5, <2>1, <2>2, <2>3 DEF Emit, runnerVars, RunnerShape
<1>6. ASSUME NEW r \in Runners, TransferReturns(r) \/ Finish(r) \/ DropFuture(r)
      PROVE  RunnerShape'
  BY <1>t, <1>6 DEF TransferReturns, Finish, DropFuture, RunnerShape
<1>7. ASSUME NEW i \in Ids, BridgeRecords(i) PROVE RunnerShape'
  <2>1. queue[i] \in Seq(Bytes) /\ queue[i] # <<>>
    BY <1>t, <1>7 DEF BridgeRecords, RunnerShape
  <2>2. Tail(queue[i]) \in Seq(Bytes) BY <2>1
  <2> QED BY <1>t, <1>7, <2>2 DEF BridgeRecords, runnerVars, RunnerShape
<1>8. ASSUME NEW i \in Ids, BridgeEnds(i) \/ BridgePolls(i) \/ UserCancels(i)
      PROVE  RunnerShape'
  BY <1>t, <1>8 DEF BridgeEnds, BridgePolls, UserCancels, runnerVars, bridgeVars,
       RunnerShape
<1>9. ASSUME ClearFinished \/ UNCHANGED vars \/ \E r \in Runners : CallerCancels(r)
      PROVE  RunnerShape'
  BY <1>t, <1>9 DEF ClearFinished, CallerCancels, vars, runnerVars, bridgeVars,
       RunnerShape
<1> QED BY <1>1, <1>2, <1>3, <1>4, <1>5, <1>6, <1>7, <1>8, <1>9 DEF Next
-----------------------------------------------------------------------------
(* Theorems *)

\* Init establishes the inductive invariant.
LEMMA InvInit == Init => IInv
<1> SUFFICES ASSUME Init PROVE IInv OBVIOUS
<1>1. DOMAIN tasks = {} /\ next_id = 1 /\ cancelled = {}
  BY DEF Init
<1>2. Shape
  BY <1>1, BoundsAssumption DEF Init, Shape, RegistryShape, RunnerShape, Ids
<1>3. RegistryInv
  BY <1>1 DEF RegistryInv, OneWriter, CancelAgrees, RetryLineage
<1>4. RunnerInv
  BY DEF Init, RunnerInv, OwnsItsTask, Distinct, Retrying, Bridged, Busy
<1> QED BY <1>2, <1>3, <1>4 DEF IInv

\* The inductive invariant holds throughout.
LEMMA InvHolds == Spec => []IInv
<1>1. IInv /\ [Next]_vars => IInv'
  <2> SUFFICES ASSUME IInv, [Next]_vars PROVE IInv' OBVIOUS
  <2>1. Effect BY StepEffect
  <2>2. Shape' BY <2>1, RegistryShapeStep, RunnerShapeStep DEF IInv, Shape
  <2>3. RegistryInv' BY <2>1, RegistryStep DEF IInv
  <2> QED BY <2>2, <2>3, RunnerStep DEF IInv
<1> QED BY <1>1, InvInit, PTL DEF Spec

\* However many runners register, retry, cancel and clear, a runner between
\* registration and report finds its task in the registry, in the state its
\* next call expects, and describing what it transfers.
THEOREM RunnersOwnTheirTasks == Spec => []OwnsItsTask
<1>1. IInv => OwnsItsTask BY DEF IInv, RunnerInv
<1> QED BY <1>1, InvHolds, PTL

\* Two transfers of one direction never write one destination at once.
THEOREM WritersExclude == Spec => []ExclusiveWriter
<1>1. IInv => ExclusiveWriter
  <2> SUFFICES ASSUME IInv, NEW r \in Runners, NEW s \in Runners,
                      r # s, pc[r] = "transfer", pc[s] = "transfer"
               PROVE  \/ Direction(job[r].kind) # Direction(job[s].kind)
                      \/ job[r].destination # job[s].destination
    BY DEF ExclusiveWriter
  <2>1. /\ id[r] \in DOMAIN tasks /\ tasks[id[r]].job = job[r] /\ ~Terminal(id[r])
        /\ id[s] \in DOMAIN tasks /\ tasks[id[s]].job = job[s] /\ ~Terminal(id[s])
    BY DEF IInv, RunnerInv, OwnsItsTask, Terminal, TerminalStates
  <2>2. id[r] # id[s] BY DEF IInv, RunnerInv, Distinct, Busy
  <2> QED BY <2>1, <2>2 DEF IInv, RegistryInv, OneWriter
<1> QED BY <1>1, InvHolds, PTL

\* The progress bridge never meets a task that is gone or not running, dropped
\* futures included, so tracking alone never fails a transfer.
THEOREM TrackingHolds == Spec => []TrackingNeverFails
<1>1. IInv => TrackingNeverFails BY DEF IInv, RunnerInv, Bridged, TrackingNeverFails
<1> QED BY <1>1, InvHolds, PTL

\* The registry's view of cancellation and of retry lineage is right.
THEOREM RecordsAgree == Spec => [](CancelAgrees /\ RetryLineage)
<1>1. IInv => CancelAgrees /\ RetryLineage BY DEF IInv, RegistryInv
<1> QED BY <1>1, InvHolds, PTL

\* Only ended tasks are forgotten, ended tasks never change, and a task only
\* moves along Queued, Running, ended.
THEOREM LifecycleHolds == Spec => Lifecycle
<1> DEFINE Move ==
      \A i \in DOMAIN tasks :
        IF i \notin DOMAIN tasks' THEN Terminal(i)
        ELSE \/ tasks'[i] = tasks[i]
             \/ ~Terminal(i) /\ tasks'[i].state = tasks[i].state
             \/ tasks[i].state = "Queued" /\ tasks'[i].state = "Running"
             \/ tasks[i].state = "Running" /\ tasks'[i].state \in TerminalStates
<1>1. IInv /\ [Next]_vars => Move
  <2> SUFFICES ASSUME IInv, [Next]_vars PROVE Move OBVIOUS
  <2>1. CASE Same BY <2>1 DEF Same
  <2>2. CASE Forgets BY <2>2 DEF Forgets
  <2>3. ASSUME NEW j \in Job, NEW from \in Ids \cup {None}, Admits(j, from) PROVE Move
    BY <2>3 DEF Admits, IInv, Shape, RegistryShape, Ids
  <2>4. ASSUME NEW i \in Ids, Moves(i) PROVE Move
    BY <2>4 DEF Moves
  <2> QED BY <2>1, <2>2, <2>3, <2>4, StepEffect DEF Effect
<1>2. IInv /\ [Next]_vars => [Move]_vars BY <1>1
<1> QED BY <1>2, InvHolds, PTL DEF Spec, Lifecycle
=============================================================================
