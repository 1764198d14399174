--------------------------- MODULE DesktopSession ---------------------------
(***************************************************************************)
(* The session of one host alias in the desktop application               *)
(* (apps/kaduox-desktop/src-tauri/src/state.rs and commands/): commands    *)
(* lease the session's transport and heal it when it has died, the user    *)
(* connects and disconnects, terminals and forwards hold leases.           *)
(* Every await of the code is a point where another command may run, so    *)
(* each action is one await-to-await segment.  The connection manager      *)
(* appears as what it promises a single name: ConnectionManager.tla models *)
(* it in full.                                                             *)
(***************************************************************************)
EXTENDS Naturals, FiniteSets

CONSTANTS Procs,            \* commands that may be in flight at once
          Transports,       \* authenticated SSH transports
          Terminals,        \* slots of the table of terminals
          Forwards,         \* slots of the table of port forwards
          Locks,            \* the Arc<Mutex<()>> objects of reconnect_locks
          MaxDisconnects,   \* bound on the disconnects of a behaviour
          None

ASSUME NoneAssumption == None \notin Transports \cup Locks \cup Procs
ASSUME TablesAssumption == Terminals \cap Forwards = {}
ASSUME BoundAssumption == MaxDisconnects \in Nat /\ IsFiniteSet(Procs)

VARIABLES
    session,     \* sessions[alias]: the transport its lease holds, or None
    managed,     \* the transport the connection manager binds to the alias
    alive,       \* the transports that are up
    controls,    \* the transport each terminal and forward holds a lease of
    slot,        \* reconnect_locks[alias]
    holder,      \* who holds each lock
    generation,  \* disconnect_generations[alias]
    cooling,     \* heal_failures[alias] has a failure within its cooldown
    pc, loc,     \* where each command is, and its local variables
    wanted       \* history: a connect was begun or in flight since the last
                 \* disconnect dropped the session

registry == <<session, managed, alive, controls>>
locks == <<slot, holder>>
memory == <<generation, cooling>>
vars == <<registry, locks, memory, pc, loc, wanted>>

Controls == Terminals \cup Forwards
Ops == {"none", "use", "connect", "disconnect", "discard"}
Idle == [op |-> "none", lock |-> None, gen |-> 0, lease |-> None, removed |-> None]

\* The segments in which a command tears a session down and sets one up.
Teardown == {"stop_terminals", "stop_forwards", "drop", "unmanage", "close"}
Setup == {"dial", "lease", "insert", "reinsert", "verify"}
Locked == {"check", "cooldown", "generation", "previous", "note", "drop_slot",
           "healed", "failed", "compare"}
Labels == {"idle", "probe", "present", "leased", "lock", "acquire"}
            \cup Teardown \cup Setup \cup Locked

TypeOK ==
    /\ session \in Transports \cup {None} /\ managed \in Transports \cup {None}
    /\ alive \subseteq Transports
    /\ controls \in [Controls -> Transports \cup {None}]
    /\ slot \in Locks \cup {None} /\ holder \in [Locks -> Procs \cup {None}]
    /\ generation \in 0..MaxDisconnects /\ cooling \in BOOLEAN /\ wanted \in BOOLEAN
    /\ pc \in [Procs -> Labels]
    /\ loc \in [Procs -> [op : Ops, lock : Locks \cup {None}, gen : 0..MaxDisconnects,
                          lease : Transports \cup {None},
                          removed : Transports \cup {None}]]

Init ==
    /\ session = None /\ managed = None /\ alive = {}
    /\ controls = [c \in Controls |-> None]
    /\ slot = None /\ holder = [l \in Locks |-> None]
    /\ generation = 0 /\ cooling = FALSE /\ wanted = FALSE
    /\ pc = [p \in Procs |-> "idle"] /\ loc = [p \in Procs |-> Idle]

-----------------------------------------------------------------------------
Goto(p, l) == pc' = [pc EXCEPT ![p] = l]
At(p, l) == pc[p] = l
Kept(p, field, v) == loc' = [loc EXCEPT ![p][field] = v]

\* The command returns: its locals go, and with them its lock guard.
Return(p) ==
    /\ Goto(p, "idle") /\ loc' = [loc EXCEPT ![p] = Idle]
    /\ holder' = [l \in Locks |-> IF holder[l] = p THEN None ELSE holder[l]]

Live(t) == t # None /\ t \in alive

\* A transport nothing refers to any more: its identity stands for a new one.
Unused(t) ==
    /\ t \notin alive \cup {session, managed}
    /\ \A c \in Controls : controls[c] # t
    /\ \A p \in Procs : loc[p].lease # t /\ loc[p].removed # t

-----------------------------------------------------------------------------
(* A command that needs the host: session_lease. *)

BeginUse(p) ==
    /\ At(p, "idle") /\ Goto(p, "probe") /\ Kept(p, "op", "use")
    /\ UNCHANGED <<registry, locks, memory, wanted>>

BeginConnect(p) ==
    /\ At(p, "idle") /\ Goto(p, "probe") /\ Kept(p, "op", "connect")
    /\ wanted' = TRUE
    /\ UNCHANGED <<registry, locks, memory>>

\* live_session_lease, and the same probe at the head of connect_host.
Probe(p) ==
    /\ At(p, "probe")
    /\ \/ /\ Live(session) /\ loc[p].op = "use"
          /\ Goto(p, "leased") /\ Kept(p, "lease", session) /\ UNCHANGED holder
       \/ Live(session) /\ loc[p].op = "connect" /\ Return(p)
       \/ ~Live(session) /\ Goto(p, "present") /\ UNCHANGED <<loc, holder>>
    /\ UNCHANGED <<registry, slot, memory, wanted>>

\* sessions.get(alias).is_none(): a command without a session fails, a connect
\* without one goes on to dial, one that finds a dead session releases it first.
Present(p) ==
    /\ At(p, "present")
    /\ IF session = None
       THEN IF loc[p].op = "use" THEN Return(p)
            ELSE Goto(p, "dial") /\ UNCHANGED <<loc, holder>>
       ELSE /\ Goto(p, IF loc[p].op = "use" THEN "lock" ELSE "stop_terminals")
            /\ UNCHANGED <<loc, holder>>
    /\ UNCHANGED <<registry, slot, memory, wanted>>

\* The command is done with its lease, or failed while it used it.
UseDone(p) ==
    /\ At(p, "leased") /\ Return(p)
    /\ UNCHANGED <<registry, slot, memory, wanted>>

\* The command leaves a control with its lease in a table.
Register(p, table) ==
    /\ At(p, "leased")
    /\ \E c \in table : /\ controls[c] = None
                         /\ controls' = [controls EXCEPT ![c] = loc[p].lease]
    /\ Return(p)
    /\ UNCHANGED <<session, managed, alive, slot, memory, wanted>>

StartTerminal(p) == Register(p, Terminals)

StartForward(p) == Register(p, Forwards)

-----------------------------------------------------------------------------
(* The lock of the alias: alias_reconnect_lock, and the mutex it returns. *)

\* The disconnects that have not been counted yet.
Disconnecting ==
    {q \in Procs : loc[q].op = "disconnect" /\ pc[q] \in {"lock", "acquire", "note"}}

BeginDisconnect(p) ==
    /\ At(p, "idle") /\ generation + Cardinality(Disconnecting) < MaxDisconnects
    /\ Goto(p, "lock") /\ Kept(p, "op", "disconnect")
    /\ UNCHANGED <<registry, locks, memory, wanted>>

UnusedLock(l) == l # slot /\ holder[l] = None /\ \A p \in Procs : loc[p].lock # l

FetchLock(p) ==
    /\ At(p, "lock")
    /\ \E l \in Locks : /\ IF slot = None THEN UnusedLock(l) ELSE l = slot
                        /\ slot' = l /\ Kept(p, "lock", l)
    /\ Goto(p, "acquire")
    /\ UNCHANGED <<registry, holder, memory, wanted>>

Acquire(p) ==
    /\ At(p, "acquire") /\ holder[loc[p].lock] = None
    /\ holder' = [holder EXCEPT ![loc[p].lock] = p]
    /\ Goto(p, IF loc[p].op = "use" THEN "check" ELSE "note")
    /\ UNCHANGED <<registry, slot, memory, loc, wanted>>

-----------------------------------------------------------------------------
(* heal_session, under the lock. *)

\* Somebody else may have healed the session while this command waited.
HealCheck(p) ==
    /\ At(p, "check")
    /\ IF Live(session)
       THEN /\ Goto(p, "leased") /\ holder' = [holder EXCEPT ![loc[p].lock] = None]
            /\ loc' = [loc EXCEPT ![p] = [Idle EXCEPT !.op = "use", !.lease = session]]
       ELSE Goto(p, "cooldown") /\ UNCHANGED <<loc, holder>>
    /\ UNCHANGED <<registry, slot, memory, wanted>>

Cooldown(p) ==
    /\ At(p, "cooldown")
    /\ IF cooling THEN Return(p) ELSE Goto(p, "generation") /\ UNCHANGED <<loc, holder>>
    /\ UNCHANGED <<registry, slot, memory, wanted>>

ReadGeneration(p) ==
    /\ At(p, "generation") /\ Goto(p, "previous") /\ Kept(p, "gen", generation)
    /\ UNCHANGED <<registry, locks, memory, wanted>>

\* A heal that dials whether or not there is still a session to heal.
PreviousIgnored(p) ==
    /\ At(p, "previous") /\ Goto(p, "stop_terminals")
    /\ UNCHANGED <<registry, locks, memory, loc, wanted>>

\* A heal that tries again at once when it cannot reconnect.
PreviousRetries(p) ==
    /\ At(p, "previous")
    /\ \/ session # None /\ Goto(p, "stop_terminals")
       \/ Goto(p, "check")
    /\ UNCHANGED <<registry, locks, memory, loc, wanted>>

\* reconnect needs the details of the session it replaces, a host that resolves
\* and a stored credential; without one of them it fails and touches nothing.
Previous(p) ==
    /\ At(p, "previous")
    /\ \/ session # None /\ Goto(p, "stop_terminals")
       \/ Goto(p, "failed")
    /\ UNCHANGED <<registry, locks, memory, loc, wanted>>

\* The session is not live on the way out of reconnect, or it is.
Verify(p) ==
    /\ At(p, "verify")
    /\ IF Live(session) THEN Goto(p, "healed") /\ Kept(p, "lease", session)
                        ELSE Goto(p, "failed") /\ Kept(p, "lease", None)
    /\ UNCHANGED <<registry, locks, memory, wanted>>

\* The heal succeeded: forget the failures, then compare the generation.
Healed(p) ==
    /\ At(p, "healed") /\ Goto(p, "compare") /\ cooling' = FALSE
    /\ UNCHANGED <<registry, locks, generation, loc, wanted>>

\* The user disconnected meanwhile: the new session is discarded.
Compare(p) ==
    /\ At(p, "compare")
    /\ IF generation # loc[p].gen
       THEN Goto(p, "drop") /\ Kept(p, "op", "discard") /\ UNCHANGED holder
       ELSE /\ Goto(p, "leased") /\ holder' = [holder EXCEPT ![loc[p].lock] = None]
            /\ loc' = [loc EXCEPT ![p] = [Idle EXCEPT !.op = "use",
                                                      !.lease = loc[p].lease]]
    /\ UNCHANGED <<registry, slot, memory, wanted>>

Failed(p) ==
    /\ At(p, "failed") /\ cooling' = TRUE /\ Return(p)
    /\ UNCHANGED <<registry, slot, generation, wanted>>

-----------------------------------------------------------------------------
(* Tearing a session down: disconnect_host, reconnect and connect_host. *)

NoteTwice(p) ==
    /\ At(p, "note") /\ Goto(p, "stop_terminals")
    /\ generation' = generation + 2 /\ cooling' = FALSE
    /\ UNCHANGED <<registry, locks, loc, wanted>>

\* note_disconnected
Note(p) ==
    /\ At(p, "note") /\ Goto(p, "stop_terminals")
    /\ generation' = generation + 1 /\ cooling' = FALSE
    /\ UNCHANGED <<registry, locks, loc, wanted>>

Emptied(S) == [c \in Controls |-> IF c \in S THEN None ELSE controls[c]]

StopTerminals(p) ==
    /\ At(p, "stop_terminals") /\ Goto(p, "stop_forwards")
    /\ controls' = Emptied(Terminals)
    /\ UNCHANGED <<session, managed, alive, locks, memory, loc, wanted>>

StopForwards(p) ==
    /\ At(p, "stop_forwards") /\ Goto(p, "drop")
    /\ controls' = Emptied(Forwards)
    /\ UNCHANGED <<session, managed, alive, locks, memory, loc, wanted>>

DropSession(p) ==
    /\ At(p, "drop") /\ Goto(p, "unmanage")
    /\ session' = None /\ Kept(p, "removed", session)
    /\ wanted' = IF loc[p].op = "disconnect" THEN \E q \in Procs : loc[q].op = "connect"
                                            ELSE wanted
    /\ UNCHANGED <<managed, alive, controls, locks, memory>>

\* ConnectionManager::remove takes the entry out of the map ...
Unmanage(p) ==
    /\ At(p, "unmanage") /\ Goto(p, "close")
    /\ managed' = None /\ Kept(p, "lease", managed)
    /\ UNCHANGED <<session, alive, controls, locks, memory, wanted>>

\* ... and closes its transport.  Only disconnect_host looks at the result: an error
\* makes it return early.
Close(p) ==
    /\ At(p, "close") /\ alive' = alive \ {loc[p].lease}
    /\ \/ /\ loc[p].op \in {"use", "connect"} /\ Goto(p, "dial")
          /\ Kept(p, "lease", None) /\ UNCHANGED holder
       \/ loc[p].op = "discard" /\ Return(p)
       \/ /\ loc[p].op = "disconnect" /\ Goto(p, "drop_slot")
          /\ Kept(p, "lease", None) /\ UNCHANGED holder
       \/ loc[p].op = "disconnect" /\ Return(p)
    /\ UNCHANGED <<session, managed, controls, slot, memory, wanted>>

\* drop_reconnect_lock, and the end of the disconnect.
DropSlot(p) ==
    /\ At(p, "drop_slot") /\ slot' = None /\ Return(p)
    /\ UNCHANGED <<registry, memory, wanted>>

-----------------------------------------------------------------------------
(* Setting one up: connect_saved, then the insertion by its caller. *)

\* connect_with_jump_auth: a live binding is reused, or refused when its secret
\* is not reusable; otherwise a new transport is bound, or the dial fails.
DialFails(p) ==
    /\ At(p, "dial")
    /\ IF loc[p].op = "connect" THEN Return(p)
                                ELSE Goto(p, "reinsert") /\ UNCHANGED <<loc, holder>>
    /\ UNCHANGED <<registry, slot, memory, wanted>>

\* A dial that does not look for a live binding first.
DialAlways(p) ==
    /\ At(p, "dial") /\ Goto(p, "lease")
    /\ \E t \in Transports : Unused(t) /\ managed' = t /\ alive' = alive \cup {t}
    /\ UNCHANGED <<session, controls, locks, memory, loc, wanted>>

Dial(p) ==
    /\ At(p, "dial") /\ Goto(p, "lease")
    /\ IF Live(managed) THEN UNCHANGED <<managed, alive>>
       ELSE \E t \in Transports : Unused(t) /\ managed' = t /\ alive' = alive \cup {t}
    /\ UNCHANGED <<session, controls, locks, memory, loc, wanted>>

\* get_lease: whatever is bound to the alias now; a dead binding is evicted.
GetLease(p) ==
    /\ At(p, "lease")
    /\ IF Live(managed)
       THEN Goto(p, "insert") /\ Kept(p, "lease", managed) /\ UNCHANGED <<managed, holder>>
       ELSE /\ managed' = None
            /\ IF loc[p].op = "connect" THEN Return(p)
               ELSE Goto(p, "reinsert") /\ UNCHANGED <<loc, holder>>
    /\ UNCHANGED <<session, alive, controls, slot, memory, wanted>>

\* connect_host may also fail between the dial and here, in record_success.
ConnectFails(p) ==
    /\ At(p, "insert") /\ loc[p].op = "connect" /\ Return(p)
    /\ UNCHANGED <<registry, slot, memory, wanted>>

Insert(p) ==
    /\ At(p, "insert") /\ session' = loc[p].lease
    /\ IF loc[p].op = "connect" THEN Return(p)
                                ELSE Goto(p, "verify") /\ UNCHANGED <<loc, holder>>
    /\ UNCHANGED <<managed, alive, controls, slot, memory, wanted>>

\* A failed reconnect puts the entry it removed back, so that the host stays listed.
Reinsert(p) ==
    /\ At(p, "reinsert") /\ Goto(p, "failed")
    /\ session' = IF loc[p].removed # None THEN loc[p].removed ELSE session
    /\ UNCHANGED <<managed, alive, controls, locks, memory, loc, wanted>>

-----------------------------------------------------------------------------
(* What happens besides: transports die, time passes, controls are closed. *)

TransportDies(t) ==
    /\ t \in alive /\ alive' = alive \ {t}
    /\ UNCHANGED <<session, managed, controls, locks, memory, pc, loc, wanted>>

CooldownEnds ==
    /\ cooling /\ cooling' = FALSE
    /\ UNCHANGED <<registry, locks, generation, pc, loc, wanted>>

Remove(c) ==
    /\ controls[c] # None /\ controls' = [controls EXCEPT ![c] = None]
    /\ UNCHANGED <<session, managed, alive, locks, memory, pc, loc, wanted>>

CloseTerminal(c) == c \in Terminals /\ Remove(c)

StopForward(c) == c \in Forwards /\ Remove(c)

\* list_forwards collects the forwards whose transport is dead.
ListForwards ==
    /\ \E c \in Forwards : controls[c] # None /\ ~Live(controls[c])
    /\ controls' = Emptied({c \in Forwards : ~Live(controls[c])})
    /\ UNCHANGED <<session, managed, alive, locks, memory, pc, loc, wanted>>

Step(p) ==
    \/ Probe(p) \/ Present(p) \/ UseDone(p) \/ StartTerminal(p)
    \/ StartForward(p) \/ FetchLock(p) \/ HealCheck(p) \/ Cooldown(p) \/ ReadGeneration(p)
    \/ Previous(p) \/ Verify(p) \/ Healed(p) \/ Compare(p) \/ Failed(p)
    \/ Note(p) \/ StopTerminals(p) \/ StopForwards(p) \/ DropSession(p) \/ Unmanage(p)
    \/ Close(p) \/ DropSlot(p)
    \/ DialFails(p) \/ Dial(p) \/ GetLease(p) \/ ConnectFails(p) \/ Insert(p)
    \/ Reinsert(p)

Begin(p) == BeginUse(p) \/ BeginConnect(p) \/ BeginDisconnect(p)

Environment ==
    \/ \E t \in Transports : TransportDies(t)
    \/ CooldownEnds
    \/ \E c \in Controls : CloseTerminal(c) \/ StopForward(c)
    \/ ListForwards

Next == Environment \/ \E p \in Procs : Begin(p) \/ Step(p) \/ Acquire(p)

Spec == Init /\ [][Next]_vars

\* Every started command is polled until it returns (weak fairness), and the mutex
\* is a FIFO queue: whoever waits while it is released again and again gets it.
FairSpec == Spec /\ \A p \in Procs : WF_vars(Step(p)) /\ SF_vars(Acquire(p))

-----------------------------------------------------------------------------
\* A heal from the moment it holds the lock to its return.
Healing(p) == loc[p].op \in {"use", "discard"} /\ pc[p] \in Teardown \cup Setup \cup Locked

\* Nothing tears the session down or heals it.
Quiet == \A p \in Procs : ~Healing(p) /\ loc[p].op # "disconnect"

\* Every transport that is up is the one the manager binds to the alias, or is about
\* to be closed by the command that unbound it: no race of connects, heals and
\* disconnects leaves an authenticated connection that nothing can close
\* (connect_saved, ConnectionManager::remove).
NothingLeaks ==
    \A t \in alive : t = managed \/ \E p \in Procs : At(p, "close") /\ loc[p].lease = t

\* Once a disconnect has dropped the session and no connect was asked for since,
\* no session and no binding comes back: a heal that was waiting for the lock, or
\* was under way, does not revive what the user closed (heal_session,
\* disconnect_host).
NoZombie == ~wanted /\ Quiet => session = None /\ managed = None

\* Every command returns or gets its lease: nobody waits for the lock of the alias
\* for ever, though disconnects replace the lock while others wait for the old one
\* (heal_session, disconnect_host).
CommandEnds == \A p \in Procs : pc[p] # "idle" ~> pc[p] = "idle"
=============================================================================
