------------------------- MODULE ConnectionManager -------------------------
(***************************************************************************)
(* The pool of authenticated SSH transports of kaduox-ssh-core             *)
(* (manager.rs, manager/jump.rs).  A name is bound to at most one managed  *)
(* connection; concurrent connects for one name are single-flight; a       *)
(* capacity permit lives exactly as long as its managed connection;        *)
(* idle pruning may only drop what nobody uses.                            *)
(*                                                                         *)
(* A caller is one async task.  Every action is one stretch of code        *)
(* between two points where another thread can interleave (an await, a     *)
(* lock, an atomic).  A call can be dropped at any await (Cancel).         *)
(*                                                                         *)
(* Arc strong counts are not counters here: they are derived from who      *)
(* holds what (Owned, InUse), which is what Rust's counts are.             *)
(***************************************************************************)
EXTENDS Integers, FiniteSets

CONSTANTS
    Callers,         \* async tasks calling into the manager
    Names,           \* logical connection names
    Conns,           \* identities (Arc pointers) of managed connections
    Configs,         \* distinguishable ConnectionConfig values
    Keys,            \* reusable authentication identities
    NonReusable,     \* AuthenticationReuseKey::NonReusable
    MaxConnections,  \* ConnectionManagerConfig::max_connections
    Ops,             \* the operations the callers of this instance use
    None

ConnectOps == {"connect", "connect_lease", "jump"}
AllOps == ConnectOps \cup {"get", "get_lease", "remove", "close_all", "prune"}

ASSUME MaxConnectionsAssumption == MaxConnections \in Nat
ASSUME FinitenessAssumption == IsFiniteSet(Callers) /\ IsFiniteSet(Conns)
ASSUME OpsAssumption == Ops \subseteq AllOps
ASSUME KeysAssumption == NonReusable \notin Keys

VARIABLES
    connections,    \* name -> managed connection or None (RwLock<HashMap>)
    connecting,     \* name -> leading caller or None (Mutex<HashMap>)
    available,      \* free permits of the capacity semaphore
    managed,        \* pointer -> ManagedConnection, or None once dropped
    pc, req,        \* where a caller is, and the call it makes
    held,           \* Arc<ManagedConnection> locals of a call
    lease, client,  \* the ConnectionLease / Arc<SshClient> a caller owns
    flight,         \* ghost: what the flight a caller led or awaited produced
    seen            \* ghost: what the name was bound to when the call began

vars == <<connections, connecting, available, managed, pc, req, held, lease,
          client, flight, seen>>

Lookups == {"lookup", "relookup", "follower"}
Evictions == {"evict_lookup", "evict_leader", "evict_follower", "evict_get"}
LeaderPC == {"relookup", "evict_leader", "prune", "pruned", "acquire",
             "connecting", "insert", "handoff_lead", "unlead"}
PC == Lookups \cup Evictions \cup LeaderPC
      \cup {"idle", "claim", "wait", "handoff", "get", "remove", "closing",
            "close_all", "prune_op", "pruned_op"}

Request == [op : AllOps, name : Names \cup {None},
            config : Configs \cup {None}, key : Keys \cup {NonReusable, None}]
NoRequest == [op |-> "prune", name |-> None, config |-> None, key |-> None]

\* What a wrapper records: the binding, its lease counter, whether idle_for()
\* reached the idle timeout, and the session loop of its client.
ManagedConnection ==
    [name : Names, config : Configs, key : Keys \cup {NonReusable},
     leases : Int, expired : BOOLEAN, session : {"up", "closing", "down"}]

ASSUME NoneAssumption ==
    /\ None \notin Callers \cup Names \cup Conns \cup Configs \cup Keys \cup {NonReusable}
    /\ None \notin ManagedConnection
-----------------------------------------------------------------------------
(* Ownership *)

Live == {c \in Conns : managed[c] # None}

OwnedNotCountingLeases(c) ==
    (\E n \in Names : connections[n] = c) \/ \E p \in Callers : c \in held[p]

\* Some Arc<ManagedConnection> to c exists.
Owned(c) == \/ \E n \in Names : connections[n] = c
            \/ \E p \in Callers : c \in held[p] \/ lease[p] = c

\* After a step that leaves the wrappers as in m: dropping the last Arc to a
\* wrapper drops it and gives its permit back.
Reap(m) ==
    LET dropped == {c \in Conns : m[c] # None /\ ~Owned(c)'} IN
    /\ managed' = [c \in Conns |-> IF c \in dropped THEN None ELSE m[c]]
    /\ available' = available + Cardinality(dropped)

\* The pointer is free for a new wrapper and its client.
Fresh(c) == managed[c] = None /\ \A p \in Callers : client[p] # c

\* SshClient::is_alive: the session loop has not ended yet.
IsAlive(c) == managed[c].session # "down"

\* Somebody but the map owns the wrapper or its client (managed_is_in_use).
InUse(c) == \/ managed[c].leases # 0
            \/ \E p \in Callers : c \in held[p] \/ lease[p] = c \/ client[p] = c

Touch(c) == [managed EXCEPT ![c].expired = FALSE]

\* acquire_lease (d = 1) and release_lease (d = -1) touch as well.
CountLease(c, d) == [managed EXCEPT ![c].leases = @ + d, ![c].expired = FALSE]

(* Compatibility of a request with an existing transport *)

CanReuseWith(existing, requested) ==
    existing = requested /\ existing # NonReusable

NonReusablePair(a, b) == a = NonReusable /\ b = NonReusable

CompatibleAnyConfig(c, r, allowPair) ==
    \/ CanReuseWith(managed[c].key, r.key)
    \/ allowPair /\ NonReusablePair(managed[c].key, r.key)

\* get_reusable_managed_inner accepts the transport for the request.
Compatible(c, r, allowPair) ==
    /\ managed[c].config = r.config
    /\ \/ CanReuseWith(managed[c].key, r.key)
       \/ allowPair /\ NonReusablePair(managed[c].key, r.key)
-----------------------------------------------------------------------------
Init ==
    /\ connections = [n \in Names |-> None]
    /\ connecting = [n \in Names |-> None]
    /\ available = MaxConnections
    /\ managed = [c \in Conns |-> None]
    /\ pc = [p \in Callers |-> "idle"]
    /\ req = [p \in Callers |-> NoRequest]
    /\ held = [p \in Callers |-> {}]
    /\ lease = [p \in Callers |-> None]
    /\ client = [p \in Callers |-> None]
    /\ flight = [p \in Callers |-> None]
    /\ seen = [p \in Callers |-> None]

\* Caller p goes on at l; a call that ends forgets its arguments.
Goto(p, l) ==
    /\ pc' = [pc EXCEPT ![p] = l]
    /\ req' = IF l = "idle" THEN [req EXCEPT ![p] = NoRequest] ELSE req

Forget(p) ==
    /\ flight' = [flight EXCEPT ![p] = None]
    /\ seen' = [seen EXCEPT ![p] = None]

\* A caller without a handle starts a call.
Begin(p, r, l) ==
    /\ pc[p] = "idle" /\ lease[p] = None /\ client[p] = None
    /\ r.op \in Ops
    /\ req' = [req EXCEPT ![p] = r]
    /\ pc' = [pc EXCEPT ![p] = l]
    /\ flight' = [flight EXCEPT ![p] = None]
    /\ seen' = [seen EXCEPT ![p] = IF r.op \in ConnectOps
                                   THEN connections[r.name] ELSE None]
    /\ UNCHANGED <<connections, connecting, available, managed, held, lease, client>>

\* connect, connect_lease, connect_with_jump_auth
BeginConnect(p) ==
    \E op \in ConnectOps, n \in Names, g \in Configs, k \in Keys \cup {NonReusable} :
        Begin(p, [op |-> op, name |-> n, config |-> g, key |-> k], "lookup")

\* get, get_lease
BeginGet(p) ==
    \E op \in {"get", "get_lease"}, n \in Names :
        Begin(p, [NoRequest EXCEPT !.op = op, !.name = n], "get")

BeginRemove(p) ==
    \E n \in Names : Begin(p, [NoRequest EXCEPT !.op = "remove", !.name = n], "remove")

BeginCloseAll(p) == Begin(p, [NoRequest EXCEPT !.op = "close_all"], "close_all")

BeginPrune(p) == Begin(p, NoRequest, "prune_op")
-----------------------------------------------------------------------------
(* get_reusable_managed_inner: one read-locked lookup, made at three places *)

LookupMiss(p) ==
    /\ pc[p] \in Lookups
    /\ connections[req[p].name] = None
    /\ Goto(p, CASE pc[p] = "lookup" -> "claim"
                 [] pc[p] = "relookup" -> "prune"
                 [] OTHER -> "lookup")
    /\ flight' = [flight EXCEPT ![p] = None]
    /\ UNCHANGED <<connections, connecting, available, managed, held, lease, client, seen>>

\* The dead entry is cloned and the read lock released before evict_dead.
LookupDead(p) ==
    LET c == connections[req[p].name] IN
    /\ pc[p] \in Lookups \cup {"get"}
    /\ c # None /\ ~IsAlive(c)
    /\ Goto(p, CASE pc[p] = "lookup" -> "evict_lookup"
                 [] pc[p] = "relookup" -> "evict_leader"
                 [] pc[p] = "follower" -> "evict_follower"
                 [] OTHER -> "evict_get")
    /\ held' = [held EXCEPT ![p] = {c}]
    /\ flight' = [flight EXCEPT ![p] = None]
    /\ UNCHANGED <<connections, connecting, available, managed, lease, client, seen>>

\* Where a granted wrapper goes: connect_managed drops its leader guard before
\* it returns the wrapper, connect_with_jump_auth clones the client first.
Granted(p) == IF pc[p] \notin LeaderPC THEN "handoff"
              ELSE IF req[p].op = "jump" THEN "handoff_lead" ELSE "unlead"

LookupHit(p) ==
    LET c == connections[req[p].name] IN
    /\ pc[p] \in Lookups
    /\ c # None /\ IsAlive(c)
    /\ Compatible(c, req[p], pc[p] = "follower")
    /\ managed' = Touch(c)
    /\ held' = [held EXCEPT ![p] = {c}]
    /\ Goto(p, Granted(p))
    /\ UNCHANGED <<connections, connecting, available, lease, client, flight, seen>>

\* The error names a different configuration or authentication source.
LookupReject(p) ==
    LET c == connections[req[p].name] IN
    /\ pc[p] \in Lookups
    /\ c # None /\ IsAlive(c)
    /\ ~Compatible(c, req[p], pc[p] = "follower")
    /\ Goto(p, IF pc[p] = "relookup" THEN "unlead" ELSE "idle")
    /\ Forget(p)
    /\ UNCHANGED <<connections, connecting, available, managed, held, lease, client>>

\* evict_dead: write lock, pointer compared, liveness checked again.
EvictDead(p) ==
    LET n == req[p].name IN
    /\ pc[p] \in Evictions
    /\ connections' = IF connections[n] \in held[p] /\ ~IsAlive(connections[n])
                      THEN [connections EXCEPT ![n] = None] ELSE connections
    /\ held' = [held EXCEPT ![p] = {}]
    /\ Goto(p, CASE pc[p] = "evict_lookup" -> "claim"
                 [] pc[p] = "evict_leader" -> "prune"
                 [] pc[p] = "evict_follower" -> "lookup"
                 [] OTHER -> "idle")
    /\ UNCHANGED <<connecting, lease, client, flight, seen>>
    /\ Reap(managed)

(* get_managed *)

GetMiss(p) ==
    /\ pc[p] = "get"
    /\ connections[req[p].name] = None
    /\ Goto(p, "idle")
    /\ UNCHANGED <<connections, connecting, available, managed, held, lease, client,
                   flight, seen>>

GetHit(p) ==
    LET c == connections[req[p].name] IN
    /\ pc[p] = "get"
    /\ c # None /\ IsAlive(c)
    /\ managed' = Touch(c)
    /\ held' = [held EXCEPT ![p] = {c}]
    /\ Goto(p, "handoff")
    /\ UNCHANGED <<connections, connecting, available, lease, client, flight, seen>>
-----------------------------------------------------------------------------
(* connect_managed and connect_with_jump_auth: single-flight set-up *)

Unclaimed(n) == connecting[n] = None

LeaderStartUnverified == "prune"

\* A new leader looks the name up again before it sets up a transport.
LeaderStart == "relookup"

\* claim_connect: the mutex decides who leads and who subscribes.
Claim(p) ==
    LET n == req[p].name IN
    /\ pc[p] = "claim"
    /\ IF Unclaimed(n)
       THEN connecting' = [connecting EXCEPT ![n] = p] /\ Goto(p, LeaderStart)
       ELSE Goto(p, "wait") /\ UNCHANGED connecting
    /\ UNCHANGED <<connections, available, managed, held, lease, client, flight, seen>>

\* The subscribers of the signal that a leader for name n owns.
Followers(n) == {w \in Callers : pc[w] = "wait" /\ req[w].name = n}

\* Drop of ConnectLeader: signal done, wake the followers, free the name.
Unlead(p) ==
    LET n == req[p].name
        woken == IF connecting[n] = p THEN Followers(n) ELSE {}
        ended == held[p] = {} IN
    /\ pc[p] = "unlead"
    /\ connecting' = IF connecting[n] = p THEN [connecting EXCEPT ![n] = None]
                     ELSE connecting
    /\ pc' = [q \in Callers |->
                IF q = p THEN IF ended THEN "idle" ELSE "handoff"
                ELSE IF q \notin woken THEN pc[q]
                ELSE IF req[q].op = "jump" THEN "lookup" ELSE "follower"]
    /\ req' = IF ended THEN [req EXCEPT ![p] = NoRequest] ELSE req
    /\ flight' = [q \in Callers |->
                    IF q = p THEN IF ended THEN None ELSE flight[p]
                    ELSE IF q \in woken THEN flight[p] ELSE flight[q]]
    /\ seen' = IF ended THEN [seen EXCEPT ![p] = None] ELSE seen
    /\ UNCHANGED <<connections, available, managed, held, lease, client>>

\* Beyond the timeout and owned by nothing but the map.
Prunable(c) == managed[c].expired /\ ~InUse(c)

\* prune_idle under the write lock; the removed wrappers are dropped after it.
Prune(p) ==
    LET gone == {n \in Names : connections[n] # None /\ Prunable(connections[n])} IN
    /\ pc[p] \in {"prune", "prune_op"}
    /\ connections' = [n \in Names |-> IF n \in gone THEN None ELSE connections[n]]
    /\ held' = [held EXCEPT ![p] = {connections[n] : n \in gone}]
    /\ Goto(p, IF pc[p] = "prune" THEN "pruned" ELSE "pruned_op")
    /\ UNCHANGED <<connecting, available, managed, lease, client, flight, seen>>

DropPruned(p) ==
    /\ pc[p] \in {"pruned", "pruned_op"}
    /\ held' = [held EXCEPT ![p] = {}]
    /\ Goto(p, IF pc[p] = "pruned" THEN "acquire" ELSE "idle")
    /\ UNCHANGED <<connections, connecting, lease, client, flight, seen>>
    /\ Reap(managed)

PermitAlways == TRUE

PermitLeft == available > 0

\* try_acquire_owned: a permit, or the capacity error.
Acquire(p) ==
    /\ pc[p] = "acquire"
    /\ IF PermitLeft
       THEN available' = available - 1 /\ Goto(p, "connecting")
       ELSE available' = available /\ Goto(p, "unlead")
    /\ UNCHANGED <<connections, connecting, managed, held, lease, client, flight, seen>>

\* SshClient::connect succeeded: the permit moves into a new wrapper.
ConnectOk(p) ==
    /\ pc[p] = "connecting"
    /\ \E c \in Conns :
         /\ Fresh(c)
         /\ managed' = [managed EXCEPT ![c] =
              [name |-> req[p].name, config |-> req[p].config, key |-> req[p].key,
               leases |-> 0, expired |-> FALSE, session |-> "up"]]
         /\ held' = [held EXCEPT ![p] = {c}]
         /\ flight' = [q \in Callers |-> IF flight[q] = c THEN None ELSE flight[q]]
         /\ seen' = [q \in Callers |-> IF seen[q] = c THEN None ELSE seen[q]]
    /\ Goto(p, "insert")
    /\ UNCHANGED <<connections, connecting, available, lease, client>>

ConnectFailLeaking(p) ==
    /\ pc[p] = "connecting"
    /\ Goto(p, "unlead")
    /\ UNCHANGED <<connections, connecting, available, managed, held, lease, client,
                   flight, seen>>

\* A refused, timed-out or unauthenticated connect gives its permit back.
ConnectFail(p) ==
    /\ pc[p] = "connecting"
    /\ available' = available + 1
    /\ Goto(p, "unlead")
    /\ UNCHANGED <<connections, connecting, managed, held, lease, client, flight, seen>>

\* An entry found at insertion wins over the candidate: an alive one in
\* connect_managed, any one in connect_with_jump_auth.
Shadowing(p) ==
    LET e == connections[req[p].name] IN
    e # None /\ (req[p].op = "jump" \/ IsAlive(e))

\* The write-locked insertion.  Its first branch drops and closes the candidate and
\* returns the entry that is there; EmptyWhileSettingUp shows it is never taken.
Insert(p) ==
    LET n == req[p].name
        e == connections[n]
        usable == Compatible(e, req[p], FALSE) IN
    /\ pc[p] = "insert"
    /\ UNCHANGED <<connecting, lease, client, seen>>
    /\ IF Shadowing(p)
       THEN /\ held' = [held EXCEPT ![p] = IF usable THEN {e} ELSE {}]
            /\ Goto(p, IF usable THEN Granted(p) ELSE "unlead")
            /\ UNCHANGED <<connections, flight>>
            /\ Reap(IF usable THEN Touch(e) ELSE managed)
       ELSE /\ \E c \in held[p] :
                 /\ connections' = [connections EXCEPT ![n] = c]
                 /\ flight' = [flight EXCEPT ![p] = c]
            /\ Goto(p, Granted(p))
            /\ UNCHANGED held
            /\ Reap(managed)

\* The wrapper becomes a ConnectionLease or a raw client clone and is dropped.
Handoff(p) ==
    /\ pc[p] \in {"handoff", "handoff_lead"}
    /\ UNCHANGED <<connections, connecting>>
    /\ held' = [held EXCEPT ![p] = {}]
    /\ \E c \in held[p] :
         IF req[p].op \in {"connect_lease", "get_lease"}
         THEN /\ lease' = [lease EXCEPT ![p] = c]
              /\ UNCHANGED client
              /\ Reap(CountLease(c, 1))
         ELSE /\ client' = [client EXCEPT ![p] = c]
              /\ UNCHANGED lease
              /\ Reap(managed)
    /\ IF pc[p] = "handoff" THEN Goto(p, "idle") /\ Forget(p)
       ELSE Goto(p, "unlead") /\ UNCHANGED <<flight, seen>>
-----------------------------------------------------------------------------
(* Handles: ConnectionLease and Arc<SshClient> *)

\* ConnectionLease::client_arc
ClientArc(p) ==
    /\ lease[p] # None /\ client[p] = None
    /\ client' = [client EXCEPT ![p] = lease[p]]
    /\ UNCHANGED <<connections, connecting, available, managed, pc, req, held, lease,
                   flight, seen>>

CloneLeaseUncounted(p, q) ==
    LET c == lease[p] IN
    /\ c # None
    /\ pc[q] = "idle" /\ lease[q] = None /\ client[q] = None
    /\ lease' = [lease EXCEPT ![q] = c]
    /\ UNCHANGED <<connections, connecting, available, managed, pc, req, held, client,
                   flight, seen>>

\* Clone of a lease, moved to another task.
CloneLease(p, q) ==
    LET c == lease[p] IN
    /\ c # None
    /\ pc[q] = "idle" /\ lease[q] = None /\ client[q] = None
    /\ managed' = CountLease(c, 1)
    /\ lease' = [lease EXCEPT ![q] = c]
    /\ UNCHANGED <<connections, connecting, available, pc, req, held, client, flight, seen>>

\* Drop of a ConnectionLease: release_lease touches, then the wrapper goes.
DropLease(p) ==
    LET c == lease[p] IN
    /\ c # None
    /\ lease' = [lease EXCEPT ![p] = None]
    /\ UNCHANGED <<connections, connecting, pc, req, held, client, flight, seen>>
    /\ Reap(CountLease(c, -1))

DropClient(p) ==
    /\ pc[p] = "idle" /\ client[p] # None
    /\ client' = [client EXCEPT ![p] = None]
    /\ UNCHANGED <<connections, connecting, available, managed, pc, req, held, lease,
                   flight, seen>>
-----------------------------------------------------------------------------
(* remove and close_all *)

\* The write-locked removal of one name, or of all of them.
Detach(p) ==
    LET which == IF pc[p] = "remove" THEN {req[p].name} ELSE Names
        out == {connections[n] : n \in which} \ {None} IN
    /\ pc[p] \in {"remove", "close_all"}
    /\ connections' = [n \in Names |-> IF n \in which THEN None ELSE connections[n]]
    /\ held' = [held EXCEPT ![p] = out]
    /\ Goto(p, IF out = {} THEN "idle" ELSE "closing")
    /\ UNCHANGED <<connecting, available, managed, lease, client, flight, seen>>

\* client.close() asks a running session loop to disconnect and fails on an ended
\* one; close_all goes on with the next connection either way.
CloseNext(p) ==
    /\ pc[p] = "closing"
    /\ UNCHANGED <<connections, connecting, lease, client, flight, seen>>
    /\ \E c \in held[p] :
         /\ held' = [held EXCEPT ![p] = @ \ {c}]
         /\ Goto(p, IF held[p] = {c} THEN "idle" ELSE "closing")
         /\ Reap(IF IsAlive(c) THEN [managed EXCEPT ![c].session = "closing"]
                 ELSE managed)
-----------------------------------------------------------------------------
(* Cancellation and the environment *)

Awaiting == Lookups \cup Evictions
            \cup {"wait", "get", "prune", "connecting", "insert", "remove",
                  "close_all", "closing", "prune_op"}

AfterCancel(p) == IF pc[p] \in LeaderPC THEN "unlead" ELSE "idle"

\* The future of a call is dropped at an await: its locals go first (a permit
\* or wrappers), the leader guard last.
Cancel(p) ==
    /\ pc[p] \in Awaiting
    /\ UNCHANGED <<connections, connecting, lease, client>>
    /\ held' = [held EXCEPT ![p] = {}]
    /\ Goto(p, AfterCancel(p))
    /\ Forget(p)
    /\ IF pc[p] = "connecting" THEN managed' = managed /\ available' = available + 1
       ELSE Reap(managed)

\* The session loop ends: network error, keepalive, server or our disconnect.
TransportDown(c) ==
    /\ managed[c] # None /\ IsAlive(c)
    /\ managed' = [managed EXCEPT ![c].session = "down"]
    /\ UNCHANGED <<connections, connecting, available, pc, req, held, lease, client,
                   flight, seen>>

\* idle_timeout passes without a touch.
IdleTimeout(c) ==
    /\ managed[c] # None /\ ~managed[c].expired
    /\ managed' = [managed EXCEPT ![c].expired = TRUE]
    /\ UNCHANGED <<connections, connecting, available, pc, req, held, lease, client,
                   flight, seen>>
-----------------------------------------------------------------------------
Start(p) == BeginConnect(p) \/ BeginGet(p) \/ BeginRemove(p) \/ BeginCloseAll(p)
            \/ BeginPrune(p)

\* What a call does by itself once it has begun.
Step(p) ==
    \/ LookupMiss(p) \/ LookupDead(p) \/ LookupHit(p) \/ LookupReject(p)
    \/ EvictDead(p) \/ GetMiss(p) \/ GetHit(p)
    \/ Claim(p) \/ Unlead(p) \/ Prune(p) \/ DropPruned(p) \/ Acquire(p)
    \/ ConnectOk(p) \/ ConnectFail(p) \/ Insert(p) \/ Handoff(p)
    \/ Detach(p) \/ CloseNext(p)

Handle(p) == \/ ClientArc(p) \/ DropLease(p) \/ DropClient(p)
             \/ \E q \in Callers : CloneLease(p, q)

Next == \/ \E p \in Callers : Start(p) \/ Step(p) \/ Handle(p) \/ Cancel(p)
        \/ \E c \in Conns : TransportDown(c) \/ IdleTimeout(c)

Spec == Init /\ [][Next]_vars

\* Locks are fair and every network phase of a connect has a timeout.
FairSpec == Spec /\ \A p \in Callers : WF_vars(Step(p))
-----------------------------------------------------------------------------
(* Properties *)

\* Every variable of the manager stays in its range; the semaphore never goes
\* negative.
TypeOK ==
    /\ connections \in [Names -> Conns \cup {None}]
    /\ connecting \in [Names -> Callers \cup {None}]
    /\ available \in Nat
    /\ managed \in [Conns -> ManagedConnection \cup {None}]
    /\ pc \in [Callers -> PC]
    /\ req \in [Callers -> Request]
    /\ held \in [Callers -> SUBSET Conns]
    /\ lease \in [Callers -> Conns \cup {None}]
    /\ client \in [Callers -> Conns \cup {None}]
    /\ flight \in [Callers -> Conns \cup {None}]
    /\ seen \in [Callers -> Conns \cup {None}]

\* Single flight: the callers past claim_connect are exactly the leaders registered
\* in `connecting`, so there is one set-up per name and no signal without an owner
\* (also after errors and cancellations).
SingleFlight ==
    /\ \A p \in Callers : pc[p] \in LeaderPC => connecting[req[p].name] = p
    /\ \A n \in Names : connecting[n] # None =>
         pc[connecting[n]] \in LeaderPC /\ req[connecting[n]].name = n

\* The name of a set-up is unbound from the leader's second lookup to its
\* insertion: no transport is ever shadowed, and the "existing" branch of the
\* insertion (and its difference between manager.rs and jump.rs) never matters.
EmptyWhileSettingUp ==
    \A p \in Callers : pc[p] \in {"prune", "pruned", "acquire", "connecting", "insert"}
                       => connections[req[p].name] = None

\* Permits in use are the wrappers that exist plus the set-ups on the network:
\* none is leaked by an error, a cancellation, an eviction or a late drop, and
\* none is returned twice.
CapacityAccounting ==
    available + Cardinality(Live)
      + Cardinality({p \in Callers : pc[p] = "connecting"}) = MaxConnections

\* A bound name, a call's local and a lease refer to a connection that exists, and
\* a name is bound only to a connection made for it.
NoDanglingReference ==
    /\ \A n \in Names : connections[n] # None =>
         managed[connections[n]] # None /\ managed[connections[n]].name = n
    /\ \A p \in Callers :
         /\ \A c \in held[p] : managed[c] # None
         /\ lease[p] # None => managed[lease[p]] # None

\* The lease counter equals the leases alive, whatever the order of clones, drops,
\* evictions and removals; so it cannot underflow (release_lease's debug_assert).
LeaseAccounting ==
    \A c \in Live : managed[c].leases = Cardinality({p \in Callers : lease[p] = c})

\* connect, connect_lease and connect_with_jump_auth hand out only a transport of
\* the requested name, configuration and authentication identity.
GrantsWhatWasAsked ==
    \A p \in Callers : pc[p] \in {"handoff", "handoff_lead"} /\ req[p].op \in ConnectOps =>
        \A c \in held[p] : /\ managed[c].name = req[p].name
                           /\ managed[c].config = req[p].config
                           /\ managed[c].key = req[p].key

\* A connect that carries a secret is never served by the transport its name was
\* already bound to when the call began.
SecretNotReused ==
    \A p \in Callers :
        pc[p] \in {"handoff", "handoff_lead"} /\ req[p].op \in ConnectOps
          /\ req[p].key = NonReusable => seen[p] \notin held[p]

\* The lookup a woken follower makes does not refuse the transport that the flight
\* it awaited produced for the same configuration and kind of authentication.
FollowerNotRefused ==
    \A p \in Callers :
        LET c == connections[req[p].name] IN
        pc[p] \in Lookups /\ req[p].op # "jump" /\ flight[p] # None /\ c = flight[p]
          /\ managed[c].config = req[p].config
          /\ NonReusablePair(managed[c].key, req[p].key)
        => Compatible(c, req[p], pc[p] = "follower")

\* A healthy transport leaves the map only by remove or close_all, or when no
\* wrapper, lease or client of it is in anyone's hands (prune_idle).
OnlyUnusedPruned ==
    [][\A n \in Names :
         LET c == connections[n] IN
         c # None /\ connections'[n] # c /\ IsAlive(c) =>
            \/ \A p \in Callers : c \notin held[p] \cup {lease[p], client[p]}
            \/ \E p \in Callers : pc[p] \in {"remove", "close_all"} /\ c \in held'[p]]_vars

(* The manager is a pool of connections, as ConnectionPool says: the names its     *)
(* map binds, the leaders between their permit and their insertion, and the        *)
(* wrappers that exist.                                                            *)
BeingMade(n) == connecting[n] # None /\ pc[connecting[n]] \in {"connecting", "insert"}

Pool == INSTANCE ConnectionPool WITH
    bound <- connections,
    maker <- [n \in Names |-> IF BeingMade(n) THEN connecting[n] ELSE None],
    dialling <- {p \in Callers : pc[p] = "connecting"},
    uses <- [p \in Callers |-> held[p] \cup ({lease[p]} \ {None})],
    live <- Live

\* Every step of the manager is a step of such a pool, or none: whatever calls,
\* cancellations and losses interleave, a name is bound anew only after it was unbound
\* and by the only caller that made a connection for it, within the limit, and a
\* wrapper is dropped with its last owner (ConnectionManager, ManagedConnection).
ImplementsPool == Pool!PoolSpec

\* A follower does not wait forever: whatever happens to its leader (success,
\* error, cancellation), the leader guard wakes it.
WaitEnds == \A p \in Callers : pc[p] = "wait" ~> pc[p] # "wait"

\* A name does not stay claimed forever.
FlightEnds == \A n \in Names : connecting[n] # None ~> connecting[n] = None
=============================================================================
