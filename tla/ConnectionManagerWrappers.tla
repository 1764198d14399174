---------------------- MODULE ConnectionManagerWrappers ----------------------
(***************************************************************************)
(* Lemmas about the wrappers of ConnectionManager: the invariant Core that *)
(* types and ownership need together, and what one step may do to the      *)
(* wrappers that exist (they keep their binding while somebody owns them). *)
(***************************************************************************)
EXTENDS ConnectionManager, FiniteSetTheorems, TLAPS

\* Program points of a call without a name, and of one that is not a connect.
Nameless == {"idle", "closing", "close_all", "prune_op", "pruned_op"}
NotConnect == Nameless \cup {"handoff", "get", "evict_get", "remove"}

\* The arguments of a call stay those of a legal request until it ends.
RequestShape ==
    \A p \in Callers :
        /\ pc[p] \notin Nameless => req[p].name \in Names
        /\ pc[p] \notin NotConnect => /\ req[p].op \in ConnectOps
                                      /\ req[p].config \in Configs
                                      /\ req[p].key \in Keys \cup {NonReusable}

\* The candidate a leader is about to insert was made for the leader's name.
CandidateShape ==
    \A p \in Callers : pc[p] = "insert" =>
        \A c \in held[p] : managed[c].name = req[p].name

\* Types and ownership, which need each other: a wrapper may be written to only
\* while it exists, and it exists while somebody refers to it.
Core == TypeOK /\ RequestShape /\ CandidateShape /\ NoDanglingReference

Wrappers == [Conns -> ManagedConnection \cup {None}]

\* The binding of a wrapper never changes, and an ended session stays ended.
SameBinding(a, b) ==
    /\ b # None
    /\ b.name = a.name /\ b.config = a.config /\ b.key = a.key
    /\ a.session = "down" => b.session = "down"

\* m results from `managed` by updates that keep every wrapper.
Kept(m) ==
    /\ m \in Wrappers
    /\ \A c \in Conns : managed[c] # None => SameBinding(managed[c], m[c])

\* A wrapper that exists and is still owned after a step is the same one.
Stays == \A c \in Conns : managed[c] # None /\ Owned(c)' => SameBinding(managed[c], managed'[c])

\* Replacing the record of one wrapper by one with the same binding keeps them all.
LEMMA KeptUpdate ==
    ASSUME managed \in Wrappers, NEW c \in Conns, managed[c] # None,
           NEW r \in ManagedConnection, SameBinding(managed[c], r)
    PROVE  Kept([managed EXCEPT ![c] = r])
  BY DEF Wrappers, Kept, SameBinding

\* The updates the code makes keep the binding.
LEMMA UpdatesKeep ==
    ASSUME managed \in Wrappers, NEW c \in Conns, managed[c] # None
    PROVE  /\ Kept(Touch(c))
           /\ \A d \in {-1, 1} : Kept(CountLease(c, d))
           /\ Kept([managed EXCEPT ![c].session = "down"])
           /\ IsAlive(c) => Kept([managed EXCEPT ![c].session = "closing"])
           /\ \A b \in BOOLEAN : Kept([managed EXCEPT ![c].expired = b])
<1>1. managed[c] \in ManagedConnection
  BY DEF Wrappers
<1>2. \A b \in BOOLEAN : /\ [managed[c] EXCEPT !.expired = b] \in ManagedConnection
                         /\ SameBinding(managed[c], [managed[c] EXCEPT !.expired = b])
  BY <1>1, NoneAssumption DEF ManagedConnection, SameBinding
<1>3. \A s \in {"closing", "down"} :
        /\ [managed[c] EXCEPT !.session = s] \in ManagedConnection
        /\ s = "down" \/ managed[c].session # "down"
             => SameBinding(managed[c], [managed[c] EXCEPT !.session = s])
  BY <1>1, NoneAssumption DEF ManagedConnection, SameBinding
<1>4. \A d \in {-1, 1} :
        /\ [managed[c] EXCEPT !.leases = @ + d, !.expired = FALSE] \in ManagedConnection
        /\ SameBinding(managed[c], [managed[c] EXCEPT !.leases = @ + d, !.expired = FALSE])
  <2>1. \A i \in Int :
          /\ [managed[c] EXCEPT !.leases = i, !.expired = FALSE] \in ManagedConnection
          /\ SameBinding(managed[c], [managed[c] EXCEPT !.leases = i, !.expired = FALSE])
    BY <1>1, NoneAssumption, Zenon DEF ManagedConnection, SameBinding
  <2>2. \A d \in {-1, 1} : managed[c].leases + d \in Int
    BY <1>1 DEF ManagedConnection
  <2> QED
    BY <2>1, <2>2, Zenon
<1>5. Touch(c) = [managed EXCEPT ![c] = [managed[c] EXCEPT !.expired = FALSE]]
  BY DEF Touch
<1>6. \A d \in {-1, 1} : CountLease(c, d) =
        [managed EXCEPT ![c] = [managed[c] EXCEPT !.leases = @ + d, !.expired = FALSE]]
  BY Zenon DEF CountLease
<1>7. Kept(Touch(c))
  BY <1>2, <1>5, KeptUpdate, Zenon
<1>8. \A d \in {-1, 1} : Kept(CountLease(c, d))
  BY <1>4, <1>6, KeptUpdate
<1>9. Kept([managed EXCEPT ![c].session = "down"])
  BY <1>3, KeptUpdate
<1>10. IsAlive(c) => Kept([managed EXCEPT ![c].session = "closing"])
  BY <1>3, KeptUpdate DEF IsAlive
<1>11. \A b \in BOOLEAN : Kept([managed EXCEPT ![c].expired = b])
  BY <1>2, KeptUpdate, Zenon
<1> QED
  BY <1>7, <1>8, <1>9, <1>10, <1>11

\* Leaving all wrappers alone keeps them.
LEMMA KeptSelf == ASSUME managed \in Wrappers PROVE Kept(managed)
  BY DEF Kept, SameBinding

\* Dropping unreferenced wrappers after such updates.
LEMMA ReapStays ==
    ASSUME NEW m, Kept(m), Reap(m), available \in Nat
    PROVE  managed' \in Wrappers /\ available' \in Nat /\ Stays
<1> DEFINE dropped == {c \in Conns : m[c] # None /\ ~Owned(c)'}
<1>1. Cardinality(dropped) \in Nat
  BY FS_Subset, FS_CardinalityType, FinitenessAssumption
<1>2. /\ managed' = [c \in Conns |-> IF c \in dropped THEN None ELSE m[c]]
      /\ available' = available + Cardinality(dropped)
  BY DEF Reap
<1>3. available' \in Nat
  BY <1>1, <1>2
<1>4. managed' \in Wrappers
  BY <1>2 DEF Kept, Wrappers
<1>5. \A c \in Conns : Owned(c)' => managed'[c] = m[c]
  BY <1>2
<1> QED
  BY <1>3, <1>4, <1>5 DEF Kept, Stays

\* A successful connect turns one free pointer into a wrapper of the request.
LEMMA NewWrapper ==
    ASSUME Core, NEW p \in Callers, ConnectOk(p)
    PROVE  \E c \in Conns :
             /\ Fresh(c)
             /\ managed'[c] \in ManagedConnection
             /\ managed'[c].name = req[p].name /\ managed'[c].config = req[p].config
             /\ managed'[c].key = req[p].key /\ managed'[c].leases = 0
             /\ \A d \in Conns \ {c} : managed'[d] = managed[d]
             /\ managed' \in Wrappers
             /\ held' = [held EXCEPT ![p] = {c}]
             /\ flight' = [q \in Callers |-> IF flight[q] = c THEN None ELSE flight[q]]
             /\ seen' = [q \in Callers |-> IF seen[q] = c THEN None ELSE seen[q]]
<1> DEFINE new == [name |-> req[p].name, config |-> req[p].config, key |-> req[p].key,
                   leases |-> 0, expired |-> FALSE, session |-> "up"]
<1>1. /\ req[p].name \in Names /\ req[p].config \in Configs
      /\ req[p].key \in Keys \cup {NonReusable}
  BY DEF Core, RequestShape, Nameless, NotConnect, ConnectOk
<1>2. new \in ManagedConnection
  BY <1>1 DEF ManagedConnection
<1>3. managed \in Wrappers
  BY DEF Core, TypeOK, Wrappers
<1>4. PICK c \in Conns :
        /\ Fresh(c)
        /\ managed' = [managed EXCEPT ![c] = new]
        /\ held' = [held EXCEPT ![p] = {c}]
        /\ flight' = [q \in Callers |-> IF flight[q] = c THEN None ELSE flight[q]]
        /\ seen' = [q \in Callers |-> IF seen[q] = c THEN None ELSE seen[q]]
  BY Zenon DEF ConnectOk
<1>5. managed'[c] = new /\ \A d \in Conns \ {c} : managed'[d] = managed[d]
  BY <1>3, <1>4 DEF Wrappers
<1>6. managed' \in Wrappers
  BY <1>2, <1>3, <1>4 DEF Wrappers
<1>7. /\ new.name = req[p].name /\ new.config = req[p].config
      /\ new.key = req[p].key /\ new.leases = 0
  OBVIOUS
<1> HIDE DEF new
<1> QED
  BY <1>2, <1>4, <1>5, <1>6, <1>7, Zenon

\* In every step the wrappers stay well typed, permits do not go below zero, and
\* owned wrappers keep their binding.
LEMMA WrapperStep ==
    ASSUME Core, Next
    PROVE  managed' \in Wrappers /\ available' \in Nat /\ Stays
<1> DEFINE Goal == managed' \in Wrappers /\ available' \in Nat /\ Stays
<1>a. managed \in Wrappers /\ available \in Nat /\ Kept(managed)
  BY KeptSelf DEF Core, TypeOK, Wrappers
<1>b. ASSUME UNCHANGED <<managed, available>> PROVE Goal
  BY <1>a, <1>b DEF Stays, SameBinding
<1>c. ASSUME Kept(managed'), UNCHANGED available PROVE Goal
  BY <1>a, <1>c DEF Kept, Stays
<1>d. \A n \in Names : connections[n] # None =>
        connections[n] \in Conns /\ managed[connections[n]] # None
  BY DEF Core, TypeOK, NoDanglingReference
<1>e. \A p \in Callers : /\ \A c \in held[p] : c \in Conns /\ managed[c] # None
                         /\ lease[p] # None => lease[p] \in Conns /\ managed[lease[p]] # None
  BY DEF Core, TypeOK, NoDanglingReference
<1>1. ASSUME NEW p \in Callers, LookupMiss(p) PROVE Goal
  BY <1>1, <1>b DEF LookupMiss
<1>2. ASSUME NEW p \in Callers, LookupDead(p) PROVE Goal
  BY <1>2, <1>b DEF LookupDead
<1>3. ASSUME NEW p \in Callers, LookupReject(p) PROVE Goal
  BY <1>3, <1>b DEF LookupReject
<1>4. ASSUME NEW p \in Callers, GetMiss(p) PROVE Goal
  BY <1>4, <1>b DEF GetMiss
<1>5. ASSUME NEW p \in Callers, Claim(p) PROVE Goal
  BY <1>5, <1>b DEF Claim
<1>6. ASSUME NEW p \in Callers, Unlead(p) PROVE Goal
  BY <1>6, <1>b DEF Unlead
<1>7. ASSUME NEW p \in Callers, Prune(p) PROVE Goal
  BY <1>7, <1>b DEF Prune
<1>8. ASSUME NEW p \in Callers, ClientArc(p) PROVE Goal
  BY <1>8, <1>b DEF ClientArc
<1>9. ASSUME NEW p \in Callers, DropClient(p) PROVE Goal
  BY <1>9, <1>b DEF DropClient
<1>10. ASSUME NEW p \in Callers, Detach(p) PROVE Goal
  BY <1>10, <1>b DEF Detach
<1>11. ASSUME NEW p \in Callers, Start(p) PROVE Goal
  BY <1>11, <1>b, Zenon DEF Start, BeginConnect, BeginGet, BeginRemove, BeginCloseAll,
       BeginPrune, Begin
<1>12. ASSUME NEW p \in Callers, LookupHit(p) PROVE Goal
  <2>1. req[p].name \in Names
    BY <1>12 DEF Core, RequestShape, Nameless, Lookups, LookupHit
  <2> QED
    BY <1>12, <1>a, <1>c, <1>d, <2>1, UpdatesKeep, Zenon DEF LookupHit
<1>13. ASSUME NEW p \in Callers, GetHit(p) PROVE Goal
  <2>1. req[p].name \in Names
    BY <1>13 DEF Core, RequestShape, Nameless, Lookups, GetHit
  <2> QED
    BY <1>13, <1>a, <1>c, <1>d, <2>1, UpdatesKeep, Zenon DEF GetHit
<1>14. ASSUME NEW p \in Callers, EvictDead(p) PROVE Goal
  BY <1>14, <1>a, ReapStays DEF EvictDead
<1>15. ASSUME NEW p \in Callers, DropPruned(p) PROVE Goal
  BY <1>15, <1>a, ReapStays DEF DropPruned
<1>16. ASSUME NEW p \in Callers, Acquire(p) PROVE Goal
  BY <1>16, <1>a DEF Acquire, PermitLeft, Stays, SameBinding
<1>17. ASSUME NEW p \in Callers, ConnectFail(p) PROVE Goal
  BY <1>17, <1>a DEF ConnectFail, Stays, SameBinding
<1>18. ASSUME NEW p \in Callers, ConnectOk(p) PROVE Goal
  <2>1. PICK c \in Conns :
          Fresh(c) /\ managed' \in Wrappers /\ \A d \in Conns \ {c} : managed'[d] = managed[d]
    BY <1>18, NewWrapper
  <2>2. Kept(managed')
    BY <2>1 DEF Kept, SameBinding, Fresh
  <2> QED
    BY <1>18, <1>c, <2>2 DEF ConnectOk
<1>19. ASSUME NEW p \in Callers, Insert(p) PROVE Goal
  <2>1. req[p].name \in Names
    BY <1>19 DEF Core, RequestShape, Nameless, NotConnect, Insert
  <2>2. CASE Shadowing(p)
    <3>1. Kept(Touch(connections[req[p].name]))
      BY <1>a, <1>d, <2>1, <2>2, UpdatesKeep, Zenon DEF Shadowing
    <3> QED
      BY <1>19, <1>a, <2>2, <3>1, ReapStays, Zenon DEF Insert
  <2>3. CASE ~Shadowing(p)
    BY <1>19, <1>a, <2>3, ReapStays DEF Insert
  <2> QED
    BY <2>2, <2>3
<1>20. ASSUME NEW p \in Callers, Handoff(p) PROVE Goal
  <2>1. PICK c \in held[p] : Reap(managed) \/ Reap(CountLease(c, 1))
    BY <1>20 DEF Handoff
  <2>2. Kept(CountLease(c, 1))
    BY <1>a, <1>e, UpdatesKeep, Zenon
  <2> QED
    BY <1>a, <2>1, <2>2, ReapStays
<1>21. ASSUME NEW p \in Callers, DropLease(p) PROVE Goal
  <2>1. Kept(CountLease(lease[p], -1))
    BY <1>21, <1>a, <1>e, UpdatesKeep, Zenon DEF DropLease
  <2> QED
    BY <1>21, <1>a, <2>1, ReapStays DEF DropLease
<1>22. ASSUME NEW p \in Callers, NEW q \in Callers, CloneLease(p, q) PROVE Goal
  <2>1. Kept(CountLease(lease[p], 1))
    BY <1>22, <1>a, <1>e, UpdatesKeep, Zenon DEF CloneLease
  <2> QED
    BY <1>22, <1>c, <2>1 DEF CloneLease
<1>23. ASSUME NEW p \in Callers, CloseNext(p) PROVE Goal
  <2>1. PICK c \in held[p] : Reap(IF IsAlive(c) THEN [managed EXCEPT ![c].session = "closing"]
                                  ELSE managed)
    BY <1>23, Zenon DEF CloseNext
  <2>2. IsAlive(c) => Kept([managed EXCEPT ![c].session = "closing"])
    BY <1>a, <1>e, UpdatesKeep, Zenon
  <2> QED
    BY <1>a, <2>1, <2>2, ReapStays
<1>24. ASSUME NEW p \in Callers, Cancel(p) PROVE Goal
  <2>1. CASE pc[p] = "connecting"
    BY <1>24, <1>a, <2>1 DEF Cancel, Stays, SameBinding
  <2>2. CASE pc[p] # "connecting"
    BY <1>24, <1>a, <2>2, ReapStays DEF Cancel
  <2> QED
    BY <2>1, <2>2
<1>25. ASSUME NEW c \in Conns, TransportDown(c) PROVE Goal
  BY <1>25, <1>a, <1>c, UpdatesKeep, Zenon DEF TransportDown
<1>26. ASSUME NEW c \in Conns, IdleTimeout(c) PROVE Goal
  BY <1>26, <1>a, <1>c, UpdatesKeep, Zenon DEF IdleTimeout
<1> QED
  BY <1>1, <1>2, <1>3, <1>4, <1>5, <1>6, <1>7, <1>8, <1>9, <1>10, <1>11, <1>12, <1>13,
       <1>14, <1>15, <1>16, <1>17, <1>18, <1>19, <1>20, <1>21, <1>22, <1>23, <1>24,
       <1>25, <1>26 DEF Next, Step, Handle
=============================================================================
