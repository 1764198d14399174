--------------------- MODULE ConnectionManagerUseProofs ---------------------
(***************************************************************************)
(* What the callers of ConnectionManager can rely on, for any number of    *)
(* them: the lease counters are exact, a connect is given the transport it *)
(* asked for, and no healthy transport is taken from the map while it is   *)
(* in use.                                                                 *)
(***************************************************************************)
EXTENDS ConnectionManagerPoolProofs

(* Leases *)

Leases(c) == {p \in Callers : lease[p] = c}

\* The step changes no lease and no counter of a wrapper that is left.
SameCounts ==
    /\ lease' = lease
    /\ \A c \in Conns : managed'[c] # None =>
         managed[c] # None /\ managed'[c].leases = managed[c].leases

\* Dropping wrappers leaves the counters of the others alone.
LEMMA ReapSameCounts ==
    ASSUME lease' = lease, Reap(managed) PROVE SameCounts
  BY DEF SameCounts, Reap

\* Writing to other fields of a wrapper leaves its counter alone.
LEMMA UpdatesKeepCounts ==
    ASSUME managed \in Wrappers, NEW c \in Conns, managed[c] # None
    PROVE  \A d \in Conns :
             /\ Touch(c)[d] # None => managed[d] # None /\ Touch(c)[d].leases = managed[d].leases
             /\ \A s \in {"closing", "down"} :
                  [managed EXCEPT ![c].session = s][d] # None =>
                    /\ managed[d] # None
                    /\ [managed EXCEPT ![c].session = s][d].leases = managed[d].leases
             /\ \A b \in BOOLEAN :
                  [managed EXCEPT ![c].expired = b][d] # None =>
                    /\ managed[d] # None
                    /\ [managed EXCEPT ![c].expired = b][d].leases = managed[d].leases
<1>1. managed[c] \in ManagedConnection
  BY DEF Wrappers
<1>2. /\ \A b \in BOOLEAN : [managed[c] EXCEPT !.expired = b].leases = managed[c].leases
      /\ \A s \in {"closing", "down"} : [managed[c] EXCEPT !.session = s].leases = managed[c].leases
  BY <1>1 DEF ManagedConnection
<1> QED
  BY <1>2 DEF Touch, Wrappers

\* Counting a lease changes the counter of its wrapper by one and no other.
LEMMA CountLeaseCounts ==
    ASSUME managed \in Wrappers, NEW c \in Conns, managed[c] # None, NEW d \in {-1, 1}
    PROVE  /\ CountLease(c, d)[c].leases = managed[c].leases + d
           /\ \A e \in Conns \ {c} : CountLease(c, d)[e] = managed[e]
<1>1. managed[c] \in ManagedConnection
  BY DEF Wrappers
<1>2. [managed[c] EXCEPT !.leases = @ + d, !.expired = FALSE].leases = managed[c].leases + d
  BY <1>1, Zenon DEF ManagedConnection
<1>3. /\ CountLease(c, d)[c] = [managed[c] EXCEPT !.leases = @ + d, !.expired = FALSE]
      /\ \A e \in Conns \ {c} : CountLease(c, d)[e] = managed[e]
  BY Zenon DEF CountLease, Wrappers
<1> QED
  BY <1>2, <1>3

\* Only a hand-over, a clone and a drop of a lease, and a new wrapper, touch the counts.
LEMMA SameCountsStep ==
    ASSUME Core, Flight, Hands, Next,
           \A p \in Callers : /\ ~ConnectOk(p) /\ ~DropLease(p) /\ ~Handoff(p)
                              /\ \A q \in Callers : ~CloneLease(p, q)
    PROVE  SameCounts
<1>b. TypeOK /\ RequestShape /\ Hands /\ Flight
  BY DEF Core
<1>w. managed \in Wrappers
  BY <1>b DEF TypeOK, Wrappers
<1>d. \A n \in Names : connections[n] # None =>
        connections[n] \in Conns /\ managed[connections[n]] # None
  BY DEF Core, TypeOK, NoDanglingReference
<1>e. \A p \in Callers : \A c \in held[p] : c \in Conns /\ managed[c] # None
  BY DEF Core, TypeOK, NoDanglingReference
<1>q. ASSUME UNCHANGED <<managed, lease>> PROVE SameCounts
  BY <1>q DEF SameCounts
<1>1. ASSUME NEW p \in Callers, LookupMiss(p) PROVE SameCounts
  BY <1>1, <1>q DEF LookupMiss
<1>2. ASSUME NEW p \in Callers, LookupDead(p) PROVE SameCounts
  BY <1>2, <1>q DEF LookupDead
<1>3. ASSUME NEW p \in Callers, LookupHit(p) PROVE SameCounts
  <2>1. PICK c \in Conns : managed[c] # None /\ managed' = Touch(c)
    BY <1>3, <1>b, <1>d DEF LookupHit, Lookups, RequestShape, Nameless
  <2> QED
    BY <1>3, <1>w, <2>1, UpdatesKeepCounts DEF LookupHit, SameCounts
<1>4. ASSUME NEW p \in Callers, LookupReject(p) PROVE SameCounts
  BY <1>4, <1>q DEF LookupReject
<1>5. ASSUME NEW p \in Callers, EvictDead(p) PROVE SameCounts
  BY <1>5, ReapSameCounts DEF EvictDead
<1>6. ASSUME NEW p \in Callers, GetMiss(p) PROVE SameCounts
  BY <1>6, <1>q DEF GetMiss
<1>7. ASSUME NEW p \in Callers, GetHit(p) PROVE SameCounts
  <2>1. PICK c \in Conns : managed[c] # None /\ managed' = Touch(c)
    BY <1>7, <1>b, <1>d DEF GetHit, Lookups, RequestShape, Nameless
  <2> QED
    BY <1>7, <1>w, <2>1, UpdatesKeepCounts DEF GetHit, SameCounts
<1>8. ASSUME NEW p \in Callers, Claim(p) PROVE SameCounts
  BY <1>8, <1>q DEF Claim
<1>9. ASSUME NEW p \in Callers, Unlead(p) PROVE SameCounts
  BY <1>9, <1>q DEF Unlead
<1>10. ASSUME NEW p \in Callers, Prune(p) PROVE SameCounts
  BY <1>10, <1>q DEF Prune
<1>11. ASSUME NEW p \in Callers, DropPruned(p) PROVE SameCounts
  BY <1>11, ReapSameCounts DEF DropPruned
<1>12. ASSUME NEW p \in Callers, Acquire(p) PROVE SameCounts
  BY <1>12, <1>q DEF Acquire
<1>13. ASSUME NEW p \in Callers, ConnectFail(p) PROVE SameCounts
  BY <1>13, <1>q DEF ConnectFail
<1>14. ASSUME NEW p \in Callers, Insert(p) PROVE SameCounts
  <2>1. pc[p] = "insert" /\ req[p].name \in Names /\ lease' = lease
    BY <1>14, <1>b DEF Insert, RequestShape, Nameless
  <2>2. ~Shadowing(p)
    BY <1>b, <2>1 DEF Shadowing, Flight, EmptyWhileSettingUp
  <2> QED
    BY <1>14, <2>1, <2>2, ReapSameCounts DEF Insert
<1>15. ASSUME NEW p \in Callers, ClientArc(p) PROVE SameCounts
  BY <1>15, <1>q DEF ClientArc
<1>16. ASSUME NEW p \in Callers, DropClient(p) PROVE SameCounts
  BY <1>16, <1>q DEF DropClient
<1>17. ASSUME NEW p \in Callers, Detach(p) PROVE SameCounts
  BY <1>17, <1>q DEF Detach
<1>18. ASSUME NEW p \in Callers, CloseNext(p) PROVE SameCounts
  <2>1. PICK c \in held[p] : Reap(IF IsAlive(c) THEN [managed EXCEPT ![c].session = "closing"]
                                  ELSE managed)
    BY <1>18, Zenon DEF CloseNext
  <2>2. lease' = lease
    BY <1>18 DEF CloseNext
  <2>3. CASE ~IsAlive(c)
    BY <2>1, <2>2, <2>3, ReapSameCounts
  <2>4. CASE IsAlive(c)
    <3> DEFINE m == [managed EXCEPT ![c].session = "closing"]
    <3>1. \A d \in Conns : m[d] # None => managed[d] # None /\ m[d].leases = managed[d].leases
      BY <1>w, <1>e, UpdatesKeepCounts
    <3>2. Reap(m)
      BY <2>1, <2>4
    <3> HIDE DEF m
    <3>3. \A d \in Conns : managed'[d] # None => managed'[d] = m[d]
      BY <3>2 DEF Reap
    <3> QED
      BY <2>2, <3>1, <3>3 DEF SameCounts
  <2> QED
    BY <2>3, <2>4
<1>19. ASSUME NEW p \in Callers, Cancel(p) PROVE SameCounts
  <2>1. lease' = lease /\ (managed' = managed \/ Reap(managed))
    BY <1>19 DEF Cancel
  <2> QED
    BY <1>q, <2>1, ReapSameCounts
<1>20. ASSUME NEW p \in Callers, Start(p) PROVE SameCounts
  BY <1>20, <1>q, Zenon DEF Start, BeginConnect, BeginGet, BeginRemove, BeginCloseAll,
       BeginPrune, Begin
<1>21. ASSUME NEW c \in Conns, TransportDown(c) PROVE SameCounts
  BY <1>21, <1>w, UpdatesKeepCounts DEF TransportDown, SameCounts
<1>22. ASSUME NEW c \in Conns, IdleTimeout(c) PROVE SameCounts
  BY <1>22, <1>w, UpdatesKeepCounts DEF IdleTimeout, SameCounts
<1> QED
  BY <1>1, <1>2, <1>3, <1>4, <1>5, <1>6, <1>7, <1>8, <1>9, <1>10, <1>11, <1>12, <1>13,
       <1>14, <1>15, <1>16, <1>17, <1>18, <1>19, <1>20, <1>21, <1>22 DEF Next, Step,
       Handle

\* The leases of a wrapper are finitely many.
LEMMA LeasesFinite ==
    ASSUME NEW c PROVE IsFiniteSet(Leases(c)) /\ Cardinality(Leases(c)) \in Nat
<1>1. Leases(c) \in SUBSET Callers
  BY DEF Leases
<1> QED
  BY <1>1, FS_Subset, FS_CardinalityType, FinitenessAssumption

\* A caller without a lease gets one of wrapper c.
LEMMA LeaseTaken ==
    ASSUME Core, LeaseAccounting, NEW p \in Callers, NEW c \in Conns, managed[c] # None,
           lease[p] = None, lease' = [lease EXCEPT ![p] = c],
           \A d \in Conns : managed'[d] # None => managed'[d] = CountLease(c, 1)[d]
    PROVE  LeaseAccounting'
<1>b. TypeOK /\ managed \in Wrappers /\ c # None
  BY NoneAssumption DEF Core, TypeOK, Wrappers
<1>x. Existing(CountLease(c, 1))
  BY <1>b, UpdatesExist
<1> SUFFICES ASSUME NEW d \in Conns, managed'[d] # None
             PROVE  managed'[d].leases = Cardinality(Leases(d)')
  BY DEF LeaseAccounting, Live, Leases
<1>1. managed[d] # None /\ managed[d].leases = Cardinality(Leases(d))
  BY <1>x DEF LeaseAccounting, Live, Leases, Existing
<1>2. CASE d = c
  <2>1. Leases(d)' = Leases(d) \cup {p} /\ p \notin Leases(d)
    BY <1>b, <1>2 DEF Leases, TypeOK
  <2>2. Cardinality(Leases(d) \cup {p}) = Cardinality(Leases(d)) + 1
    BY <2>1, LeasesFinite, FS_AddElement
  <2>3. managed'[d].leases = managed[d].leases + 1
    BY <1>b, <1>2, CountLeaseCounts
  <2> QED
    BY <1>1, <2>1, <2>2, <2>3
<1>3. CASE d # c
  <2>1. Leases(d)' = Leases(d)
    BY <1>b, <1>3, NoneAssumption DEF Leases, TypeOK
  <2> QED
    BY <1>1, <1>3, <1>b, <2>1, CountLeaseCounts
<1> QED
  BY <1>2, <1>3

\* Every step preserves the lease counts.
LEMMA LeaseStep ==
    ASSUME PoolInv, LeaseAccounting, [Next]_vars PROVE LeaseAccounting'
<1>b. Core /\ TypeOK /\ Hands /\ Flight /\ managed \in Wrappers /\ NoDanglingReference
  BY DEF PoolInv, Core, TypeOK, Wrappers
<1>1. CASE UNCHANGED vars
  BY <1>1 DEF vars, LeaseAccounting, Live
<1>2. ASSUME SameCounts PROVE LeaseAccounting'
  BY <1>2 DEF SameCounts, LeaseAccounting, Live
<1>3. ASSUME NEW p \in Callers, ConnectOk(p) PROVE LeaseAccounting'
  <2>1. PICK c \in Conns : /\ Fresh(c) /\ managed'[c].leases = 0
                           /\ \A d \in Conns \ {c} : managed'[d] = managed[d]
    BY <1>3, <1>b, NewWrapper
  <2>2. lease' = lease
    BY <1>3 DEF ConnectOk
  <2>3. {q \in Callers : lease[q] = c} = {}
    BY <1>b, <2>1, NoneAssumption DEF Fresh, NoDanglingReference
  <2>4. Cardinality({q \in Callers : lease'[q] = c}) = 0
    BY <2>2, <2>3, FS_EmptySet
  <2> QED
    BY <2>1, <2>2, <2>4 DEF LeaseAccounting, Live
<1>4. ASSUME NEW p \in Callers, NEW q \in Callers, CloneLease(p, q) PROVE LeaseAccounting'
  BY <1>4, <1>b, LeaseTaken DEF CloneLease, TypeOK, NoDanglingReference
<1>5. ASSUME NEW p \in Callers, Handoff(p) PROVE LeaseAccounting'
  <2>1. PICK c \in held[p] : \/ lease' = lease /\ Reap(managed)
                             \/ lease' = [lease EXCEPT ![p] = c] /\ Reap(CountLease(c, 1))
    BY <1>5 DEF Handoff
  <2>2. c \in Conns /\ managed[c] # None /\ lease[p] = None
    BY <1>5, <1>b DEF Handoff, Hands, TypeOK, NoDanglingReference
  <2>3. CASE lease' = lease /\ Reap(managed)
    BY <1>2, <2>3, ReapSameCounts
  <2>4. CASE lease' = [lease EXCEPT ![p] = c] /\ Reap(CountLease(c, 1))
    <3>1. \A d \in Conns : managed'[d] # None => managed'[d] = CountLease(c, 1)[d]
      BY <2>4 DEF Reap
    <3> QED
      BY <1>b, <2>2, <2>4, <3>1, LeaseTaken
  <2> QED
    BY <2>1, <2>3, <2>4
<1>6. ASSUME NEW p \in Callers, DropLease(p) PROVE LeaseAccounting'
  <2>1. PICK c \in Conns : /\ managed[c] # None /\ lease[p] = c /\ c # None
                           /\ lease' = [lease EXCEPT ![p] = None] /\ Reap(CountLease(c, -1))
    BY <1>6, <1>b DEF DropLease, TypeOK, NoDanglingReference
  <2>2. \A d \in Conns : managed'[d] # None => managed'[d] = CountLease(c, -1)[d]
    BY <2>1 DEF Reap
  <2>3. Existing(CountLease(c, -1))
    BY <1>b, <2>1, UpdatesExist
  <2> SUFFICES ASSUME NEW d \in Conns, managed'[d] # None
               PROVE  managed'[d].leases = Cardinality(Leases(d)')
    BY DEF LeaseAccounting, Live, Leases
  <2>4. managed[d] # None /\ managed[d].leases = Cardinality(Leases(d))
    BY <2>2, <2>3 DEF LeaseAccounting, Live, Leases, Existing
  <2>5. CASE d = c
    <3>1. Leases(d)' = Leases(d) \ {p} /\ p \in Leases(d)
      BY <1>b, <2>1, <2>5 DEF Leases, TypeOK
    <3>2. Cardinality(Leases(d) \ {p}) = Cardinality(Leases(d)) - 1
      BY <3>1, LeasesFinite, FS_RemoveElement
    <3>3. managed'[d].leases = managed[d].leases + (-1)
      BY <1>b, <2>1, <2>2, <2>5, CountLeaseCounts
    <3> QED
      BY <2>4, <3>1, <3>2, <3>3, LeasesFinite
  <2>6. CASE d # c
    <3>1. Leases(d)' = Leases(d)
      BY <1>b, <2>1, <2>6, NoneAssumption DEF Leases, TypeOK
    <3> QED
      BY <1>b, <2>1, <2>2, <2>4, <2>6, <3>1, CountLeaseCounts
  <2> QED
    BY <2>5, <2>6
<1> QED
  BY <1>b, <1>1, <1>2, <1>3, <1>4, <1>5, <1>6, SameCountsStep

\* Leases: a wrapper's counter is the number of its leases, whatever the order of
\* hand-overs, clones, drops, evictions and removals; release_lease cannot underflow.
THEOREM LeaseCountsExact == Spec => []LeaseAccounting
<1>1. Init => LeaseAccounting
  BY DEF Init, LeaseAccounting, Live
<1> QED
  BY <1>1, PoolInvHolds, LeaseStep, PTL DEF Spec
-----------------------------------------------------------------------------
(* What a connect is given *)

\* A call that looks a name up for get or get_lease is not a connect.
Asks == \A p \in Callers : pc[p] = "get" => req[p].op \notin ConnectOps

\* Asks is inductive relative to Core.
LEMMA AsksStep == ASSUME Core, Flight, Asks, Next PROVE Asks'
<1>b. TypeOK /\ Asks
  BY DEF Core
<1>1. ASSUME NEW p \in Callers, LookupMiss(p) PROVE Asks'
  BY <1>1, <1>b DEF LookupMiss, Goto, Lookups, Asks, TypeOK
<1>2. ASSUME NEW p \in Callers, LookupDead(p) PROVE Asks'
  BY <1>2, <1>b DEF LookupDead, Goto, Lookups, Asks, TypeOK
<1>3. ASSUME NEW p \in Callers, LookupHit(p) PROVE Asks'
  BY <1>3, <1>b DEF LookupHit, Goto, Granted, Asks, TypeOK
<1>4. ASSUME NEW p \in Callers, LookupReject(p) PROVE Asks'
  BY <1>4, <1>b DEF LookupReject, Goto, Asks, TypeOK
<1>5. ASSUME NEW p \in Callers, EvictDead(p) PROVE Asks'
  BY <1>5, <1>b DEF EvictDead, Goto, Evictions, Asks, TypeOK
<1>6. ASSUME NEW p \in Callers, GetMiss(p) PROVE Asks'
  BY <1>6, <1>b DEF GetMiss, Goto, Asks, TypeOK
<1>7. ASSUME NEW p \in Callers, GetHit(p) PROVE Asks'
  BY <1>7, <1>b DEF GetHit, Goto, Asks, TypeOK
<1>8. ASSUME NEW p \in Callers, Claim(p) PROVE Asks'
  BY <1>8, <1>b DEF Claim, Goto, LeaderStart, Asks, TypeOK
<1>9. ASSUME NEW p \in Callers, Unlead(p) PROVE Asks'
  BY <1>9, <1>b DEF Unlead, Followers, Asks, TypeOK
<1>10. ASSUME NEW p \in Callers, Prune(p) PROVE Asks'
  BY <1>10, <1>b DEF Prune, Goto, Asks, TypeOK
<1>11. ASSUME NEW p \in Callers, DropPruned(p) PROVE Asks'
  BY <1>11, <1>b DEF DropPruned, Goto, Asks, TypeOK
<1>12. ASSUME NEW p \in Callers, Acquire(p) PROVE Asks'
  BY <1>12, <1>b DEF Acquire, Goto, Asks, TypeOK
<1>13. ASSUME NEW p \in Callers, ConnectOk(p) PROVE Asks'
  BY <1>13, <1>b DEF ConnectOk, Goto, Asks, TypeOK
<1>14. ASSUME NEW p \in Callers, ConnectFail(p) PROVE Asks'
  BY <1>14, <1>b DEF ConnectFail, Goto, Asks, TypeOK
<1>15. ASSUME NEW p \in Callers, Insert(p) PROVE Asks'
  <2>1. \E l \in {"handoff_lead", "unlead"} : Goto(p, l)
    BY <1>15, InsertGoto
  <2> QED
    BY <1>b, <2>1 DEF Goto, Asks, TypeOK
<1>16. ASSUME NEW p \in Callers, Handoff(p) PROVE Asks'
  BY <1>16, <1>b DEF Handoff, Goto, Asks, TypeOK
<1>17. ASSUME NEW p \in Callers, ClientArc(p) PROVE Asks'
  BY <1>17, <1>b DEF ClientArc, Asks, TypeOK
<1>18. ASSUME NEW p \in Callers, DropLease(p) PROVE Asks'
  BY <1>18, <1>b DEF DropLease, Asks, TypeOK
<1>19. ASSUME NEW p \in Callers, DropClient(p) PROVE Asks'
  BY <1>19, <1>b DEF DropClient, Asks, TypeOK
<1>20. ASSUME NEW p \in Callers, Detach(p) PROVE Asks'
  BY <1>20, <1>b DEF Detach, Goto, Asks, TypeOK
<1>21. ASSUME NEW p \in Callers, CloseNext(p) PROVE Asks'
  BY <1>21, <1>b DEF CloseNext, Goto, Asks, TypeOK
<1>22. ASSUME NEW p \in Callers, Cancel(p) PROVE Asks'
  BY <1>22, <1>b DEF Cancel, Goto, AfterCancel, Asks, TypeOK
<1>23. ASSUME NEW p \in Callers, Start(p) PROVE Asks'
  <2>1. CASE BeginGet(p)
    <3>1. PICK op \in {"get", "get_lease"}, n \in Names :
            Begin(p, [NoRequest EXCEPT !.op = op, !.name = n], "get")
      BY <2>1, Zenon DEF BeginGet
    <3>2. [NoRequest EXCEPT !.op = op, !.name = n].op = op
      BY DEF NoRequest
    <3>3. /\ pc' = [pc EXCEPT ![p] = "get"]
          /\ req' = [req EXCEPT ![p] = [NoRequest EXCEPT !.op = op, !.name = n]]
      BY <3>1, Zenon DEF Begin
    <3>4. req'[p].op = op /\ \A q \in Callers \ {p} : req'[q] = req[q] /\ pc'[q] = pc[q]
      BY <1>b, <3>2, <3>3, Zenon DEF TypeOK
    <3> QED
      BY <1>b, <3>4 DEF Asks, ConnectOps
  <2>2. CASE ~BeginGet(p)
    <3>1. \E r : \E l \in {"lookup", "remove", "close_all", "prune_op"} : Begin(p, r, l)
      BY <1>23, <2>2, Zenon DEF Start, BeginConnect, BeginRemove, BeginCloseAll, BeginPrune
    <3> QED
      BY <1>b, <3>1 DEF Begin, Asks, TypeOK
  <2> QED
    BY <2>1, <2>2
<1>24. ASSUME NEW p \in Callers, NEW q \in Callers, CloneLease(p, q) PROVE Asks'
  BY <1>24, <1>b DEF CloneLease, Asks, TypeOK
<1>25. ASSUME NEW c \in Conns, TransportDown(c) PROVE Asks'
  BY <1>25, <1>b DEF TransportDown, Asks, TypeOK
<1>26. ASSUME NEW c \in Conns, IdleTimeout(c) PROVE Asks'
  BY <1>26, <1>b DEF IdleTimeout, Asks, TypeOK
<1> QED
  BY <1>1, <1>2, <1>3, <1>4, <1>5, <1>6, <1>7, <1>8, <1>9, <1>10, <1>11, <1>12, <1>13,
       <1>14, <1>15, <1>16, <1>17, <1>18, <1>19, <1>20, <1>21, <1>22, <1>23, <1>24,
       <1>25, <1>26 DEF Next, Step, Handle

Giving == {"insert", "handoff", "handoff_lead", "unlead"}

\* Wrapper m was made for what request r asks.
Suits(m, r) == m.name = r.name /\ m.config = r.config /\ m.key = r.key

\* A connect that is about to return, or to insert its candidate, has what it asked for.
Granting ==
    \A p \in Callers : pc[p] \in Giving /\ req[p].op \in ConnectOps =>
        \A c \in held[p] : Suits(managed[c], req[p])

\* What such a connect has after the step existed before and suits it.
Suited ==
    \A p \in Callers : pc'[p] \in Giving /\ req'[p].op \in ConnectOps =>
        \A c \in held'[p] : managed[c] # None /\ Suits(managed[c], req'[p])

\* Then it still suits: the binding of a wrapper that is owned does not change.
LEMMA SuitedSuffices ==
    ASSUME Suited, Stays, TypeOK' PROVE Granting'
  BY DEF Suited, Stays, SameBinding, Owned, Granting, Suits, TypeOK

\* A transport the lookup accepts suits the request.
LEMMA CompatibleSuits ==
    ASSUME NEW c, NEW r, NEW b, Compatible(c, r, b), managed[c].name = r.name
    PROVE  Suits(managed[c], r)
  BY DEF Compatible, CanReuseWith, NonReusablePair, Suits

\* Every step but a successful connect leaves in hand only what suits.
LEMMA SuitedStep ==
    ASSUME Core, Flight, Hands, Asks, Granting, Next, \A p \in Callers : ~ConnectOk(p)
    PROVE  Suited
<1>b. TypeOK /\ RequestShape /\ Hands /\ Flight /\ Asks /\ Granting /\ NoDanglingReference
  BY DEF Core
<1>1. ASSUME NEW p \in Callers, LookupMiss(p) PROVE Suited
  BY <1>1, <1>b DEF LookupMiss, Goto, Lookups, Suited, Granting, Giving, TypeOK,
       NoDanglingReference
<1>2. ASSUME NEW p \in Callers, LookupDead(p) PROVE Suited
  BY <1>2, <1>b DEF LookupDead, Goto, Lookups, Suited, Granting, Giving, TypeOK,
       NoDanglingReference
<1>3. ASSUME NEW p \in Callers, LookupHit(p) PROVE Suited
  <2> DEFINE c == connections[req[p].name]
  <2>1. /\ pc[p] \in Lookups /\ c # None /\ Compatible(c, req[p], pc[p] = "follower")
        /\ held' = [held EXCEPT ![p] = {c}] /\ Goto(p, Granted(p)) /\ req[p].name \in Names
    BY <1>3, <1>b DEF LookupHit, Lookups, RequestShape, Nameless
  <2>2. managed[c] # None /\ Suits(managed[c], req[p])
    BY <1>b, <2>1, CompatibleSuits DEF NoDanglingReference
  <2>3. Granted(p) # "idle"
    BY DEF Granted
  <2> HIDE DEF c
  <2>4. req' = req /\ \A q \in Callers \ {p} : pc'[q] = pc[q] /\ held'[q] = held[q]
    BY <1>b, <2>1, <2>3 DEF Goto, TypeOK
  <2> QED
    BY <1>b, <2>1, <2>2, <2>4 DEF Suited, Granting, TypeOK, NoDanglingReference
<1>4. ASSUME NEW p \in Callers, LookupReject(p) PROVE Suited
  BY <1>4, <1>b DEF LookupReject, Goto, Lookups, Hands, HoldsNone, Suited, Granting,
       Giving, TypeOK, NoDanglingReference
<1>5. ASSUME NEW p \in Callers, EvictDead(p) PROVE Suited
  BY <1>5, <1>b DEF EvictDead, Goto, Evictions, Suited, Granting, Giving, TypeOK,
       NoDanglingReference
<1>6. ASSUME NEW p \in Callers, GetMiss(p) PROVE Suited
  BY <1>6, <1>b DEF GetMiss, Goto, Suited, Granting, Giving, TypeOK, NoDanglingReference
<1>7. ASSUME NEW p \in Callers, GetHit(p) PROVE Suited
  <2>1. pc[p] = "get" /\ Goto(p, "handoff") /\ held' = [held EXCEPT ![p] = {connections[req[p].name]}]
    BY <1>7 DEF GetHit
  <2>2. req[p].op \notin ConnectOps
    BY <1>b, <2>1 DEF Asks
  <2> QED
    BY <1>b, <2>1, <2>2 DEF Goto, Suited, Granting, TypeOK, NoDanglingReference
<1>8. ASSUME NEW p \in Callers, Claim(p) PROVE Suited
  BY <1>8, <1>b DEF Claim, Goto, LeaderStart, Suited, Granting, Giving, TypeOK,
       NoDanglingReference
<1>9. ASSUME NEW p \in Callers, Unlead(p) PROVE Suited
  BY <1>9, <1>b DEF Unlead, Followers, Suited, Granting, Giving, TypeOK,
       NoDanglingReference
<1>10. ASSUME NEW p \in Callers, Prune(p) PROVE Suited
  BY <1>10, <1>b DEF Prune, Goto, Suited, Granting, Giving, TypeOK, NoDanglingReference
<1>11. ASSUME NEW p \in Callers, DropPruned(p) PROVE Suited
  BY <1>11, <1>b DEF DropPruned, Goto, Suited, Granting, Giving, TypeOK,
       NoDanglingReference
<1>12. ASSUME NEW p \in Callers, Acquire(p) PROVE Suited
  BY <1>12, <1>b DEF Acquire, Goto, Hands, HoldsNone, Suited, Granting, Giving, TypeOK,
       NoDanglingReference
<1>13. ASSUME NEW p \in Callers, ConnectFail(p) PROVE Suited
  BY <1>13, <1>b DEF ConnectFail, Goto, Hands, HoldsNone, Suited, Granting, Giving,
       TypeOK, NoDanglingReference
<1>14. ASSUME NEW p \in Callers, Insert(p) PROVE Suited
  <2>1. pc[p] = "insert" /\ req[p].name \in Names
    BY <1>14, <1>b DEF Insert, RequestShape, Nameless
  <2>2. ~Shadowing(p)
    BY <1>b, <2>1 DEF Shadowing, Flight, EmptyWhileSettingUp
  <2>3. held' = held /\ \E l \in {"handoff_lead", "unlead"} : Goto(p, l)
    BY <1>14, <2>2, InsertGoto DEF Insert
  <2> QED
    BY <1>b, <2>1, <2>3 DEF Goto, Suited, Granting, Giving, TypeOK, NoDanglingReference
<1>15. ASSUME NEW p \in Callers, Handoff(p) PROVE Suited
  BY <1>15, <1>b DEF Handoff, Goto, Suited, Granting, Giving, TypeOK,
       NoDanglingReference
<1>16. ASSUME NEW p \in Callers, ClientArc(p) PROVE Suited
  BY <1>16, <1>b DEF ClientArc, Suited, Granting, Giving, TypeOK, NoDanglingReference
<1>17. ASSUME NEW p \in Callers, DropLease(p) PROVE Suited
  BY <1>17, <1>b DEF DropLease, Suited, Granting, Giving, TypeOK, NoDanglingReference
<1>18. ASSUME NEW p \in Callers, DropClient(p) PROVE Suited
  BY <1>18, <1>b DEF DropClient, Suited, Granting, Giving, TypeOK, NoDanglingReference
<1>19. ASSUME NEW p \in Callers, Detach(p) PROVE Suited
  <2>1. \A q \in Callers \ {p} : pc'[q] = pc[q] /\ held'[q] = held[q] /\ req'[q] = req[q]
    BY <1>19, <1>b DEF Detach, Goto, TypeOK
  <2>2. pc'[p] \notin Giving
    BY <1>19, <1>b DEF Detach, Goto, Giving, TypeOK
  <2> QED
    BY <1>b, <2>1, <2>2 DEF Suited, Granting, NoDanglingReference
<1>20. ASSUME NEW p \in Callers, CloseNext(p) PROVE Suited
  BY <1>20, <1>b DEF CloseNext, Goto, Suited, Granting, Giving, TypeOK,
       NoDanglingReference
<1>21. ASSUME NEW p \in Callers, Cancel(p) PROVE Suited
  BY <1>21, <1>b DEF Cancel, Goto, AfterCancel, Suited, Granting, Giving, TypeOK,
       NoDanglingReference
<1>22. ASSUME NEW p \in Callers, Start(p) PROVE Suited
  <2>1. PICK r \in Request, l \in {"lookup", "get", "remove", "close_all", "prune_op"} :
          Begin(p, r, l)
    BY <1>22, StartShape
  <2> QED
    BY <1>b, <2>1 DEF Begin, Suited, Granting, Giving, TypeOK, NoDanglingReference
<1>23. ASSUME NEW p \in Callers, NEW q \in Callers, CloneLease(p, q) PROVE Suited
  BY <1>23, <1>b DEF CloneLease, Suited, Granting, Giving, TypeOK, NoDanglingReference
<1>24. ASSUME NEW c \in Conns, TransportDown(c) PROVE Suited
  BY <1>24, <1>b DEF TransportDown, Suited, Granting, Giving, TypeOK,
       NoDanglingReference
<1>25. ASSUME NEW c \in Conns, IdleTimeout(c) PROVE Suited
  BY <1>25, <1>b DEF IdleTimeout, Suited, Granting, Giving, TypeOK, NoDanglingReference
<1> QED
  BY <1>1, <1>2, <1>3, <1>4, <1>5, <1>6, <1>7, <1>8, <1>9, <1>10, <1>11, <1>12, <1>13,
       <1>14, <1>15, <1>16, <1>17, <1>18, <1>19, <1>20, <1>21, <1>22, <1>23, <1>24,
       <1>25 DEF Next, Step, Handle

\* Every step preserves Granting.
LEMMA GrantingStep ==
    ASSUME PoolInv, PoolInv', Asks, Granting, [Next]_vars PROVE Asks' /\ Granting'
<1>b. Core /\ TypeOK /\ TypeOK' /\ Hands /\ Flight
  BY DEF PoolInv, Core
<1>1. CASE UNCHANGED vars
  BY <1>1 DEF vars, Asks, Granting
<1>2. CASE Next /\ \A p \in Callers : ~ConnectOk(p)
  BY <1>2, <1>b, AsksStep, SuitedStep, WrapperStep, SuitedSuffices
<1>3. ASSUME Next, NEW p \in Callers, ConnectOk(p) PROVE Asks' /\ Granting'
  <2>1. PICK c \in Conns :
          /\ Fresh(c)
          /\ managed'[c].name = req[p].name /\ managed'[c].config = req[p].config
          /\ managed'[c].key = req[p].key
          /\ \A d \in Conns \ {c} : managed'[d] = managed[d]
          /\ held' = [held EXCEPT ![p] = {c}]
    BY <1>3, <1>b, NewWrapper
  <2>2. pc' = [pc EXCEPT ![p] = "insert"] /\ req' = req
    BY <1>3 DEF ConnectOk, Goto
  <2>3. \A q \in Callers : c \notin held[q]
    BY <1>b, <2>1 DEF Fresh, Core, NoDanglingReference
  <2>4. Granting'
    BY <1>b, <2>1, <2>2, <2>3 DEF Granting, Suits, TypeOK
  <2> QED
    BY <1>3, <1>b, <2>4, AsksStep
<1> QED
  BY <1>1, <1>2, <1>3

\* Reuse: whoever raced for the name, a connect is handed a transport of the name,
\* configuration and authentication identity it asked for (get_reusable_managed_inner).
THEOREM ConnectsGetWhatTheyAsked == Spec => []GrantsWhatWasAsked
<1>1. Init => Asks /\ Granting
  BY DEF Init, Asks, Granting, Giving
<1>2. Granting => GrantsWhatWasAsked
  BY DEF Granting, Giving, Suits, GrantsWhatWasAsked
<1> QED
  BY <1>1, <1>2, PoolInvHolds, GrantingStep, PTL DEF Spec
-----------------------------------------------------------------------------
(* What is taken from the map *)

\* The step takes transport c from name n as OnlyUnusedPruned allows.
Taken(n, c) ==
    \/ \A p \in Callers : c \notin held[p] \cup {lease[p], client[p]}
    \/ \E p \in Callers : pc[p] \in {"remove", "close_all"} /\ c \in held'[p]

\* No step unbinds a healthy transport but as OnlyUnusedPruned allows.
LEMMA TakenStep ==
    ASSUME Core, Flight, Next, NEW n \in Names, connections[n] # None,
           connections'[n] # connections[n], IsAlive(connections[n])
    PROVE  Taken(n, connections[n])
<1>b. TypeOK /\ RequestShape /\ Flight
  BY DEF Core
<1> DEFINE Goal == Taken(n, connections[n])
<1>1. ASSUME NEW p \in Callers, LookupMiss(p) PROVE Goal
  BY <1>1 DEF LookupMiss
<1>2. ASSUME NEW p \in Callers, LookupDead(p) PROVE Goal
  BY <1>2 DEF LookupDead
<1>3. ASSUME NEW p \in Callers, LookupHit(p) PROVE Goal
  BY <1>3 DEF LookupHit
<1>4. ASSUME NEW p \in Callers, LookupReject(p) PROVE Goal
  BY <1>4 DEF LookupReject
<1>5. ASSUME NEW p \in Callers, EvictDead(p) PROVE Goal
  <2>1. connections' = [connections EXCEPT ![req[p].name] = None]
          /\ ~IsAlive(connections[req[p].name])
    BY <1>5 DEF EvictDead
  <2>2. n # req[p].name
    BY <2>1
  <2> QED
    BY <1>b, <2>1, <2>2 DEF TypeOK
<1>6. ASSUME NEW p \in Callers, GetMiss(p) PROVE Goal
  BY <1>6 DEF GetMiss
<1>7. ASSUME NEW p \in Callers, GetHit(p) PROVE Goal
  BY <1>7 DEF GetHit
<1>8. ASSUME NEW p \in Callers, Claim(p) PROVE Goal
  BY <1>8 DEF Claim
<1>9. ASSUME NEW p \in Callers, Unlead(p) PROVE Goal
  BY <1>9 DEF Unlead
<1>10. ASSUME NEW p \in Callers, Prune(p) PROVE Goal
  <2>1. Prunable(connections[n])
    BY <1>10 DEF Prune
  <2> QED
    BY <2>1 DEF Prunable, InUse, Taken
<1>11. ASSUME NEW p \in Callers, DropPruned(p) PROVE Goal
  BY <1>11 DEF DropPruned
<1>12. ASSUME NEW p \in Callers, Acquire(p) PROVE Goal
  BY <1>12 DEF Acquire
<1>13. ASSUME NEW p \in Callers, ConnectOk(p) PROVE Goal
  BY <1>13 DEF ConnectOk
<1>14. ASSUME NEW p \in Callers, ConnectFail(p) PROVE Goal
  BY <1>14 DEF ConnectFail
<1>15. ASSUME NEW p \in Callers, Insert(p) PROVE Goal
  <2>1. req[p].name \in Names /\ connections[req[p].name] = None
    BY <1>15, <1>b DEF Insert, RequestShape, Nameless, Flight, EmptyWhileSettingUp
  <2>2. connections' = connections \/ \E c \in held[p] : connections' = [connections EXCEPT ![req[p].name] = c]
    BY <1>15, Zenon DEF Insert
  <2> QED
    BY <1>b, <2>1, <2>2 DEF TypeOK
<1>16. ASSUME NEW p \in Callers, Handoff(p) PROVE Goal
  BY <1>16 DEF Handoff
<1>17. ASSUME NEW p \in Callers, ClientArc(p) PROVE Goal
  BY <1>17 DEF ClientArc
<1>18. ASSUME NEW p \in Callers, DropLease(p) PROVE Goal
  BY <1>18 DEF DropLease
<1>19. ASSUME NEW p \in Callers, DropClient(p) PROVE Goal
  BY <1>19 DEF DropClient
<1>20. ASSUME NEW p \in Callers, Detach(p) PROVE Goal
  <2>1. PICK N \in SUBSET Names :
          /\ connections' = [m \in Names |-> IF m \in N THEN None ELSE connections[m]]
          /\ held' = [held EXCEPT ![p] = {connections[m] : m \in N} \ {None}]
    BY <1>20, <1>b, Zenon DEF Detach, RequestShape, Nameless
  <2>2. n \in N
    BY <2>1
  <2>3. connections[n] \in held'[p] /\ pc[p] \in {"remove", "close_all"}
    BY <1>20, <1>b, <2>1, <2>2 DEF Detach, TypeOK
  <2> QED
    BY <2>3 DEF Taken
<1>21. ASSUME NEW p \in Callers, CloseNext(p) PROVE Goal
  BY <1>21 DEF CloseNext
<1>22. ASSUME NEW p \in Callers, Cancel(p) PROVE Goal
  BY <1>22 DEF Cancel
<1>23. ASSUME NEW p \in Callers, Start(p) PROVE Goal
  BY <1>23, Zenon DEF Start, BeginConnect, BeginGet, BeginRemove, BeginCloseAll,
       BeginPrune, Begin
<1>24. ASSUME NEW p \in Callers, NEW q \in Callers, CloneLease(p, q) PROVE Goal
  BY <1>24 DEF CloneLease
<1>25. ASSUME NEW c \in Conns, TransportDown(c) PROVE Goal
  BY <1>25 DEF TransportDown
<1>26. ASSUME NEW c \in Conns, IdleTimeout(c) PROVE Goal
  BY <1>26 DEF IdleTimeout
<1> QED
  BY <1>1, <1>2, <1>3, <1>4, <1>5, <1>6, <1>7, <1>8, <1>9, <1>10, <1>11, <1>12, <1>13,
       <1>14, <1>15, <1>16, <1>17, <1>18, <1>19, <1>20, <1>21, <1>22, <1>23, <1>24,
       <1>25, <1>26 DEF Next, Step, Handle

\* Pruning: a healthy transport leaves the map only when remove or close_all takes it,
\* or when nobody holds its wrapper, a lease or its client (prune_idle, evict_dead).
THEOREM NothingUsedIsPruned == Spec => OnlyUnusedPruned
<1>1. ASSUME PoolInv, [Next]_vars
      PROVE  [\A n \in Names :
                LET c == connections[n] IN
                c # None /\ connections'[n] # c /\ IsAlive(c) =>
                  \/ \A p \in Callers : c \notin held[p] \cup {lease[p], client[p]}
                  \/ \E p \in Callers : pc[p] \in {"remove", "close_all"} /\ c \in held'[p]]_vars
  <2>1. CASE UNCHANGED vars
    BY <2>1
  <2>2. CASE Next
    BY <1>1, <2>2, TakenStep DEF Taken, PoolInv
  <2> QED
    BY <1>1, <2>1, <2>2
<1> QED
  BY <1>1, PoolInvHolds, PTL DEF Spec, OnlyUnusedPruned
=============================================================================
