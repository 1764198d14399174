-------------------- MODULE ConnectionManagerFlightProofs --------------------
(***************************************************************************)
(* Single flight and what it is good for, for any number of callers, names *)
(* and connections: at most one set-up per name, and the name stays        *)
(* unbound from the leader's second lookup to its insertion.               *)
(***************************************************************************)
EXTENDS ConnectionManagerProofs

\* The step does not change who leads for which name.
SameLeaders ==
    /\ UNCHANGED connecting
    /\ \A p \in Callers : /\ pc'[p] \in LeaderPC <=> pc[p] \in LeaderPC
                          /\ pc[p] \in LeaderPC => req'[p] = req[p]

\* A step that leaves the leaders and the claims alone keeps the single flight.
LEMMA SameLeadersSuffice ==
    ASSUME TypeOK, SingleFlight, SameLeaders PROVE SingleFlight'
  BY NoneAssumption DEF TypeOK, SingleFlight, SameLeaders

\* Only claiming a name and dropping the leader guard change the leaders.
LEMMA SameLeadersStep ==
    ASSUME Core, Next, \A p \in Callers : ~Claim(p) /\ ~Unlead(p) PROVE SameLeaders
<1>b. TypeOK
  BY DEF Core
<1>1. ASSUME NEW p \in Callers, LookupMiss(p) PROVE SameLeaders
  BY <1>1, <1>b DEF LookupMiss, Goto, SameLeaders, TypeOK, Lookups, LeaderPC
<1>2. ASSUME NEW p \in Callers, LookupDead(p) PROVE SameLeaders
  BY <1>2, <1>b DEF LookupDead, Goto, SameLeaders, TypeOK, Lookups, LeaderPC
<1>3. ASSUME NEW p \in Callers, LookupHit(p) PROVE SameLeaders
  BY <1>3, <1>b DEF LookupHit, Goto, Granted, SameLeaders, TypeOK, Lookups, LeaderPC
<1>4. ASSUME NEW p \in Callers, LookupReject(p) PROVE SameLeaders
  BY <1>4, <1>b DEF LookupReject, Goto, SameLeaders, TypeOK, Lookups, LeaderPC
<1>5. ASSUME NEW p \in Callers, EvictDead(p) PROVE SameLeaders
  BY <1>5, <1>b DEF EvictDead, Goto, SameLeaders, TypeOK, Evictions, LeaderPC
<1>6. ASSUME NEW p \in Callers, GetMiss(p) PROVE SameLeaders
  BY <1>6, <1>b DEF GetMiss, Goto, SameLeaders, TypeOK, LeaderPC
<1>7. ASSUME NEW p \in Callers, GetHit(p) PROVE SameLeaders
  BY <1>7, <1>b DEF GetHit, Goto, SameLeaders, TypeOK, LeaderPC
<1>8. ASSUME NEW p \in Callers, Prune(p) PROVE SameLeaders
  BY <1>8, <1>b DEF Prune, Goto, SameLeaders, TypeOK, LeaderPC
<1>9. ASSUME NEW p \in Callers, DropPruned(p) PROVE SameLeaders
  BY <1>9, <1>b DEF DropPruned, Goto, SameLeaders, TypeOK, LeaderPC
<1>10. ASSUME NEW p \in Callers, Acquire(p) PROVE SameLeaders
  BY <1>10, <1>b DEF Acquire, Goto, SameLeaders, TypeOK, LeaderPC
<1>11. ASSUME NEW p \in Callers, ConnectOk(p) PROVE SameLeaders
  BY <1>11, <1>b DEF ConnectOk, Goto, SameLeaders, TypeOK, LeaderPC
<1>12. ASSUME NEW p \in Callers, ConnectFail(p) PROVE SameLeaders
  BY <1>12, <1>b DEF ConnectFail, Goto, SameLeaders, TypeOK, LeaderPC
<1>13. ASSUME NEW p \in Callers, Insert(p) PROVE SameLeaders
  <2>1. pc[p] = "insert" /\ \E l \in {"handoff_lead", "unlead"} : Goto(p, l)
    BY <1>13, InsertGoto
  <2>2. UNCHANGED connecting
    BY <1>13, Zenon DEF Insert
  <2> QED
    BY <1>b, <2>1, <2>2 DEF Goto, SameLeaders, TypeOK, LeaderPC
<1>14. ASSUME NEW p \in Callers, Handoff(p) PROVE SameLeaders
  BY <1>14, <1>b DEF Handoff, Goto, SameLeaders, TypeOK, LeaderPC
<1>15. ASSUME NEW p \in Callers, ClientArc(p) PROVE SameLeaders
  BY <1>15, <1>b DEF ClientArc, SameLeaders, TypeOK
<1>16. ASSUME NEW p \in Callers, DropLease(p) PROVE SameLeaders
  BY <1>16, <1>b DEF DropLease, SameLeaders, TypeOK
<1>17. ASSUME NEW p \in Callers, DropClient(p) PROVE SameLeaders
  BY <1>17, <1>b DEF DropClient, SameLeaders, TypeOK
<1>18. ASSUME NEW p \in Callers, Detach(p) PROVE SameLeaders
  BY <1>18, <1>b DEF Detach, Goto, SameLeaders, TypeOK, LeaderPC
<1>19. ASSUME NEW p \in Callers, CloseNext(p) PROVE SameLeaders
  BY <1>19, <1>b DEF CloseNext, Goto, SameLeaders, TypeOK, LeaderPC
<1>20. ASSUME NEW p \in Callers, Cancel(p) PROVE SameLeaders
  BY <1>20, <1>b DEF Cancel, Goto, AfterCancel, SameLeaders, TypeOK, Awaiting, Lookups,
       Evictions, LeaderPC
<1>21. ASSUME NEW p \in Callers, Start(p) PROVE SameLeaders
  <2>1. PICK r \in Request, l \in {"lookup", "get", "remove", "close_all", "prune_op"} :
          Begin(p, r, l)
    BY <1>21, StartShape
  <2> QED
    BY <1>b, <2>1 DEF Begin, SameLeaders, TypeOK, LeaderPC
<1>22. ASSUME NEW p \in Callers, NEW q \in Callers, CloneLease(p, q) PROVE SameLeaders
  BY <1>22, <1>b DEF CloneLease, SameLeaders, TypeOK
<1>23. ASSUME NEW c \in Conns, TransportDown(c) PROVE SameLeaders
  BY <1>23, <1>b DEF TransportDown, SameLeaders, TypeOK
<1>24. ASSUME NEW c \in Conns, IdleTimeout(c) PROVE SameLeaders
  BY <1>24, <1>b DEF IdleTimeout, SameLeaders, TypeOK
<1> QED
  BY <1>1, <1>2, <1>3, <1>4, <1>5, <1>6, <1>7, <1>8, <1>9, <1>10, <1>11, <1>12, <1>13,
       <1>14, <1>15, <1>16, <1>17, <1>18, <1>19, <1>20, <1>21, <1>22, <1>23, <1>24
       DEF Next, Step, Handle

\* SingleFlight is inductive relative to Core.
LEMMA SingleFlightStep == ASSUME Core, SingleFlight, [Next]_vars PROVE SingleFlight'
<1>b. TypeOK /\ RequestShape
  BY DEF Core
<1>1. CASE UNCHANGED vars
  BY <1>1 DEF vars, SingleFlight
<1>2. CASE Next /\ \A p \in Callers : ~Claim(p) /\ ~Unlead(p)
  BY <1>2, <1>b, SameLeadersStep, SameLeadersSuffice
<1>3. ASSUME NEW p \in Callers, Claim(p) PROVE SingleFlight'
  <2>1. req[p].name \in Names /\ req' = req /\ pc[p] = "claim"
    BY <1>3, <1>b DEF Claim, Goto, LeaderStart, RequestShape, Nameless
  <2>2. CASE Unclaimed(req[p].name)
    <3>1. /\ connecting' = [connecting EXCEPT ![req[p].name] = p]
          /\ pc' = [pc EXCEPT ![p] = "relookup"]
      BY <1>3, <2>2 DEF Claim, Goto, LeaderStart
    <3> QED
      BY <1>b, <2>1, <2>2, <3>1, NoneAssumption DEF TypeOK, SingleFlight, Unclaimed,
           LeaderPC
  <2>3. CASE ~Unclaimed(req[p].name)
    <3>1. connecting' = connecting /\ pc' = [pc EXCEPT ![p] = "wait"]
      BY <1>3, <2>3 DEF Claim, Goto
    <3> QED
      BY <1>b, <2>1, <3>1, NoneAssumption DEF TypeOK, SingleFlight, LeaderPC
  <2> QED
    BY <2>2, <2>3
<1>4. ASSUME NEW p \in Callers, Unlead(p) PROVE SingleFlight'
  <2>1. req[p].name \in Names /\ pc[p] = "unlead" /\ connecting[req[p].name] = p
    BY <1>4, <1>b DEF Unlead, RequestShape, Nameless, LeaderPC, SingleFlight
  <2>2. connecting' = [connecting EXCEPT ![req[p].name] = None]
    BY <1>4, <2>1 DEF Unlead
  <2>3. /\ pc'[p] \notin LeaderPC
        /\ \A q \in Callers \ {p} :
             /\ req'[q] = req[q]
             /\ pc'[q] = pc[q] \/ (pc[q] = "wait" /\ pc'[q] \in {"lookup", "follower"})
    BY <1>4, <1>b DEF Unlead, Followers, LeaderPC, TypeOK
  <2> QED
    BY <1>b, <2>1, <2>2, <2>3, NoneAssumption DEF TypeOK, SingleFlight, LeaderPC
<1> QED
  BY <1>1, <1>2, <1>3, <1>4

\* Single flight: whatever fails or is cancelled, a name has at most one set-up, and
\* a registered signal always has the leader that will fire it.
THEOREM SingleFlightHolds == Spec => []SingleFlight
<1>1. Init => SingleFlight
  BY NoneAssumption DEF Init, SingleFlight, LeaderPC
<1> QED
  BY <1>1, CoreHolds, SingleFlightStep, PTL DEF Spec
-----------------------------------------------------------------------------
SettingUp == {"prune", "pruned", "acquire", "connecting", "insert"}

\* A leader about to evict holds a dead transport, and nothing else is bound.
EvictingLeader ==
    \A p \in Callers : pc[p] = "evict_leader" =>
        \E c \in Conns : /\ held[p] = {c} /\ managed[c].session = "down"
                         /\ connections[req[p].name] \in {None, c}

Flight == SingleFlight /\ EmptyWhileSettingUp /\ EvictingLeader

\* Nothing but an insertion binds a name.
OnlyUnbinds == \A n \in Names : connections'[n] \in {connections[n], None}

\* Set-up is entered with the name unbound; a leader decides to evict only the
\* dead transport that the name is bound to.
EntersClean ==
    \A p \in Callers :
        /\ pc'[p] \in SettingUp =>
             req'[p] = req[p] /\ (pc[p] \in SettingUp \/ connections'[req[p].name] = None)
        /\ pc'[p] = "evict_leader" =>
             /\ req'[p] = req[p]
             /\ \/ pc[p] = "evict_leader" /\ held'[p] = held[p]
                \/ /\ held'[p] = {connections[req[p].name]}
                   /\ connections[req[p].name] \in Conns
                   /\ managed[connections[req[p].name]].session = "down"
                   /\ managed[connections[req[p].name]] # None
                   /\ connections' = connections

\* Every step but an insertion leaves each name bound as it was or unbinds it.
LEMMA OnlyUnbindsStep ==
    ASSUME Core, Next, \A p \in Callers : ~Insert(p) PROVE OnlyUnbinds
<1>b. TypeOK
  BY DEF Core
<1>1. ASSUME NEW p \in Callers, LookupMiss(p) PROVE OnlyUnbinds
  BY <1>1, <1>b DEF LookupMiss, OnlyUnbinds, TypeOK
<1>2. ASSUME NEW p \in Callers, LookupDead(p) PROVE OnlyUnbinds
  BY <1>2, <1>b DEF LookupDead, OnlyUnbinds, TypeOK
<1>3. ASSUME NEW p \in Callers, LookupHit(p) PROVE OnlyUnbinds
  BY <1>3, <1>b DEF LookupHit, OnlyUnbinds, TypeOK
<1>4. ASSUME NEW p \in Callers, LookupReject(p) PROVE OnlyUnbinds
  BY <1>4, <1>b DEF LookupReject, OnlyUnbinds, TypeOK
<1>5. ASSUME NEW p \in Callers, EvictDead(p) PROVE OnlyUnbinds
  BY <1>5, <1>b DEF EvictDead, OnlyUnbinds, TypeOK
<1>6. ASSUME NEW p \in Callers, GetMiss(p) PROVE OnlyUnbinds
  BY <1>6, <1>b DEF GetMiss, OnlyUnbinds, TypeOK
<1>7. ASSUME NEW p \in Callers, GetHit(p) PROVE OnlyUnbinds
  BY <1>7, <1>b DEF GetHit, OnlyUnbinds, TypeOK
<1>8. ASSUME NEW p \in Callers, Claim(p) PROVE OnlyUnbinds
  BY <1>8, <1>b DEF Claim, OnlyUnbinds, TypeOK
<1>9. ASSUME NEW p \in Callers, Unlead(p) PROVE OnlyUnbinds
  BY <1>9, <1>b DEF Unlead, OnlyUnbinds, TypeOK
<1>10. ASSUME NEW p \in Callers, Prune(p) PROVE OnlyUnbinds
  BY <1>10, <1>b DEF Prune, OnlyUnbinds, TypeOK
<1>11. ASSUME NEW p \in Callers, DropPruned(p) PROVE OnlyUnbinds
  BY <1>11, <1>b DEF DropPruned, OnlyUnbinds, TypeOK
<1>12. ASSUME NEW p \in Callers, Acquire(p) PROVE OnlyUnbinds
  BY <1>12, <1>b DEF Acquire, OnlyUnbinds, TypeOK
<1>13. ASSUME NEW p \in Callers, ConnectOk(p) PROVE OnlyUnbinds
  BY <1>13, <1>b DEF ConnectOk, OnlyUnbinds, TypeOK
<1>14. ASSUME NEW p \in Callers, ConnectFail(p) PROVE OnlyUnbinds
  BY <1>14, <1>b DEF ConnectFail, OnlyUnbinds, TypeOK
<1>15. ASSUME NEW p \in Callers, Handoff(p) PROVE OnlyUnbinds
  BY <1>15, <1>b DEF Handoff, OnlyUnbinds, TypeOK
<1>16. ASSUME NEW p \in Callers, ClientArc(p) PROVE OnlyUnbinds
  BY <1>16, <1>b DEF ClientArc, OnlyUnbinds, TypeOK
<1>17. ASSUME NEW p \in Callers, DropLease(p) PROVE OnlyUnbinds
  BY <1>17, <1>b DEF DropLease, OnlyUnbinds, TypeOK
<1>18. ASSUME NEW p \in Callers, DropClient(p) PROVE OnlyUnbinds
  BY <1>18, <1>b DEF DropClient, OnlyUnbinds, TypeOK
<1>19. ASSUME NEW p \in Callers, Detach(p) PROVE OnlyUnbinds
  BY <1>19, <1>b DEF Detach, OnlyUnbinds, TypeOK
<1>20. ASSUME NEW p \in Callers, CloseNext(p) PROVE OnlyUnbinds
  BY <1>20, <1>b DEF CloseNext, OnlyUnbinds, TypeOK
<1>21. ASSUME NEW p \in Callers, Cancel(p) PROVE OnlyUnbinds
  BY <1>21, <1>b DEF Cancel, OnlyUnbinds, TypeOK
<1>22. ASSUME NEW p \in Callers, Start(p) PROVE OnlyUnbinds
  BY <1>22, <1>b, Zenon DEF Start, BeginConnect, BeginGet, BeginRemove, BeginCloseAll,
       BeginPrune, Begin, OnlyUnbinds, TypeOK
<1>23. ASSUME NEW p \in Callers, NEW q \in Callers, CloneLease(p, q) PROVE OnlyUnbinds
  BY <1>23, <1>b DEF CloneLease, OnlyUnbinds, TypeOK
<1>24. ASSUME NEW c \in Conns, TransportDown(c) PROVE OnlyUnbinds
  BY <1>24, <1>b DEF TransportDown, OnlyUnbinds, TypeOK
<1>25. ASSUME NEW c \in Conns, IdleTimeout(c) PROVE OnlyUnbinds
  BY <1>25, <1>b DEF IdleTimeout, OnlyUnbinds, TypeOK
<1> QED
  BY <1>1, <1>2, <1>3, <1>4, <1>5, <1>6, <1>7, <1>8, <1>9, <1>10, <1>11, <1>12, <1>13,
       <1>14, <1>15, <1>16, <1>17, <1>18, <1>19, <1>20, <1>21, <1>22, <1>23, <1>24,
       <1>25 DEF Next, Step, Handle

\* Every step enters set-up, and the eviction by a leader, as EntersClean says.
LEMMA EntersCleanStep == ASSUME Core, Flight, Next PROVE EntersClean
<1>b. TypeOK /\ RequestShape /\ NoDanglingReference
  BY DEF Core
<1>1. ASSUME NEW p \in Callers, LookupMiss(p) PROVE EntersClean
  BY <1>1, <1>b DEF LookupMiss, Goto, EntersClean, SettingUp, TypeOK, Lookups
<1>2. ASSUME NEW p \in Callers, LookupDead(p) PROVE EntersClean
  BY <1>2, <1>b DEF LookupDead, Goto, IsAlive, NoDanglingReference, EntersClean,
       SettingUp, TypeOK, Lookups, RequestShape, Nameless
<1>3. ASSUME NEW p \in Callers, LookupHit(p) PROVE EntersClean
  BY <1>3, <1>b DEF LookupHit, Goto, Granted, EntersClean, SettingUp, TypeOK, Lookups
<1>4. ASSUME NEW p \in Callers, LookupReject(p) PROVE EntersClean
  BY <1>4, <1>b DEF LookupReject, Goto, EntersClean, SettingUp, TypeOK, Lookups
<1>5. ASSUME NEW p \in Callers, EvictDead(p) PROVE EntersClean
  BY <1>5, <1>b DEF EvictDead, Goto, IsAlive, Flight, EvictingLeader, EntersClean,
       SettingUp, TypeOK, RequestShape, Nameless, Evictions
<1>6. ASSUME NEW p \in Callers, GetMiss(p) PROVE EntersClean
  BY <1>6, <1>b DEF GetMiss, Goto, EntersClean, SettingUp, TypeOK
<1>7. ASSUME NEW p \in Callers, GetHit(p) PROVE EntersClean
  BY <1>7, <1>b DEF GetHit, Goto, EntersClean, SettingUp, TypeOK
<1>8. ASSUME NEW p \in Callers, Claim(p) PROVE EntersClean
  BY <1>8, <1>b DEF Claim, Goto, LeaderStart, EntersClean, SettingUp, TypeOK
<1>9. ASSUME NEW p \in Callers, Unlead(p) PROVE EntersClean
  BY <1>9, <1>b DEF Unlead, Followers, EntersClean, SettingUp, TypeOK
<1>10. ASSUME NEW p \in Callers, Prune(p) PROVE EntersClean
  BY <1>10, <1>b DEF Prune, Goto, EntersClean, SettingUp, TypeOK
<1>11. ASSUME NEW p \in Callers, DropPruned(p) PROVE EntersClean
  BY <1>11, <1>b DEF DropPruned, Goto, EntersClean, SettingUp, TypeOK
<1>12. ASSUME NEW p \in Callers, Acquire(p) PROVE EntersClean
  BY <1>12, <1>b DEF Acquire, Goto, EntersClean, SettingUp, TypeOK
<1>13. ASSUME NEW p \in Callers, ConnectOk(p) PROVE EntersClean
  BY <1>13, <1>b DEF ConnectOk, Goto, EntersClean, SettingUp, TypeOK
<1>14. ASSUME NEW p \in Callers, ConnectFail(p) PROVE EntersClean
  BY <1>14, <1>b DEF ConnectFail, Goto, EntersClean, SettingUp, TypeOK
<1>15. ASSUME NEW p \in Callers, Insert(p) PROVE EntersClean
  <2>1. \E l \in {"handoff_lead", "unlead"} : Goto(p, l)
    BY <1>15, InsertGoto
  <2>2. \A q \in Callers \ {p} : held'[q] = held[q]
    BY <1>15, <1>b, Zenon DEF Insert, TypeOK
  <2> QED
    BY <1>b, <2>1, <2>2 DEF Goto, EntersClean, SettingUp, TypeOK
<1>16. ASSUME NEW p \in Callers, Handoff(p) PROVE EntersClean
  BY <1>16, <1>b DEF Handoff, Goto, EntersClean, SettingUp, TypeOK
<1>17. ASSUME NEW p \in Callers, ClientArc(p) PROVE EntersClean
  BY <1>17, <1>b DEF ClientArc, EntersClean, SettingUp, TypeOK
<1>18. ASSUME NEW p \in Callers, DropLease(p) PROVE EntersClean
  BY <1>18, <1>b DEF DropLease, EntersClean, SettingUp, TypeOK
<1>19. ASSUME NEW p \in Callers, DropClient(p) PROVE EntersClean
  BY <1>19, <1>b DEF DropClient, EntersClean, SettingUp, TypeOK
<1>20. ASSUME NEW p \in Callers, Detach(p) PROVE EntersClean
  BY <1>20, <1>b DEF Detach, Goto, EntersClean, SettingUp, TypeOK
<1>21. ASSUME NEW p \in Callers, CloseNext(p) PROVE EntersClean
  BY <1>21, <1>b DEF CloseNext, Goto, EntersClean, SettingUp, TypeOK
<1>22. ASSUME NEW p \in Callers, Cancel(p) PROVE EntersClean
  BY <1>22, <1>b DEF Cancel, Goto, AfterCancel, EntersClean, SettingUp, TypeOK
<1>23. ASSUME NEW p \in Callers, Start(p) PROVE EntersClean
  <2>1. PICK r \in Request, l \in {"lookup", "get", "remove", "close_all", "prune_op"} :
          Begin(p, r, l)
    BY <1>23, StartShape
  <2> QED
    BY <1>b, <2>1 DEF Begin, EntersClean, SettingUp, TypeOK
<1>24. ASSUME NEW p \in Callers, NEW q \in Callers, CloneLease(p, q) PROVE EntersClean
  BY <1>24, <1>b DEF CloneLease, EntersClean, SettingUp, TypeOK
<1>25. ASSUME NEW c \in Conns, TransportDown(c) PROVE EntersClean
  BY <1>25, <1>b DEF TransportDown, EntersClean, SettingUp, TypeOK
<1>26. ASSUME NEW c \in Conns, IdleTimeout(c) PROVE EntersClean
  BY <1>26, <1>b DEF IdleTimeout, EntersClean, SettingUp, TypeOK
<1> QED
  BY <1>1, <1>2, <1>3, <1>4, <1>5, <1>6, <1>7, <1>8, <1>9, <1>10, <1>11, <1>12, <1>13,
       <1>14, <1>15, <1>16, <1>17, <1>18, <1>19, <1>20, <1>21, <1>22, <1>23, <1>24,
       <1>25, <1>26 DEF Next, Step, Handle

\* The insertion binds the leader's own name, which nobody else is setting up.
LEMMA InsertElsewhere ==
    ASSUME Core, Flight, NEW p \in Callers, Insert(p),
           NEW q \in Callers, q # p, pc[q] \in LeaderPC
    PROVE  connections'[req[q].name] = connections[req[q].name]
<1>1. req[p].name \in Names /\ req[q].name \in Names /\ pc[p] \in LeaderPC
  BY DEF Core, Insert, RequestShape, Nameless, LeaderPC
<1>2. req[p].name # req[q].name
  BY <1>1 DEF Flight, SingleFlight
<1>3. UNCHANGED connections \/ \E c \in held[p] : connections' = [connections EXCEPT ![req[p].name] = c]
  BY Zenon DEF Insert
<1> QED
  BY <1>1, <1>2, <1>3 DEF Core, TypeOK

\* An inserting leader is past its set-up.
LEMMA InsertLeaves ==
    ASSUME Core, NEW p \in Callers, Insert(p)
    PROVE  pc'[p] \notin SettingUp \cup {"evict_leader"}
<1>1. \E l \in {"handoff_lead", "unlead"} : Goto(p, l)
  BY InsertGoto
<1> QED
  BY <1>1 DEF Core, TypeOK, Goto, SettingUp

\* Every step preserves Flight: one leader a name, who sets up an unbound name.
LEMMA FlightStep == ASSUME Core, Flight, [Next]_vars PROVE Flight'
<1>b. TypeOK /\ RequestShape /\ TypeOK' /\ NoDanglingReference
  BY CoreStep DEF Core
<1>c. SingleFlight'
  BY SingleFlightStep DEF Flight
<1>1. CASE UNCHANGED vars
  BY <1>1 DEF vars, Flight, SingleFlight, EmptyWhileSettingUp, EvictingLeader
<1>2. CASE Next
  <2>1. EntersClean /\ Stays
    BY <1>2, EntersCleanStep, WrapperStep
  <2>2. ASSUME NEW q \in Callers, pc[q] \in SettingUp \cup {"evict_leader"},
               pc'[q] \in SettingUp \cup {"evict_leader"}
        PROVE  connections'[req[q].name] \in {connections[req[q].name], None}
    <3>1. pc[q] \in LeaderPC /\ req[q].name \in Names
      BY <1>b, <2>2 DEF SettingUp, LeaderPC, RequestShape, Nameless
    <3>2. CASE \A p \in Callers : ~Insert(p)
      BY <1>2, <3>1, <3>2, OnlyUnbindsStep DEF OnlyUnbinds
    <3>3. ASSUME NEW p \in Callers, Insert(p)
          PROVE  connections'[req[q].name] \in {connections[req[q].name], None}
      BY <2>2, <3>1, <3>3, InsertElsewhere, InsertLeaves
    <3> QED
      BY <3>2, <3>3
  <2>3. EmptyWhileSettingUp'
    <3> SUFFICES ASSUME NEW p \in Callers, pc'[p] \in SettingUp
                 PROVE  connections'[req'[p].name] = None
      BY DEF EmptyWhileSettingUp, SettingUp
    <3>1. CASE pc[p] \in SettingUp
      BY <2>1, <2>2, <3>1 DEF EntersClean, Flight, EmptyWhileSettingUp, SettingUp
    <3> QED
      BY <2>1, <3>1 DEF EntersClean
  <2>4. EvictingLeader'
    <3> SUFFICES ASSUME NEW p \in Callers, pc'[p] = "evict_leader"
                 PROVE  \E c \in Conns : /\ held'[p] = {c} /\ managed'[c].session = "down"
                                         /\ connections'[req'[p].name] \in {None, c}
      BY DEF EvictingLeader
    <3>1. \A c \in Conns : managed[c] # None /\ c \in held'[p] /\ managed[c].session = "down"
                           => managed'[c].session = "down"
      BY <2>1 DEF Stays, SameBinding, Owned
    <3>2. CASE pc[p] = "evict_leader" /\ held'[p] = held[p]
      <4>1. PICK c \in Conns : /\ held[p] = {c} /\ managed[c].session = "down"
                               /\ connections[req[p].name] \in {None, c}
        BY <3>2 DEF Flight, EvictingLeader
      <4>2. managed[c] # None
        BY <1>b, <4>1 DEF NoDanglingReference
      <4> QED
        BY <2>1, <2>2, <3>1, <3>2, <4>1, <4>2 DEF EntersClean
    <3>3. CASE ~(pc[p] = "evict_leader" /\ held'[p] = held[p])
      <4> DEFINE c == connections[req[p].name]
      <4>1. /\ req'[p] = req[p] /\ held'[p] = {c} /\ c \in Conns
            /\ managed[c].session = "down" /\ managed[c] # None
            /\ connections'[req[p].name] = c
        BY <2>1, <3>3 DEF EntersClean
      <4> HIDE DEF c
      <4> QED
        BY <3>1, <4>1
    <3> QED
      BY <3>2, <3>3
  <2> QED
    BY <1>c, <2>3, <2>4 DEF Flight
<1> QED
  BY <1>1, <1>2

\* While a leader sets up a transport its name stays unbound, so the insertion never
\* finds an entry (the branch on which connect_managed and connect_with_jump_auth differ).
THEOREM SetupsDoNotCollide == Spec => []EmptyWhileSettingUp
<1>1. Init => Flight
  BY NoneAssumption DEF Init, Flight, SingleFlight, EmptyWhileSettingUp, EvictingLeader,
       LeaderPC
<1>2. Flight => EmptyWhileSettingUp
  BY DEF Flight
<1> QED
  BY <1>1, <1>2, CoreHolds, FlightStep, PTL DEF Spec
=============================================================================
