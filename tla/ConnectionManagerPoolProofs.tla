-------------------- MODULE ConnectionManagerPoolProofs --------------------
(***************************************************************************)
(* ConnectionManager implements ConnectionPool, and counts its permits and *)
(* leases right, for any number of callers, names, connections and any     *)
(* limit.  Beside Core and Flight the argument needs to know what a call   *)
(* has in hand at each of its points (Hands), and that a wrapper exists no *)
(* longer than somebody owns it (NoOrphans).                               *)
(***************************************************************************)
EXTENDS ConnectionManagerFlightProofs

\* Program points at which a call owns no wrapper, and at which it owns one.
HoldsNone == {"idle", "lookup", "relookup", "follower", "claim", "wait", "get", "remove",
              "close_all", "prune", "prune_op", "acquire", "connecting"}
HoldsOne == Evictions \cup {"insert", "handoff", "handoff_lead"}

One(s) == \E c \in Conns : s = {c}

\* What a caller has in hand: a lease only between calls, wrappers only during one.
Hands ==
    \A p \in Callers :
        /\ lease[p] # None => pc[p] = "idle"
        /\ pc[p] \in HoldsNone => held[p] = {}
        /\ pc[p] \in HoldsOne => One(held[p])
        /\ pc[p] = "unlead" => held[p] = {} \/ One(held[p])
        /\ pc[p] = "handoff_lead" => req[p].op = "jump"

\* Hands is inductive relative to Core and Flight.
LEMMA HandsStep == ASSUME Core, Flight, Hands, Next PROVE Hands'
<1>b. TypeOK /\ RequestShape /\ Hands /\ Flight
  BY DEF Core
<1>1. ASSUME NEW p \in Callers, LookupMiss(p) PROVE Hands'
  BY <1>1, <1>b DEF LookupMiss, Goto, Hands, One, TypeOK, HoldsNone, HoldsOne, Lookups,
       Evictions
<1>2. ASSUME NEW p \in Callers, LookupDead(p) PROVE Hands'
  BY <1>2, <1>b DEF LookupDead, Goto, RequestShape, Nameless, Hands, One, TypeOK,
       HoldsNone, HoldsOne, Lookups, Evictions
<1>3. ASSUME NEW p \in Callers, LookupHit(p) PROVE Hands'
  BY <1>3, <1>b DEF LookupHit, Goto, Granted, RequestShape, Nameless, LeaderPC, Hands,
       One, TypeOK, HoldsNone, HoldsOne, Lookups, Evictions
<1>4. ASSUME NEW p \in Callers, LookupReject(p) PROVE Hands'
  BY <1>4, <1>b DEF LookupReject, Goto, Hands, One, TypeOK, HoldsNone, HoldsOne,
       Lookups, Evictions
<1>5. ASSUME NEW p \in Callers, EvictDead(p) PROVE Hands'
  BY <1>5, <1>b DEF EvictDead, Goto, Hands, One, TypeOK, HoldsNone, HoldsOne, Lookups,
       Evictions
<1>6. ASSUME NEW p \in Callers, GetMiss(p) PROVE Hands'
  BY <1>6, <1>b DEF GetMiss, Goto, Hands, One, TypeOK, HoldsNone, HoldsOne, Lookups,
       Evictions
<1>7. ASSUME NEW p \in Callers, GetHit(p) PROVE Hands'
  BY <1>7, <1>b DEF GetHit, Goto, RequestShape, Nameless, Hands, One, TypeOK, HoldsNone,
       HoldsOne, Lookups, Evictions
<1>8. ASSUME NEW p \in Callers, Claim(p) PROVE Hands'
  BY <1>8, <1>b DEF Claim, Goto, LeaderStart, Hands, One, TypeOK, HoldsNone, HoldsOne,
       Lookups, Evictions
<1>9. ASSUME NEW p \in Callers, Unlead(p) PROVE Hands'
  BY <1>9, <1>b DEF Unlead, Followers, Hands, One, TypeOK, HoldsNone, HoldsOne, Lookups,
       Evictions
<1>10. ASSUME NEW p \in Callers, Prune(p) PROVE Hands'
  BY <1>10, <1>b DEF Prune, Goto, Hands, One, TypeOK, HoldsNone, HoldsOne, Lookups,
       Evictions
<1>11. ASSUME NEW p \in Callers, DropPruned(p) PROVE Hands'
  BY <1>11, <1>b DEF DropPruned, Goto, Hands, One, TypeOK, HoldsNone, HoldsOne, Lookups,
       Evictions
<1>12. ASSUME NEW p \in Callers, Acquire(p) PROVE Hands'
  BY <1>12, <1>b DEF Acquire, Goto, Hands, One, TypeOK, HoldsNone, HoldsOne, Lookups,
       Evictions
<1>13. ASSUME NEW p \in Callers, ConnectOk(p) PROVE Hands'
  BY <1>13, <1>b DEF ConnectOk, Goto, Hands, One, TypeOK, HoldsNone, HoldsOne, Lookups,
       Evictions
<1>14. ASSUME NEW p \in Callers, ConnectFail(p) PROVE Hands'
  BY <1>14, <1>b DEF ConnectFail, Goto, Hands, One, TypeOK, HoldsNone, HoldsOne,
       Lookups, Evictions
<1>15. ASSUME NEW p \in Callers, Insert(p) PROVE Hands'
  <2>1. pc[p] = "insert" /\ req[p].name \in Names
    BY <1>15, <1>b DEF Insert, RequestShape, Nameless
  <2>2. ~Shadowing(p)
    BY <1>b, <2>1 DEF Shadowing, Flight, EmptyWhileSettingUp
  <2>3. held' = held /\ lease' = lease /\ Goto(p, Granted(p))
    BY <1>15, <2>2 DEF Insert
  <2> QED
    BY <1>b, <2>1, <2>3 DEF Goto, Granted, LeaderPC, Hands, TypeOK, HoldsNone, HoldsOne, Evictions
<1>16. ASSUME NEW p \in Callers, Handoff(p) PROVE Hands'
  BY <1>16, <1>b DEF Handoff, Goto, Hands, One, TypeOK, HoldsNone, HoldsOne, Lookups,
       Evictions
<1>17. ASSUME NEW p \in Callers, ClientArc(p) PROVE Hands'
  BY <1>17, <1>b DEF ClientArc, Hands, One, TypeOK, HoldsNone, HoldsOne, Lookups,
       Evictions
<1>18. ASSUME NEW p \in Callers, DropLease(p) PROVE Hands'
  BY <1>18, <1>b DEF DropLease, Hands, One, TypeOK, HoldsNone, HoldsOne, Lookups,
       Evictions
<1>19. ASSUME NEW p \in Callers, DropClient(p) PROVE Hands'
  BY <1>19, <1>b DEF DropClient, Hands, One, TypeOK, HoldsNone, HoldsOne, Lookups,
       Evictions
<1>20. ASSUME NEW p \in Callers, Detach(p) PROVE Hands'
  BY <1>20, <1>b DEF Detach, Goto, Hands, One, TypeOK, HoldsNone, HoldsOne, Lookups,
       Evictions
<1>21. ASSUME NEW p \in Callers, CloseNext(p) PROVE Hands'
  BY <1>21, <1>b DEF CloseNext, Goto, Hands, One, TypeOK, HoldsNone, HoldsOne, Lookups,
       Evictions
<1>22. ASSUME NEW p \in Callers, Cancel(p) PROVE Hands'
  BY <1>22, <1>b DEF Cancel, Goto, AfterCancel, Awaiting, Hands, One, TypeOK, HoldsNone,
       HoldsOne, Lookups, Evictions
<1>23. ASSUME NEW p \in Callers, Start(p) PROVE Hands'
  <2>1. PICK r \in Request, l \in {"lookup", "get", "remove", "close_all", "prune_op"} :
          Begin(p, r, l)
    BY <1>23, StartShape
  <2> QED
    BY <1>b, <2>1 DEF Begin, Hands, TypeOK, HoldsNone, HoldsOne, Evictions
<1>24. ASSUME NEW p \in Callers, NEW q \in Callers, CloneLease(p, q) PROVE Hands'
  BY <1>24, <1>b DEF CloneLease, Hands, One, TypeOK, HoldsNone, HoldsOne, Lookups,
       Evictions
<1>25. ASSUME NEW c \in Conns, TransportDown(c) PROVE Hands'
  BY <1>25, <1>b DEF TransportDown, Hands, One, TypeOK, HoldsNone, HoldsOne, Lookups,
       Evictions
<1>26. ASSUME NEW c \in Conns, IdleTimeout(c) PROVE Hands'
  BY <1>26, <1>b DEF IdleTimeout, Hands, One, TypeOK, HoldsNone, HoldsOne, Lookups,
       Evictions
<1> QED
  BY <1>1, <1>2, <1>3, <1>4, <1>5, <1>6, <1>7, <1>8, <1>9, <1>10, <1>11, <1>12, <1>13,
       <1>14, <1>15, <1>16, <1>17, <1>18, <1>19, <1>20, <1>21, <1>22, <1>23, <1>24,
       <1>25, <1>26 DEF Next, Step, Handle
-----------------------------------------------------------------------------
(* Permits *)

Dialling == {p \in Callers : pc[p] = "connecting"}

SameDialling == \A p \in Callers : pc'[p] = "connecting" <=> pc[p] = "connecting"

\* Every wrapper that exists has an owner.
NoOrphans == \A c \in Live : Owned(c)

\* m has the wrappers that exist.
Existing(m) == m \in Wrappers /\ \A c \in Conns : m[c] # None <=> managed[c] # None

\* Writing to a wrapper that exists makes and drops none.
LEMMA UpdatesExist ==
    ASSUME managed \in Wrappers, NEW c \in Conns, managed[c] # None
    PROVE  /\ Existing(Touch(c))
           /\ \A d \in {-1, 1} : Existing(CountLease(c, d))
           /\ Existing([managed EXCEPT ![c].session = "down"])
           /\ IsAlive(c) => Existing([managed EXCEPT ![c].session = "closing"])
           /\ \A b \in BOOLEAN : Existing([managed EXCEPT ![c].expired = b])
<1>1. ASSUME NEW m, Kept(m), \A d \in Conns \ {c} : m[d] = managed[d] PROVE Existing(m)
  BY <1>1 DEF Kept, SameBinding, Existing
<1>2. \A d \in Conns \ {c} : Touch(c)[d] = managed[d]
  BY DEF Touch, Wrappers
<1>3. \A i \in {-1, 1} : \A d \in Conns \ {c} : CountLease(c, i)[d] = managed[d]
  BY Zenon DEF CountLease, Wrappers
<1>4. /\ \A s \in {"down", "closing"} : \A d \in Conns \ {c} :
           [managed EXCEPT ![c].session = s][d] = managed[d]
      /\ \A b \in BOOLEAN : \A d \in Conns \ {c} :
           [managed EXCEPT ![c].expired = b][d] = managed[d]
  BY DEF Wrappers
<1> QED
  BY <1>1, <1>2, <1>3, <1>4, UpdatesKeep

\* How a step may change the wrappers and the set-ups on the network.
Reaps == SameDialling /\ \E m \in Wrappers : Existing(m) /\ Reap(m)

Leaves == /\ SameDialling /\ available' = available
          /\ \A c \in Conns : managed'[c] # None <=> managed[c] # None
          /\ \A c \in Live : Owned(c) => Owned(c)'

Takes == \E p \in Callers :
            /\ pc[p] # "connecting" /\ pc' = [pc EXCEPT ![p] = "connecting"]
            /\ available > 0 /\ available' = available - 1
            /\ UNCHANGED <<connections, managed, held, lease>>

GivesBack == \E p \in Callers :
            /\ pc[p] = "connecting" /\ \E l \in PC \ {"connecting"} : pc' = [pc EXCEPT ![p] = l]
            /\ available' = available + 1
            /\ held[p] = {} /\ held' = [held EXCEPT ![p] = {}]
            /\ UNCHANGED <<connections, managed, lease>>

\* Every step but a successful connect changes them in one of these ways.
LEMMA PermitStep ==
    ASSUME Core, Flight, Hands, Next, \A p \in Callers : ~ConnectOk(p)
    PROVE  Reaps \/ Leaves \/ Takes \/ GivesBack
<1> DEFINE Goal == Reaps \/ Leaves \/ Takes \/ GivesBack
<1>b. TypeOK /\ RequestShape /\ Hands /\ Flight
  BY DEF Core
<1>w. managed \in Wrappers /\ Existing(managed)
  BY <1>b DEF TypeOK, Wrappers, Existing
<1>d. \A n \in Names : connections[n] # None =>
        connections[n] \in Conns /\ managed[connections[n]] # None
  BY DEF Core, TypeOK, NoDanglingReference
<1>e. \A p \in Callers : /\ \A c \in held[p] : c \in Conns /\ managed[c] # None
                         /\ lease[p] # None => lease[p] \in Conns /\ managed[lease[p]] # None
  BY DEF Core, TypeOK, NoDanglingReference
<1>1. ASSUME NEW p \in Callers, LookupMiss(p) PROVE Goal
  BY <1>1, <1>b DEF LookupMiss, Goto, Leaves, SameDialling, Live, Owned, TypeOK, Hands,
       HoldsNone, Lookups
<1>2. ASSUME NEW p \in Callers, LookupDead(p) PROVE Goal
  BY <1>2, <1>b DEF LookupDead, Goto, Leaves, SameDialling, Live, Owned, TypeOK, Hands,
       HoldsNone, Lookups
<1>3. ASSUME NEW p \in Callers, LookupHit(p) PROVE Goal
  <2>1. pc[p] \notin {"connecting"} /\ req[p].name \in Names
    BY <1>3, <1>b DEF LookupHit, Lookups, RequestShape, Nameless
  <2>2. Existing(managed')
    BY <1>3, <1>w, <1>d, <2>1, UpdatesExist, Zenon DEF LookupHit
  <2>3. SameDialling /\ available' = available
    BY <1>3, <1>b DEF LookupHit, Goto, Granted, SameDialling, TypeOK, Lookups
  <2>4. held[p] = {} /\ UNCHANGED <<connections, lease>>
    BY <1>3, <1>b DEF LookupHit, Hands, HoldsNone, Lookups
  <2>5. \A c \in Conns : Owned(c) => Owned(c)'
    BY <1>3, <1>b, <2>4 DEF LookupHit, Owned, TypeOK
  <2> QED
    BY <2>2, <2>3, <2>5 DEF Leaves, Live, Existing
<1>4. ASSUME NEW p \in Callers, LookupReject(p) PROVE Goal
  BY <1>4, <1>b DEF LookupReject, Goto, Leaves, SameDialling, Live, Owned, TypeOK,
       Hands, HoldsNone, Lookups
<1>5. ASSUME NEW p \in Callers, EvictDead(p) PROVE Goal
  BY <1>5, <1>b, <1>w DEF EvictDead, Goto, Reaps, SameDialling, TypeOK, Evictions
<1>6. ASSUME NEW p \in Callers, GetMiss(p) PROVE Goal
  BY <1>6, <1>b DEF GetMiss, Goto, Leaves, SameDialling, Live, Owned, TypeOK, Hands,
       HoldsNone, Lookups
<1>7. ASSUME NEW p \in Callers, GetHit(p) PROVE Goal
  <2>1. pc[p] \notin {"connecting"} /\ req[p].name \in Names
    BY <1>7, <1>b DEF GetHit, Lookups, RequestShape, Nameless
  <2>2. Existing(managed')
    BY <1>7, <1>w, <1>d, <2>1, UpdatesExist, Zenon DEF GetHit
  <2>3. SameDialling /\ available' = available
    BY <1>7, <1>b DEF GetHit, Goto, SameDialling, TypeOK, Lookups
  <2>4. held[p] = {} /\ UNCHANGED <<connections, lease>>
    BY <1>7, <1>b DEF GetHit, Hands, HoldsNone, Lookups
  <2>5. \A c \in Conns : Owned(c) => Owned(c)'
    BY <1>7, <1>b, <2>4 DEF GetHit, Owned, TypeOK
  <2> QED
    BY <2>2, <2>3, <2>5 DEF Leaves, Live, Existing
<1>8. ASSUME NEW p \in Callers, Claim(p) PROVE Goal
  BY <1>8, <1>b DEF Claim, Goto, LeaderStart, Leaves, SameDialling, Live, Owned, TypeOK,
       Hands, HoldsNone, Lookups
<1>9. ASSUME NEW p \in Callers, Unlead(p) PROVE Goal
  BY <1>9, <1>b DEF Unlead, Followers, Leaves, SameDialling, Live, Owned, TypeOK, Hands,
       HoldsNone, Lookups
<1>10. ASSUME NEW p \in Callers, Prune(p) PROVE Goal
  <2>1. SameDialling /\ UNCHANGED <<available, managed, lease>>
    BY <1>10, <1>b DEF Prune, Goto, SameDialling, TypeOK
  <2>2. ASSUME NEW c \in Conns, Owned(c) PROVE Owned(c)'
    BY <1>10, <1>b, <2>1, <2>2 DEF Prune, Owned, TypeOK, Hands, HoldsNone
  <2> QED
    BY <2>1, <2>2 DEF Leaves, Live
<1>11. ASSUME NEW p \in Callers, DropPruned(p) PROVE Goal
  BY <1>11, <1>b, <1>w DEF DropPruned, Goto, Reaps, SameDialling, TypeOK, Evictions
<1>12. ASSUME NEW p \in Callers, Acquire(p) PROVE Goal
  <2>1. CASE PermitLeft
    BY <1>12, <2>1 DEF Acquire, PermitLeft, Goto, Takes
  <2>2. CASE ~PermitLeft
    BY <1>12, <1>b, <2>2 DEF Acquire, Goto, Leaves, SameDialling, Live, Owned, TypeOK
  <2> QED
    BY <2>1, <2>2
<1>13. ASSUME NEW p \in Callers, ConnectFail(p) PROVE Goal
  <2>1. held[p] = {} /\ held' = held /\ held' = [held EXCEPT ![p] = {}]
    BY <1>13, <1>b DEF ConnectFail, Hands, HoldsNone, TypeOK
  <2>2. "unlead" \in PC \ {"connecting"}
    BY DEF PC, LeaderPC
  <2> QED
    BY <1>13, <2>1, <2>2 DEF ConnectFail, Goto, GivesBack
<1>14. ASSUME NEW p \in Callers, Insert(p) PROVE Goal
  <2>1. pc[p] = "insert" /\ req[p].name \in Names
    BY <1>14, <1>b DEF Insert, RequestShape, Nameless
  <2>2. ~Shadowing(p)
    BY <1>b, <2>1 DEF Shadowing, Flight, EmptyWhileSettingUp
  <2>3. Reap(managed)
    BY <1>14, <2>2 DEF Insert
  <2>4. \E l \in {"handoff_lead", "unlead"} : Goto(p, l)
    BY <1>14, InsertGoto
  <2> QED
    BY <1>b, <1>w, <2>1, <2>3, <2>4 DEF Goto, Reaps, SameDialling, TypeOK
<1>15. ASSUME NEW p \in Callers, Handoff(p) PROVE Goal
  <2>1. PICK c \in held[p] : Reap(managed) \/ Reap(CountLease(c, 1))
    BY <1>15 DEF Handoff
  <2>2. Existing(CountLease(c, 1))
    BY <1>w, <1>e, UpdatesExist
  <2>3. SameDialling
    BY <1>15, <1>b DEF Handoff, Goto, SameDialling, TypeOK
  <2> QED
    BY <1>w, <2>1, <2>2, <2>3 DEF Reaps, Existing
<1>16. ASSUME NEW p \in Callers, ClientArc(p) PROVE Goal
  BY <1>16, <1>b DEF ClientArc, Leaves, SameDialling, Live, Owned, TypeOK, Hands,
       HoldsNone, Lookups
<1>17. ASSUME NEW p \in Callers, DropLease(p) PROVE Goal
  <2>1. Existing(CountLease(lease[p], -1)) /\ Reap(CountLease(lease[p], -1))
    BY <1>17, <1>w, <1>e, UpdatesExist DEF DropLease
  <2> QED
    BY <1>17, <2>1 DEF DropLease, Reaps, SameDialling, Existing
<1>18. ASSUME NEW p \in Callers, DropClient(p) PROVE Goal
  BY <1>18, <1>b DEF DropClient, Leaves, SameDialling, Live, Owned, TypeOK, Hands,
       HoldsNone, Lookups
<1>19. ASSUME NEW p \in Callers, Detach(p) PROVE Goal
  <2>1. SameDialling /\ UNCHANGED <<available, managed, lease>>
    BY <1>19, <1>b DEF Detach, Goto, SameDialling, TypeOK
  <2>2. PICK which \in SUBSET Names :
          /\ connections' = [n \in Names |-> IF n \in which THEN None ELSE connections[n]]
          /\ held' = [held EXCEPT ![p] = {connections[n] : n \in which} \ {None}]
    BY <1>19, <1>b, Zenon DEF Detach, RequestShape, Nameless
  <2>3. held[p] = {}
    BY <1>19, <1>b DEF Detach, Hands, HoldsNone
  <2>4. ASSUME NEW c \in Conns, Owned(c) PROVE Owned(c)'
    BY <1>b, <2>1, <2>2, <2>3, <2>4, NoneAssumption DEF Owned, TypeOK
  <2> QED
    BY <2>1, <2>4 DEF Leaves, Live
<1>20. ASSUME NEW p \in Callers, CloseNext(p) PROVE Goal
  <2>1. PICK c \in held[p] : Reap(IF IsAlive(c) THEN [managed EXCEPT ![c].session = "closing"]
                                  ELSE managed)
    BY <1>20, Zenon DEF CloseNext
  <2>2. IsAlive(c) => Existing([managed EXCEPT ![c].session = "closing"])
    BY <1>w, <1>e, UpdatesExist
  <2>3. SameDialling
    BY <1>20, <1>b DEF CloseNext, Goto, SameDialling, TypeOK
  <2> QED
    BY <1>w, <2>1, <2>2, <2>3 DEF Reaps, Existing
<1>21. ASSUME NEW p \in Callers, Cancel(p) PROVE Goal
  <2>1. Goto(p, AfterCancel(p)) /\ AfterCancel(p) \in PC \ {"connecting"}
    BY <1>21 DEF Cancel, AfterCancel, PC, LeaderPC
  <2>2. CASE pc[p] = "connecting"
    <3>1. held[p] = {}
      BY <1>b, <2>2 DEF Hands, HoldsNone
    <3> QED
      BY <1>21, <2>1, <2>2, <3>1 DEF Cancel, Goto, GivesBack
  <2>3. CASE pc[p] # "connecting"
    <3>1. Reap(managed) /\ SameDialling
      BY <1>21, <1>b, <2>1, <2>3 DEF Cancel, Goto, SameDialling, TypeOK
    <3> QED
      BY <1>w, <3>1 DEF Reaps
  <2> QED
    BY <2>2, <2>3
<1>22. ASSUME NEW p \in Callers, Start(p) PROVE Goal
  <2>1. PICK r \in Request, l \in {"lookup", "get", "remove", "close_all", "prune_op"} :
          Begin(p, r, l)
    BY <1>22, StartShape
  <2> QED
    BY <1>b, <2>1 DEF Begin, Leaves, SameDialling, Live, Owned, TypeOK
<1>23. ASSUME NEW p \in Callers, NEW q \in Callers, CloneLease(p, q) PROVE Goal
  <2>1. Existing(managed')
    BY <1>23, <1>w, <1>e, UpdatesExist DEF CloneLease
  <2>2. SameDialling /\ available' = available /\ \A c \in Conns : Owned(c) => Owned(c)'
    BY <1>23, <1>b, NoneAssumption DEF CloneLease, SameDialling, Owned, TypeOK
  <2> QED
    BY <2>1, <2>2 DEF Leaves, Live, Existing
<1>24. ASSUME NEW c \in Conns, TransportDown(c) PROVE Goal
  <2>1. Existing(managed')
    BY <1>24, <1>w, UpdatesExist DEF TransportDown
  <2> QED
    BY <1>24, <2>1 DEF TransportDown, Leaves, SameDialling, Owned, Existing
<1>25. ASSUME NEW c \in Conns, IdleTimeout(c) PROVE Goal
  <2>1. Existing(managed')
    BY <1>25, <1>w, UpdatesExist DEF IdleTimeout
  <2> QED
    BY <1>25, <2>1 DEF IdleTimeout, Leaves, SameDialling, Owned, Existing
<1> QED
  BY <1>1, <1>2, <1>3, <1>4, <1>5, <1>6, <1>7, <1>8, <1>9, <1>10, <1>11, <1>12, <1>13,
       <1>14, <1>15, <1>16, <1>17, <1>18, <1>19, <1>20, <1>21, <1>22, <1>23, <1>24,
       <1>25 DEF Next, Step, Handle

\* A wrapper is dropped with its last owner and not before it is inserted or given up.
LEMMA NoOrphansStep ==
    ASSUME Core, Flight, Hands, NoOrphans, [Next]_vars PROVE NoOrphans'
<1>b. TypeOK
  BY DEF Core
<1>1. CASE UNCHANGED vars
  BY <1>1 DEF vars, NoOrphans, Live, Owned
<1>2. CASE Next /\ \A p \in Callers : ~ConnectOk(p)
  <2>1. CASE Reaps
    BY <2>1 DEF Reaps, Reap, NoOrphans, Live
  <2>2. CASE Leaves
    BY <2>2 DEF Leaves, NoOrphans, Live
  <2>3. CASE Takes
    BY <2>3 DEF Takes, NoOrphans, Live, Owned
  <2>4. CASE GivesBack
    BY <1>b, <2>4 DEF GivesBack, NoOrphans, Live, Owned, TypeOK
  <2> QED
    BY <1>2, <2>1, <2>2, <2>3, <2>4, PermitStep
<1>3. ASSUME NEW p \in Callers, ConnectOk(p) PROVE NoOrphans'
  <2>1. PICK c \in Conns : /\ \A d \in Conns \ {c} : managed'[d] = managed[d]
                           /\ held' = [held EXCEPT ![p] = {c}]
    BY <1>3, NewWrapper
  <2>2. UNCHANGED <<connections, lease>> /\ held[p] = {}
    BY <1>3 DEF ConnectOk, Hands, HoldsNone
  <2> QED
    BY <1>b, <2>1, <2>2 DEF NoOrphans, Live, Owned, TypeOK
<1> QED
  BY <1>1, <1>2, <1>3

\* The wrappers and the set-ups are finitely many.
LEMMA Countable ==
    /\ IsFiniteSet(Live) /\ Cardinality(Live) \in Nat
    /\ IsFiniteSet(Dialling) /\ Cardinality(Dialling) \in Nat
<1>1. Live \in SUBSET Conns /\ Dialling \in SUBSET Callers
  BY DEF Live, Dialling
<1> QED
  BY <1>1, FS_Subset, FS_CardinalityType, FinitenessAssumption

\* Dropping wrappers gives back as many permits.
LEMMA ReapsCapacity ==
    ASSUME TypeOK, CapacityAccounting, Reaps PROVE CapacityAccounting'
<1>1. PICK m \in Wrappers : Existing(m) /\ Reap(m)
  BY DEF Reaps
<1> DEFINE dropped == {c \in Conns : m[c] # None /\ ~Owned(c)'}
<1>2. managed' = [c \in Conns |-> IF c \in dropped THEN None ELSE m[c]]
  BY <1>1 DEF Reap
<1>3. available' = available + Cardinality(dropped)
  BY <1>1 DEF Reap
<1>4. Live' = Live \ dropped /\ Live \cap dropped = dropped
  BY <1>1, <1>2 DEF Existing, Live
<1>5. Dialling' = Dialling
  BY DEF Reaps, SameDialling, Dialling
<1>6. Cardinality(dropped) \in Nat
  BY FS_Subset, FS_CardinalityType, FinitenessAssumption
<1> HIDE DEF dropped
<1>7. Cardinality(Live \ dropped) = Cardinality(Live) - Cardinality(Live \cap dropped)
  BY Countable, FS_Difference, Zenon
<1>8. Cardinality(Live') = Cardinality(Live) - Cardinality(dropped)
  BY <1>4, <1>7
<1>9. available + Cardinality(Live) + Cardinality(Dialling) = MaxConnections
  BY DEF CapacityAccounting, Dialling
<1>10. available \in Nat /\ Cardinality(Live) \in Nat /\ Cardinality(Dialling) \in Nat
  BY Countable DEF TypeOK
<1>11. available' + Cardinality(Live') + Cardinality(Dialling') = MaxConnections
  BY <1>3, <1>5, <1>6, <1>8, <1>9, <1>10, MaxConnectionsAssumption
<1> QED
  BY <1>11 DEF CapacityAccounting, Dialling

\* Every step preserves the balance of permits.
LEMMA CapacityStep ==
    ASSUME Core, Flight, Hands, CapacityAccounting, [Next]_vars PROVE CapacityAccounting'
<1>b. TypeOK
  BY DEF Core
<1>1. CASE UNCHANGED vars
  BY <1>1 DEF vars, CapacityAccounting, Live
<1>2. CASE Next /\ \A p \in Callers : ~ConnectOk(p)
  <2>1. CASE Reaps
    BY <1>b, <2>1, ReapsCapacity
  <2>2. CASE Leaves
    <3>1. Live' = Live /\ Dialling' = Dialling /\ available' = available
      BY <2>2 DEF Leaves, SameDialling, Live, Dialling
    <3> QED
      BY <3>1 DEF CapacityAccounting, Dialling
  <2>3. CASE Takes
    <3>1. PICK p \in Callers : /\ pc[p] # "connecting" /\ pc' = [pc EXCEPT ![p] = "connecting"]
                               /\ available > 0 /\ available' = available - 1
                               /\ managed' = managed
      BY <2>3 DEF Takes
    <3>2. Live' = Live /\ Dialling' = Dialling \cup {p} /\ p \notin Dialling
      BY <1>b, <3>1 DEF Live, Dialling, TypeOK
    <3>3. Cardinality(Dialling') = Cardinality(Dialling) + 1
      BY <3>2, Countable, FS_AddElement
    <3> QED
      BY <1>b, <3>1, <3>2, <3>3, Countable, MaxConnectionsAssumption
         DEF CapacityAccounting, Dialling, TypeOK
  <2>4. CASE GivesBack
    <3>1. PICK p \in Callers : /\ pc[p] = "connecting" /\ available' = available + 1
                               /\ \E l \in PC \ {"connecting"} : pc' = [pc EXCEPT ![p] = l]
                               /\ managed' = managed
      BY <2>4 DEF GivesBack
    <3>2. Live' = Live /\ Dialling' = Dialling \ {p} /\ p \in Dialling
      BY <1>b, <3>1 DEF Live, Dialling, TypeOK
    <3>3. Cardinality(Dialling') = Cardinality(Dialling) - 1
      BY <3>2, Countable, FS_RemoveElement
    <3> QED
      BY <1>b, <3>1, <3>2, <3>3, Countable, MaxConnectionsAssumption
         DEF CapacityAccounting, Dialling, TypeOK
  <2> QED
    BY <1>2, <2>1, <2>2, <2>3, <2>4, PermitStep
<1>3. ASSUME NEW p \in Callers, ConnectOk(p) PROVE CapacityAccounting'
  <2>1. PICK c \in Conns : /\ Fresh(c) /\ managed'[c] \in ManagedConnection
                           /\ \A d \in Conns \ {c} : managed'[d] = managed[d]
    BY <1>3, NewWrapper
  <2>2. pc[p] = "connecting" /\ pc' = [pc EXCEPT ![p] = "insert"] /\ available' = available
    BY <1>3 DEF ConnectOk, Goto
  <2>3. Live' = Live \cup {c} /\ c \notin Live
    BY <2>1, NoneAssumption DEF Live, Fresh
  <2>4. Dialling' = Dialling \ {p} /\ p \in Dialling
    BY <1>b, <2>2 DEF Dialling, TypeOK
  <2>5. /\ Cardinality(Live') = Cardinality(Live) + 1
        /\ Cardinality(Dialling') = Cardinality(Dialling) - 1
    BY <2>3, <2>4, Countable, FS_AddElement, FS_RemoveElement
  <2> QED
    BY <1>b, <2>2, <2>5, Countable, MaxConnectionsAssumption
       DEF CapacityAccounting, Dialling, TypeOK
<1> QED
  BY <1>1, <1>2, <1>3

\* What the refinement and the counts rest on.
PoolInv == Core /\ Flight /\ Hands /\ NoOrphans /\ CapacityAccounting

\* PoolInv is an invariant.
LEMMA PoolInvHolds == Spec => []PoolInv
<1>1. Init => Flight /\ Hands /\ NoOrphans
  BY NoneAssumption DEF Init, Flight, SingleFlight, EmptyWhileSettingUp, EvictingLeader,
     LeaderPC, Hands, HoldsNone, HoldsOne, Evictions, NoOrphans, Live
<1>2. Init => CapacityAccounting
  <2> SUFFICES ASSUME Init PROVE CapacityAccounting
    OBVIOUS
  <2>1. Live = {} /\ {p \in Callers : pc[p] = "connecting"} = {}
    BY DEF Init, Live
  <2> QED
    BY <2>1, FS_EmptySet, MaxConnectionsAssumption DEF Init, CapacityAccounting
<1>3. ASSUME PoolInv, [Next]_vars PROVE PoolInv'
  <2>1. CASE UNCHANGED vars
    BY <1>3, <2>1, CoreStep, FlightStep, NoOrphansStep, CapacityStep
       DEF PoolInv, vars, Hands
  <2> QED
    BY <1>3, <2>1, CoreStep, FlightStep, HandsStep, NoOrphansStep, CapacityStep DEF PoolInv
<1>4. Init => PoolInv
  BY <1>1, <1>2, CoreInit DEF PoolInv
<1> QED
  BY <1>3, <1>4, PTL DEF Spec

\* Permits: whatever fails, is cancelled, evicted or dropped late, the semaphore and the
\* permits in use add up to max_connections (try_acquire_owned, ManagedConnection).
THEOREM CapacityHolds == Spec => []CapacityAccounting
<1>1. PoolInv => CapacityAccounting
  BY DEF PoolInv
<1> QED
  BY <1>1, PoolInvHolds, PTL
-----------------------------------------------------------------------------
(* The refinement: the manager's steps as steps of the pool *)

Makers == [n \in Names |-> IF BeingMade(n) THEN connecting[n] ELSE None]
Using == [p \in Callers |-> held[p] \cup ({lease[p]} \ {None})]

\* The wrappers that exist are the ones bound or in somebody's hands.
LEMMA LiveIsKept == Core /\ NoOrphans => Live = Pool!Kept(connections, Using)
<1> SUFFICES ASSUME Core, NoOrphans PROVE Live = Pool!Kept(connections, Using)
  OBVIOUS
<1>1. ASSUME NEW c \in Live PROVE c \in Pool!Kept(connections, Using)
  <2>1. c \in Conns /\ c # None
    BY <1>1, NoneAssumption DEF Live
  <2>2. CASE \E n \in Names : connections[n] = c
    BY <2>1, <2>2 DEF Pool!Kept
  <2>3. CASE \E p \in Callers : c \in held[p] \/ lease[p] = c
    BY <2>1, <2>3 DEF Pool!Kept, Using
  <2> QED
    BY <1>1, <2>2, <2>3 DEF NoOrphans, Owned
<1>2. ASSUME NEW c \in Pool!Kept(connections, Using) PROVE c \in Live
  BY <1>2 DEF Pool!Kept, Using, Core, NoDanglingReference, TypeOK, Live
<1> QED
  BY <1>1, <1>2

\* One caller's hands change.
LEMMA UsingChanges ==
    ASSUME NEW p \in Callers, NEW u, held'[p] \cup ({lease'[p]} \ {None}) = u,
           \A q \in Callers \ {p} : held'[q] = held[q] /\ lease'[q] = lease[q]
    PROVE  Using' = [Using EXCEPT ![p] = u]
<1>1. Using' = [q \in Callers |-> held'[q] \cup ({lease'[q]} \ {None})]
  BY DEF Using
<1>2. \A q \in Callers : held'[q] \cup ({lease'[q]} \ {None})
                           = IF q = p THEN u ELSE held[q] \cup ({lease[q]} \ {None})
  BY Zenon
<1> QED
  BY <1>1, <1>2, Zenon DEF Using

\* What a caller has in hand during a call, and between calls.
LEMMA UsingIs ==
    ASSUME NEW p \in Callers
    PROVE  /\ lease[p] = None => Using[p] = held[p]
           /\ lease[p] # None /\ held[p] = {} => Using[p] = {lease[p]}
  BY DEF Using

SameMaking ==
    \A q \in Callers : /\ pc'[q] = "connecting" <=> pc[q] = "connecting"
                       /\ pc'[q] = "insert" <=> pc[q] = "insert"

\* A step that leaves the claims and the set-ups alone leaves the makers alone.
LEMMA SameMakingSuffices ==
    ASSUME TypeOK, TypeOK', SameMaking, UNCHANGED connecting
    PROVE  Makers' = Makers /\ Dialling' = Dialling
<1>1. \A n \in Names : BeingMade(n)' <=> BeingMade(n)
  BY DEF TypeOK, SameMaking, BeingMade
<1> QED
  BY <1>1 DEF Makers, Dialling, SameMaking

\* A step that changes nothing the pool sees.
LEMMA StutterStep ==
    ASSUME UNCHANGED <<connections, Makers, Dialling, Using, Live>>
    PROVE  UNCHANGED Pool!poolVars
  BY DEF Pool!poolVars, Makers, Dialling, Using

\* A caller takes what a name is bound to.
LEMMA TakeStep ==
    ASSUME NEW p \in Callers, NEW n \in Names, connections[n] # None,
           Using' = [Using EXCEPT ![p] = {connections[n]}],
           UNCHANGED <<connections, Makers, Dialling, Live>>
    PROVE  Pool!PoolNext
<1>1. Pool!Take(p, n)
  BY DEF Pool!Take, Makers, Dialling, Using
<1> QED
  BY <1>1 DEF Pool!PoolNext

\* A caller unbinds names and has their connections in hand, or nothing.
LEMMA UnbindStep ==
    ASSUME NEW p \in Callers, NEW N \in SUBSET Names,
           connections' = [n \in Names |-> IF n \in N THEN None ELSE connections[n]],
           \E u \in {{}, {connections[n] : n \in N} \ {None}} : Using' = [Using EXCEPT ![p] = u],
           Live' = Pool!Kept(connections', Using'),
           UNCHANGED <<Makers, Dialling>>
    PROVE  Pool!PoolNext
<1>1. Pool!Unbind(p, N)
  BY DEF Pool!Unbind, Makers, Dialling, Using
<1> QED
  BY <1>1 DEF Pool!PoolNext

\* A caller lets go of some of what it has.
LEMMA ReleaseStep ==
    ASSUME NEW p \in Callers, NEW K \in SUBSET Using[p],
           Using' = [Using EXCEPT ![p] = Using[p] \ K],
           Live' = Pool!Kept(connections, Using'),
           UNCHANGED <<connections, Makers, Dialling>>
    PROVE  Pool!PoolNext
<1>1. Pool!Release(p, K)
  BY DEF Pool!Release, Makers, Dialling, Using
<1>2. K \in SUBSET [q \in Callers |-> held[q] \cup ({lease[q]} \ {None})][p]
  BY DEF Using
<1> QED
  BY <1>1, <1>2 DEF Pool!PoolNext

\* A caller passes what it has on to another.
LEMMA ShareStep ==
    ASSUME NEW p \in Callers, NEW q \in Callers, NEW c \in Using[p],
           Using' = [Using EXCEPT ![q] = {c}],
           UNCHANGED <<connections, Makers, Dialling, Live>>
    PROVE  Pool!PoolNext
<1>1. Pool!Share(p, q)
  BY DEF Pool!Share, Makers, Dialling, Using
<1> QED
  BY <1>1 DEF Pool!PoolNext

\* A set-up begins on the network.
LEMMA DialStep ==
    ASSUME NEW p \in Callers, NEW n \in Names, connections[n] = None, Makers[n] = None,
           Cardinality(Live) + Cardinality(Dialling) < MaxConnections,
           Makers' = [Makers EXCEPT ![n] = p], Dialling' = Dialling \cup {p},
           UNCHANGED <<connections, Using, Live>>
    PROVE  Pool!PoolNext
<1>1. \A S : Pool!Cardinality(S) = Cardinality(S)
  BY DEF Pool!Cardinality, Cardinality
<1>2. Pool!Dial(p, n)
  BY <1>1, Zenon DEF Pool!Dial, Makers, Dialling, Using
<1> QED
  BY <1>2 DEF Pool!PoolNext

\* The connection of a set-up is up.
LEMMA ReachStep ==
    ASSUME NEW p \in Callers, NEW n \in Names, NEW c \in Conns, Makers[n] = p,
           p \in Dialling, c \notin Live,
           Dialling' = Dialling \ {p}, Using' = [Using EXCEPT ![p] = {c}],
           Live' = Live \cup {c},
           UNCHANGED <<connections, Makers>>
    PROVE  Pool!PoolNext
<1>1. Pool!Reach(p, n, c)
  BY DEF Pool!Reach, Makers, Dialling, Using
<1> QED
  BY <1>1 DEF Pool!PoolNext

\* A set-up binds its name.
LEMMA BindStep ==
    ASSUME NEW p \in Callers, NEW n \in Names, NEW c \in Conns, Makers[n] = p,
           p \notin Dialling, connections[n] = None, c \in Using[p],
           connections' = [connections EXCEPT ![n] = c],
           Makers' = [Makers EXCEPT ![n] = None],
           UNCHANGED <<Dialling, Using, Live>>
    PROVE  Pool!PoolNext
<1>1. Pool!Bind(p, n, c)
  BY DEF Pool!Bind, Makers, Dialling, Using
<1> QED
  BY <1>1 DEF Pool!PoolNext

\* A set-up fails or is given up.
LEMMA AbandonStep ==
    ASSUME NEW p \in Callers, NEW n \in Names, Makers[n] = p,
           Makers' = [Makers EXCEPT ![n] = None], Dialling' = Dialling \ {p},
           Using' = [Using EXCEPT ![p] = {}],
           Live' = Pool!Kept(connections, Using'), UNCHANGED connections
    PROVE  Pool!PoolNext
<1>1. Pool!Abandon(p, n)
  BY DEF Pool!Abandon, Makers, Dialling, Using
<1> QED
  BY <1>1 DEF Pool!PoolNext

\* A leader at a point of its set-up or its hand-over leads for the name of its request.
LEMMA LeaderLeads ==
    ASSUME Core, Flight, NEW p \in Callers, pc[p] \in LeaderPC
    PROVE  /\ req[p].name \in Names /\ connecting[req[p].name] = p /\ p # None
           /\ \A n \in Names \ {req[p].name} : connecting[n] # p
<1>1. req[p].name \in Names /\ connecting[req[p].name] = p
  BY DEF Core, RequestShape, Nameless, LeaderPC, Flight, SingleFlight
<1> QED
  BY <1>1, NoneAssumption DEF Flight, SingleFlight, Core, TypeOK

\* When one leader's set-up begins, ends or goes on, the makers change at its name only.
LEMMA MakerOfOne ==
    ASSUME Core, TypeOK', Flight, UNCHANGED connecting, NEW p \in Callers, pc[p] \in LeaderPC,
           \A q \in Callers \ {p} : pc'[q] = pc[q]
    PROVE  Makers' = [Makers EXCEPT ![req[p].name] =
                        IF pc'[p] \in {"connecting", "insert"} THEN p ELSE None]
<1>1. PICK k \in Names : /\ k = req[p].name /\ connecting[k] = p /\ p # None
                         /\ \A n \in Names \ {k} : connecting[n] # p
  BY LeaderLeads
<1>2. BeingMade(k)' <=> pc'[p] \in {"connecting", "insert"}
  BY <1>1 DEF BeingMade
<1>3. \A n \in Names \ {k} : BeingMade(n)' <=> BeingMade(n)
  BY <1>1 DEF BeingMade, Core, TypeOK
<1>4. Makers' = [n \in Names |-> IF BeingMade(n)' THEN connecting'[n] ELSE None]
  BY DEF Makers
<1>5. \A n \in Names : (IF BeingMade(n)' THEN connecting'[n] ELSE None)
        = IF n = k THEN IF pc'[p] \in {"connecting", "insert"} THEN p ELSE None
          ELSE IF BeingMade(n) THEN connecting[n] ELSE None
  BY <1>1, <1>2, <1>3
<1> QED
  BY <1>1, <1>4, <1>5, Zenon DEF Makers

\* Every step of the manager is a step of the pool, or none.
LEMMA PoolStep ==
    ASSUME PoolInv, PoolInv', Next PROVE Pool!PoolNext \/ UNCHANGED Pool!poolVars
<1> DEFINE Goal == Pool!PoolNext \/ UNCHANGED Pool!poolVars
<1>b. /\ Core /\ TypeOK /\ TypeOK' /\ RequestShape /\ Hands /\ Flight /\ NoDanglingReference
      /\ NoDanglingReference' /\ NoOrphans
  BY DEF PoolInv, Core
<1>k. /\ Live = Pool!Kept(connections, Using)
      /\ Live' = Pool!Kept(connections', Using')
  <2>1. (Core /\ NoOrphans => Live = Pool!Kept(connections, Using))'
    BY LiveIsKept, PTL
  <2> QED
    BY <2>1, LiveIsKept DEF PoolInv
<1>l. Using' = Using /\ connections' = connections => Live' = Live
  BY <1>k
<1>m. SameMaking /\ connecting' = connecting => Makers' = Makers /\ Dialling' = Dialling
  BY <1>b, SameMakingSuffices
<1>s. ASSUME connections' = connections, Using' = Using, SameMaking, connecting' = connecting
      PROVE  Goal
  BY <1>s, <1>l, <1>m, StutterStep
<1>h. ASSUME held' = held, lease' = lease PROVE Using' = Using
  BY <1>h DEF Using
<1>w. managed \in Wrappers /\ Existing(managed)
  BY <1>b DEF TypeOK, Wrappers, Existing
<1>e. Existing(managed') => Live' = Live
  BY DEF Existing, Live
<1>g. ASSUME NEW p \in Callers, pc[p] \in {"connecting", "insert"},
             pc' = [pc EXCEPT ![p] = "unlead"], UNCHANGED <<connections, connecting>>,
             Using' = [Using EXCEPT ![p] = {}]
      PROVE  Goal
  <2>1. req[p].name \in Names /\ connecting[req[p].name] = p /\ p # None /\ pc[p] \in LeaderPC
    BY <1>b, <1>g, LeaderLeads DEF LeaderPC
  <2>2. Makers[req[p].name] = p /\ Makers' = [Makers EXCEPT ![req[p].name] = None]
    BY <1>b, <1>g, <2>1, MakerOfOne DEF TypeOK, Makers, BeingMade
  <2>3. Dialling' = Dialling \ {p}
    BY <1>b, <1>g DEF Dialling, TypeOK
  <2> QED
    BY <1>g, <1>k, <2>1, <2>2, <2>3, AbandonStep
<1>1. ASSUME NEW p \in Callers, LookupMiss(p) PROVE Goal
  <2>1. SameMaking /\ UNCHANGED <<connections, connecting, held, lease>>
    BY <1>1, <1>b DEF LookupMiss, Goto, SameMaking, TypeOK, Lookups
  <2> QED
    BY <1>s, <1>h, <2>1
<1>2. ASSUME NEW p \in Callers, LookupDead(p) PROVE Goal
  <2> DEFINE n == req[p].name
  <2>1. n \in Names /\ connections[n] # None /\ connections[n] \in Conns
    BY <1>2, <1>b DEF LookupDead, Lookups, RequestShape, Nameless, TypeOK
  <2>2. SameMaking /\ UNCHANGED <<connections, connecting, lease>>
    BY <1>2, <1>b DEF LookupDead, Goto, SameMaking, TypeOK, Lookups
  <2>3. Using' = [Using EXCEPT ![p] = {connections[n]}]
    <3>1. lease[p] = None /\ held' = [held EXCEPT ![p] = {connections[n]}]
      BY <1>2, <1>b DEF LookupDead, Hands, Lookups
    <3> QED
      BY <1>b, <2>2, <3>1 DEF Using, TypeOK
  <2>4. Live' = Live
    BY <1>2 DEF LookupDead, Live
  <2> HIDE DEF n
  <2> QED
    BY <1>m, <2>1, <2>2, <2>3, <2>4, TakeStep
<1>3. ASSUME NEW p \in Callers, LookupHit(p) PROVE Goal
  <2> DEFINE n == req[p].name
  <2>1. n \in Names /\ connections[n] # None /\ connections[n] \in Conns
    BY <1>3, <1>b DEF LookupHit, Lookups, RequestShape, Nameless, TypeOK
  <2>2. SameMaking /\ UNCHANGED <<connections, connecting, lease>>
    BY <1>3, <1>b DEF LookupHit, Goto, Granted, SameMaking, TypeOK, Lookups
  <2>3. Using' = [Using EXCEPT ![p] = {connections[n]}]
    <3>1. lease[p] = None /\ held' = [held EXCEPT ![p] = {connections[n]}]
      BY <1>3, <1>b DEF LookupHit, Hands, Lookups
    <3> QED
      BY <1>b, <2>2, <3>1 DEF Using, TypeOK
  <2>4. Live' = Live
    BY <1>3, <1>b, <1>e, <1>w, <2>1, UpdatesExist, Zenon DEF LookupHit, NoDanglingReference, TypeOK
  <2> HIDE DEF n
  <2> QED
    BY <1>m, <2>1, <2>2, <2>3, <2>4, TakeStep
<1>4. ASSUME NEW p \in Callers, LookupReject(p) PROVE Goal
  <2>1. SameMaking /\ UNCHANGED <<connections, connecting, held, lease>>
    BY <1>4, <1>b DEF LookupReject, Goto, SameMaking, TypeOK, Lookups
  <2> QED
    BY <1>s, <1>h, <2>1
<1>5. ASSUME NEW p \in Callers, EvictDead(p) PROVE Goal
  <2>1. SameMaking /\ UNCHANGED <<connecting, lease>> /\ req[p].name \in Names
    BY <1>5, <1>b DEF EvictDead, Goto, SameMaking, TypeOK, Evictions, RequestShape, Nameless
  <2>2. Using' = [Using EXCEPT ![p] = {}]
    <3>1. lease[p] = None /\ held' = [held EXCEPT ![p] = {}]
      BY <1>5, <1>b DEF EvictDead, Hands, Evictions
    <3> QED
      BY <1>b, <2>1, <3>1 DEF Using, TypeOK
  <2>3. PICK N \in SUBSET Names :
          connections' = [n \in Names |-> IF n \in N THEN None ELSE connections[n]]
    <3>1. CASE connections' = [connections EXCEPT ![req[p].name] = None]
      <4>1. connections' = [n \in Names |-> IF n \in {req[p].name} THEN None ELSE connections[n]]
        BY <1>b, <3>1 DEF TypeOK
      <4> QED
        BY <2>1, <4>1
    <3>2. CASE connections' = connections
      <4>1. connections' = [n \in Names |-> IF n \in {} THEN None ELSE connections[n]]
        BY <1>b, <3>2 DEF TypeOK
      <4>2. {} \in SUBSET Names
        OBVIOUS
      <4> QED
        BY <4>1, <4>2
    <3> QED
      BY <1>5, <3>1, <3>2 DEF EvictDead
  <2> QED
    BY <1>k, <1>m, <2>1, <2>2, <2>3, UnbindStep
<1>6. ASSUME NEW p \in Callers, GetMiss(p) PROVE Goal
  <2>1. SameMaking /\ UNCHANGED <<connections, connecting, held, lease>>
    BY <1>6, <1>b DEF GetMiss, Goto, SameMaking, TypeOK, Lookups
  <2> QED
    BY <1>s, <1>h, <2>1
<1>7. ASSUME NEW p \in Callers, GetHit(p) PROVE Goal
  <2> DEFINE n == req[p].name
  <2>1. n \in Names /\ connections[n] # None /\ connections[n] \in Conns
    BY <1>7, <1>b DEF GetHit, Lookups, RequestShape, Nameless, TypeOK
  <2>2. SameMaking /\ UNCHANGED <<connections, connecting, lease>>
    BY <1>7, <1>b DEF GetHit, Goto, SameMaking, TypeOK, Lookups
  <2>3. Using' = [Using EXCEPT ![p] = {connections[n]}]
    <3>1. lease[p] = None /\ held' = [held EXCEPT ![p] = {connections[n]}]
      BY <1>7, <1>b DEF GetHit, Hands, Lookups
    <3> QED
      BY <1>b, <2>2, <3>1 DEF Using, TypeOK
  <2>4. Live' = Live
    BY <1>7, <1>b, <1>e, <1>w, <2>1, UpdatesExist, Zenon DEF GetHit, NoDanglingReference, TypeOK
  <2> HIDE DEF n
  <2> QED
    BY <1>m, <2>1, <2>2, <2>3, <2>4, TakeStep
<1>8. ASSUME NEW p \in Callers, Claim(p) PROVE Goal
  <2>1. pc[p] = "claim" /\ req[p].name \in Names /\ UNCHANGED <<connections, held, lease>>
    BY <1>8, <1>b DEF Claim, RequestShape, Nameless
  <2>2. CASE ~Unclaimed(req[p].name)
    BY <1>8, <1>b, <1>s, <1>h, <2>1, <2>2 DEF Claim, Goto, SameMaking, TypeOK
  <2>3. CASE Unclaimed(req[p].name)
    <3>1. PICK k \in Names : /\ connecting[k] = None /\ connecting' = [connecting EXCEPT ![k] = p]
                             /\ pc' = [pc EXCEPT ![p] = "relookup"]
      BY <1>8, <2>1, <2>3 DEF Claim, Goto, LeaderStart, Unclaimed
    <3>2. ASSUME NEW n \in Names, n # k
          PROVE  connecting'[n] = connecting[n] /\ (BeingMade(n)' <=> BeingMade(n))
      BY <1>b, <2>1, <3>1, <3>2 DEF BeingMade, TypeOK, Flight, SingleFlight, LeaderPC
    <3>3. ~BeingMade(k) /\ ~BeingMade(k)'
      BY <1>b, <3>1 DEF BeingMade, TypeOK
    <3>4. Makers' = Makers
      BY <3>2, <3>3 DEF Makers
    <3>5. Dialling' = Dialling
      BY <1>b, <2>1, <3>1 DEF Dialling, TypeOK
    <3> QED
      BY <1>h, <1>l, <2>1, <3>4, <3>5, StutterStep
  <2> QED
    BY <2>2, <2>3
<1>9. ASSUME NEW p \in Callers, Unlead(p) PROVE Goal
  <2>1. /\ pc[p] = "unlead" /\ UNCHANGED <<connections, held, lease>>
        /\ req[p].name \in Names /\ connecting[req[p].name] = p
    BY <1>9, <1>b, LeaderLeads DEF Unlead, LeaderPC
  <2>2. PICK k \in Names : connecting[k] = p /\ connecting' = [connecting EXCEPT ![k] = None]
    BY <1>9, <2>1 DEF Unlead
  <2>3. SameMaking
    BY <1>9, <1>b DEF Unlead, Followers, SameMaking, TypeOK
  <2>4. ~BeingMade(k) /\ ~BeingMade(k)'
    BY <1>b, <2>1, <2>2 DEF BeingMade, TypeOK
  <2>5. ASSUME NEW n \in Names, n # k
        PROVE  connecting'[n] = connecting[n] /\ (BeingMade(n)' <=> BeingMade(n))
    BY <1>b, <2>2, <2>3, <2>5 DEF BeingMade, SameMaking, TypeOK
  <2>6. Makers' = Makers /\ Dialling' = Dialling
    BY <2>3, <2>4, <2>5 DEF Makers, Dialling, SameMaking
  <2> QED
    BY <1>h, <1>l, <2>1, <2>6, StutterStep
<1>10. ASSUME NEW p \in Callers, Prune(p) PROVE Goal
  <2> DEFINE gone == {n \in Names : connections[n] # None /\ Prunable(connections[n])}
  <2>1. /\ SameMaking /\ UNCHANGED <<connecting, lease>>
        /\ connections' = [n \in Names |-> IF n \in gone THEN None ELSE connections[n]]
        /\ held' = [held EXCEPT ![p] = {connections[n] : n \in gone}]
    BY <1>10, <1>b DEF Prune, Goto, SameMaking, TypeOK
  <2>2. {connections[n] : n \in gone} \ {None} = {connections[n] : n \in gone}
    OBVIOUS
  <2>3. lease[p] = None
    BY <1>10, <1>b DEF Prune, Hands
  <2> HIDE DEF gone
  <2>4. Using' = [Using EXCEPT ![p] = {connections[n] : n \in gone} \ {None}]
    BY <1>b, <2>1, <2>2, <2>3 DEF Using, TypeOK
  <2>5. gone \in SUBSET Names
    BY DEF gone
  <2> QED
    BY <1>k, <1>m, <2>1, <2>4, <2>5, UnbindStep
<1>11. ASSUME NEW p \in Callers, DropPruned(p) PROVE Goal
  <2>1. SameMaking /\ UNCHANGED <<connections, connecting, lease>> /\ lease[p] = None
    BY <1>11, <1>b DEF DropPruned, Goto, SameMaking, TypeOK, Hands
  <2>2. Using' = [Using EXCEPT ![p] = Using[p] \ held[p]] /\ held[p] \in SUBSET Using[p]
    <3>1. Using[p] = held[p] /\ held'[p] \cup ({lease'[p]} \ {None}) = Using[p] \ held[p]
      BY <1>11, <1>b, <2>1, UsingIs DEF DropPruned, TypeOK
    <3>2. \A q \in Callers \ {p} : held'[q] = held[q] /\ lease'[q] = lease[q]
      BY <1>11, <1>b, <2>1 DEF DropPruned, TypeOK
    <3> QED
      BY <3>1, <3>2, UsingChanges
  <2> QED
    BY <1>k, <1>m, <2>1, <2>2, ReleaseStep
<1>12. ASSUME NEW p \in Callers, Acquire(p) PROVE Goal
  <2>1. pc[p] = "acquire" /\ UNCHANGED <<connections, connecting, managed, held, lease>>
    BY <1>12 DEF Acquire
  <2>2. CASE ~PermitLeft
    <3>1. SameMaking
      BY <1>12, <1>b, <2>2 DEF Acquire, Goto, SameMaking, TypeOK
    <3> QED
      BY <1>s, <1>h, <2>1, <3>1
  <2>3. CASE PermitLeft
    <3>1. pc' = [pc EXCEPT ![p] = "connecting"] /\ available > 0
      BY <1>12, <2>3 DEF Acquire, Goto, PermitLeft
    <3>2. /\ req[p].name \in Names /\ connecting[req[p].name] = p
          /\ connections[req[p].name] = None
      BY <1>b, <2>1, LeaderLeads DEF LeaderPC, Flight, EmptyWhileSettingUp
    <3>3. Makers' = [Makers EXCEPT ![req[p].name] = p]
      BY <1>b, <2>1, <3>1, MakerOfOne DEF LeaderPC, TypeOK
    <3>4. Makers[req[p].name] = None
      BY <2>1, <3>2 DEF Makers, BeingMade
    <3>5. Dialling' = Dialling \cup {p}
      BY <1>b, <3>1 DEF Dialling, TypeOK
    <3>6. Cardinality(Live) + Cardinality(Dialling) < MaxConnections
      <4>1. available + Cardinality(Live) + Cardinality(Dialling) = MaxConnections
        BY DEF PoolInv, CapacityAccounting, Dialling
      <4>2. available \in Nat
        BY <1>b DEF TypeOK
      <4> QED
        BY <3>1, <4>1, <4>2, Countable, MaxConnectionsAssumption
    <3>7. UNCHANGED <<connections, Using, Live>>
      BY <1>h, <1>l, <2>1
    <3> QED
      BY <3>2, <3>3, <3>4, <3>5, <3>6, <3>7, DialStep
  <2> QED
    BY <2>2, <2>3
<1>13. ASSUME NEW p \in Callers, ConnectOk(p) PROVE Goal
  <2>1. PICK c \in Conns : /\ Fresh(c) /\ managed'[c] \in ManagedConnection
                           /\ \A d \in Conns \ {c} : managed'[d] = managed[d]
                           /\ held' = [held EXCEPT ![p] = {c}]
    BY <1>13, <1>b, NewWrapper
  <2>2. /\ pc[p] = "connecting" /\ pc' = [pc EXCEPT ![p] = "insert"]
        /\ UNCHANGED <<connections, connecting, lease>>
    BY <1>13 DEF ConnectOk, Goto
  <2>3. Live' = Live \cup {c} /\ c \notin Live
    BY <2>1, NoneAssumption DEF Live, Fresh
  <2>4. req[p].name \in Names /\ connecting[req[p].name] = p /\ p # None
    BY <1>b, <2>2, LeaderLeads DEF LeaderPC
  <2>5. Makers[req[p].name] = p /\ Makers' = [Makers EXCEPT ![req[p].name] = p]
    BY <1>b, <2>2, <2>4, MakerOfOne DEF LeaderPC, TypeOK, Makers, BeingMade
  <2>6. Makers' = Makers
    BY <2>5 DEF Makers
  <2>7. p \in Dialling /\ Dialling' = Dialling \ {p}
    BY <1>b, <2>2 DEF Dialling, TypeOK
  <2>8. Using' = [Using EXCEPT ![p] = {c}]
    BY <1>b, <2>1, <2>2 DEF Using, TypeOK, Hands
  <2> QED
    BY <2>2, <2>3, <2>4, <2>5, <2>6, <2>7, <2>8, ReachStep
<1>14. ASSUME NEW p \in Callers, ConnectFail(p) PROVE Goal
  <2>1. /\ pc[p] = "connecting" /\ pc' = [pc EXCEPT ![p] = "unlead"]
        /\ UNCHANGED <<connections, connecting, held, lease>>
    BY <1>14 DEF ConnectFail, Goto
  <2>2. held[p] = {} /\ lease[p] = None
    BY <1>b, <2>1 DEF Hands, HoldsNone
  <2>3. Using' = [Using EXCEPT ![p] = {}]
    BY <2>1, <2>2 DEF Using
  <2> QED
    BY <1>g, <2>1, <2>3
<1>15. ASSUME NEW p \in Callers, Insert(p) PROVE Goal
  <2>1. /\ pc[p] = "insert" /\ req[p].name \in Names /\ connecting[req[p].name] = p
        /\ p # None /\ connections[req[p].name] = None
    BY <1>15, <1>b, LeaderLeads DEF Insert, LeaderPC, Flight, EmptyWhileSettingUp
  <2>2. ~Shadowing(p)
    BY <2>1 DEF Shadowing
  <2>3. /\ UNCHANGED <<connecting, held, lease>>
        /\ \E l \in {"handoff_lead", "unlead"} : Goto(p, l)
    BY <1>15, <2>2, InsertGoto DEF Insert
  <2>4. PICK c \in held[p] : connections' = [connections EXCEPT ![req[p].name] = c]
    BY <1>15, <2>2 DEF Insert
  <2>5. c \in Conns /\ c \in Using[p]
    BY <1>b DEF TypeOK, Using, NoDanglingReference
  <2>6. Makers[req[p].name] = p /\ Makers' = [Makers EXCEPT ![req[p].name] = None]
    BY <1>b, <2>1, <2>3, MakerOfOne DEF Goto, LeaderPC, TypeOK, Makers, BeingMade
  <2>7. Dialling' = Dialling /\ p \notin Dialling
    BY <1>b, <2>1, <2>3 DEF Goto, Dialling, TypeOK
  <2>8. Using' = Using
    BY <1>h, <2>3
  <2>9. Pool!Kept(connections', Using) = Pool!Kept(connections, Using)
    BY <1>b, <2>1, <2>4, <2>5, NoneAssumption DEF Pool!Kept, TypeOK
  <2>10. Live' = Live
    BY <1>k, <2>8, <2>9
  <2> QED
    BY <2>1, <2>4, <2>5, <2>6, <2>7, <2>8, <2>10, BindStep
<1>16. ASSUME NEW p \in Callers, Handoff(p) PROVE Goal
  <2>1. /\ SameMaking /\ UNCHANGED <<connections, connecting>> /\ lease[p] = None
        /\ held' = [held EXCEPT ![p] = {}]
    BY <1>16, <1>b DEF Handoff, Goto, SameMaking, TypeOK, Hands
  <2>2. PICK c \in held[p] : lease' = lease \/ lease' = [lease EXCEPT ![p] = c]
    BY <1>16 DEF Handoff
  <2>3. held[p] = {c} /\ c \in Conns /\ c # None
    BY <1>16, <1>b, NoneAssumption DEF Handoff, Hands, HoldsOne, One, TypeOK
  <2>4. CASE lease' = [lease EXCEPT ![p] = c]
    <3>1. Using' = Using
      BY <1>b, <2>1, <2>3, <2>4 DEF Using, TypeOK
    <3> QED
      BY <1>s, <2>1, <3>1
  <2>5. CASE lease' = lease
    <3>1. Using[p] = {c} /\ held'[p] \cup ({lease'[p]} \ {None}) = Using[p] \ {c}
      BY <1>b, <2>1, <2>3, <2>5, UsingIs DEF TypeOK
    <3>2. \A q \in Callers \ {p} : held'[q] = held[q] /\ lease'[q] = lease[q]
      BY <1>b, <2>1, <2>5 DEF TypeOK
    <3>3. Using' = [Using EXCEPT ![p] = Using[p] \ {c}] /\ {c} \in SUBSET Using[p]
      BY <3>1, <3>2, UsingChanges
    <3> QED
      BY <1>k, <1>m, <2>1, <3>3, ReleaseStep
  <2> QED
    BY <2>2, <2>4, <2>5
<1>17. ASSUME NEW p \in Callers, ClientArc(p) PROVE Goal
  <2>1. SameMaking /\ UNCHANGED <<connections, connecting, held, lease>>
    BY <1>17, <1>b DEF ClientArc, SameMaking, TypeOK, Lookups
  <2> QED
    BY <1>s, <1>h, <2>1
<1>18. ASSUME NEW p \in Callers, DropLease(p) PROVE Goal
  <2>1. /\ SameMaking /\ UNCHANGED <<connections, connecting, held>>
        /\ lease[p] # None /\ lease' = [lease EXCEPT ![p] = None]
    BY <1>18 DEF DropLease, SameMaking
  <2>2. held[p] = {}
    BY <1>b, <2>1 DEF Hands, HoldsNone
  <2>3. Using' = [Using EXCEPT ![p] = Using[p] \ {lease[p]}] /\ {lease[p]} \in SUBSET Using[p]
    <3>1. /\ Using[p] = {lease[p]}
          /\ held'[p] \cup ({lease'[p]} \ {None}) = Using[p] \ {lease[p]}
      BY <1>b, <2>1, <2>2, UsingIs DEF TypeOK
    <3>2. \A q \in Callers \ {p} : held'[q] = held[q] /\ lease'[q] = lease[q]
      BY <1>b, <2>1 DEF TypeOK
    <3> QED
      BY <3>1, <3>2, UsingChanges
  <2> QED
    BY <1>k, <1>m, <2>1, <2>3, ReleaseStep
<1>19. ASSUME NEW p \in Callers, DropClient(p) PROVE Goal
  <2>1. SameMaking /\ UNCHANGED <<connections, connecting, held, lease>>
    BY <1>19, <1>b DEF DropClient, SameMaking, TypeOK, Lookups
  <2> QED
    BY <1>s, <1>h, <2>1
<1>20. ASSUME NEW p \in Callers, Detach(p) PROVE Goal
  <2>1. SameMaking /\ UNCHANGED <<connecting, lease>> /\ lease[p] = None
    BY <1>20, <1>b DEF Detach, Goto, SameMaking, TypeOK, Hands
  <2>2. PICK which \in SUBSET Names :
          /\ connections' = [n \in Names |-> IF n \in which THEN None ELSE connections[n]]
          /\ held' = [held EXCEPT ![p] = {connections[n] : n \in which} \ {None}]
    BY <1>20, <1>b, Zenon DEF Detach, RequestShape, Nameless
  <2>3. Using' = [Using EXCEPT ![p] = {connections[n] : n \in which} \ {None}]
    BY <1>b, <2>1, <2>2 DEF Using, TypeOK
  <2> QED
    BY <1>k, <1>m, <2>1, <2>2, <2>3, UnbindStep
<1>21. ASSUME NEW p \in Callers, CloseNext(p) PROVE Goal
  <2>1. SameMaking /\ UNCHANGED <<connections, connecting, lease>>
    BY <1>21, <1>b DEF CloseNext, Goto, SameMaking, TypeOK
  <2>2. PICK c \in held[p] : held' = [held EXCEPT ![p] = @ \ {c}]
    BY <1>21, Zenon DEF CloseNext
  <2>3. lease[p] = None /\ c # None
    BY <1>21, <1>b, NoneAssumption DEF CloseNext, Hands, TypeOK
  <2>4. Using' = [Using EXCEPT ![p] = Using[p] \ {c}] /\ {c} \in SUBSET Using[p]
    <3>1. Using[p] = held[p] /\ held'[p] \cup ({lease'[p]} \ {None}) = Using[p] \ {c}
      BY <1>b, <2>1, <2>2, <2>3, UsingIs DEF TypeOK
    <3>2. \A q \in Callers \ {p} : held'[q] = held[q] /\ lease'[q] = lease[q]
      BY <1>b, <2>1, <2>2 DEF TypeOK
    <3> QED
      BY <3>1, <3>2, UsingChanges
  <2> QED
    BY <1>k, <1>m, <2>1, <2>4, ReleaseStep
<1>22. ASSUME NEW p \in Callers, Cancel(p) PROVE Goal
  <2>1. /\ UNCHANGED <<connections, connecting, lease>>
        /\ held' = [held EXCEPT ![p] = {}] /\ Goto(p, AfterCancel(p))
        /\ lease[p] = None
    BY <1>22, <1>b DEF Cancel, Hands, Awaiting, Lookups, Evictions
  <2>2. Using' = [Using EXCEPT ![p] = {}]
    BY <1>b, <2>1 DEF Using, TypeOK
  <2>3. CASE pc[p] \in {"connecting", "insert"}
    <3>1. pc' = [pc EXCEPT ![p] = "unlead"]
      BY <2>1, <2>3 DEF Goto, AfterCancel, LeaderPC
    <3> QED
      BY <1>g, <2>1, <2>2, <2>3, <3>1
  <2>4. CASE pc[p] \notin {"connecting", "insert"}
    <3>1. SameMaking
      BY <1>b, <2>1, <2>4 DEF Goto, AfterCancel, SameMaking, TypeOK
    <3>2. Using[p] = held[p] /\ Using[p] \ held[p] = {}
      BY <2>1, UsingIs
    <3>3. Using' = [Using EXCEPT ![p] = Using[p] \ held[p]] /\ held[p] \in SUBSET Using[p]
      BY <2>2, <3>2
    <3> QED
      BY <1>k, <1>m, <2>1, <3>1, <3>3, ReleaseStep
  <2> QED
    BY <2>3, <2>4
<1>23. ASSUME NEW p \in Callers, Start(p) PROVE Goal
  <2>1. PICK r \in Request, l \in {"lookup", "get", "remove", "close_all", "prune_op"} :
          Begin(p, r, l)
    BY <1>23, StartShape
  <2>2. SameMaking /\ UNCHANGED <<connections, connecting, held, lease>>
    BY <1>b, <2>1 DEF Begin, SameMaking, TypeOK
  <2> QED
    BY <1>s, <1>h, <2>2
<1>24. ASSUME NEW p \in Callers, NEW q \in Callers, CloneLease(p, q) PROVE Goal
  <2>1. /\ SameMaking /\ UNCHANGED <<connections, connecting, held>>
        /\ lease[p] # None /\ lease' = [lease EXCEPT ![q] = lease[p]] /\ held[q] = {}
        /\ lease[p] \in Conns /\ managed[lease[p]] # None
    BY <1>24, <1>b DEF CloneLease, SameMaking, Hands, HoldsNone, TypeOK, NoDanglingReference
  <2>2. Using' = [Using EXCEPT ![q] = {lease[p]}] /\ lease[p] \in Using[p]
    <3>1. lease[p] \in Using[p]
      BY <2>1 DEF Using
    <3>2. held'[q] \cup ({lease'[q]} \ {None}) = {lease[p]}
      BY <1>b, <2>1 DEF TypeOK
    <3>3. \A r \in Callers \ {q} : held'[r] = held[r] /\ lease'[r] = lease[r]
      BY <1>b, <2>1 DEF TypeOK
    <3> QED
      BY <3>1, <3>2, <3>3, UsingChanges
  <2>3. Live' = Live
    BY <1>24, <1>e, <1>w, <2>1, UpdatesExist DEF CloneLease
  <2> QED
    BY <1>m, <2>1, <2>2, <2>3, ShareStep
<1>25. ASSUME NEW c \in Conns, TransportDown(c) PROVE Goal
  <2>1. SameMaking /\ UNCHANGED <<connections, connecting, held, lease>>
    BY <1>25, <1>b DEF TransportDown, SameMaking, TypeOK, Lookups
  <2> QED
    BY <1>s, <1>h, <2>1
<1>26. ASSUME NEW c \in Conns, IdleTimeout(c) PROVE Goal
  <2>1. SameMaking /\ UNCHANGED <<connections, connecting, held, lease>>
    BY <1>26, <1>b DEF IdleTimeout, SameMaking, TypeOK, Lookups
  <2> QED
    BY <1>s, <1>h, <2>1
<1> QED
  BY <1>1, <1>2, <1>3, <1>4, <1>5, <1>6, <1>7, <1>8, <1>9, <1>10, <1>11, <1>12, <1>13,
       <1>14, <1>15, <1>16, <1>17, <1>18, <1>19, <1>20, <1>21, <1>22, <1>23, <1>24,
       <1>25, <1>26 DEF Next, Step, Handle

\* The refinement: the manager, with its locks, lookups, signals and late drops, is the
\* pool of ConnectionPool for every number of callers, names and connections.
THEOREM ManagerImplementsPool == Spec => ImplementsPool
<1>1. Init => Pool!PoolInit
  BY NoneAssumption DEF Init, Pool!PoolInit, BeingMade, Live
<1>2. ASSUME PoolInv, PoolInv', [Next]_vars PROVE [Pool!PoolNext]_Pool!poolVars
  <2>1. CASE UNCHANGED vars
    <3>1. UNCHANGED <<connections, Makers, Dialling, Using, Live>>
      BY <2>1 DEF vars, Makers, BeingMade, Dialling, Using, Live
    <3> QED
      BY <3>1, StutterStep
  <2> QED
    BY <1>2, <2>1, PoolStep
<1> QED
  BY <1>1, <1>2, PoolInvHolds, PTL DEF Spec, ImplementsPool, Pool!PoolSpec
=============================================================================
