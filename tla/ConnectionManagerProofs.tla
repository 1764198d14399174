----------------------- MODULE ConnectionManagerProofs -----------------------
(***************************************************************************)
(* Type correctness and ownership of ConnectionManager, proved for any     *)
(* number of callers, names, connections, configurations and keys: Core is *)
(* an inductive invariant.                                                 *)
(***************************************************************************)
EXTENDS ConnectionManagerWrappers

\* A call begins with a legal request at the first point of its operation.
LEMMA StartShape ==
    ASSUME NEW p \in Callers, Start(p)
    PROVE  \E r \in Request, l \in {"lookup", "get", "remove", "close_all", "prune_op"} :
             /\ Begin(p, r, l)
             /\ r.op \in ConnectOps => r.name \in Names
             /\ l \in {"lookup", "get", "remove"} => r.name \in Names
             /\ l = "lookup" => /\ r.op \in ConnectOps /\ r.config \in Configs
                                /\ r.key \in Keys \cup {NonReusable}
<1> DEFINE Shape(r, l) ==
             /\ r \in Request
             /\ r.op \in ConnectOps => r.name \in Names
             /\ l \in {"lookup", "get", "remove"} => r.name \in Names
             /\ l = "lookup" => /\ r.op \in ConnectOps /\ r.config \in Configs
                                /\ r.key \in Keys \cup {NonReusable}
<1>1. CASE BeginConnect(p)
  <2>1. PICK op \in ConnectOps, n \in Names, g \in Configs, k \in Keys \cup {NonReusable} :
          Begin(p, [op |-> op, name |-> n, config |-> g, key |-> k], "lookup")
    BY <1>1 DEF BeginConnect
  <2>2. Shape([op |-> op, name |-> n, config |-> g, key |-> k], "lookup")
    BY DEF Request, AllOps
  <2> QED
    BY <2>1, <2>2
<1>2. CASE BeginGet(p)
  <2>1. PICK op \in {"get", "get_lease"}, n \in Names :
          Begin(p, [NoRequest EXCEPT !.op = op, !.name = n], "get")
    BY <1>2, Zenon DEF BeginGet
  <2>2. Shape([NoRequest EXCEPT !.op = op, !.name = n], "get")
    BY Zenon DEF Request, NoRequest, AllOps, ConnectOps
  <2> QED
    BY <2>1, <2>2, Zenon
<1>3. CASE BeginRemove(p)
  <2>1. PICK n \in Names : Begin(p, [NoRequest EXCEPT !.op = "remove", !.name = n], "remove")
    BY <1>3, Zenon DEF BeginRemove
  <2>2. Shape([NoRequest EXCEPT !.op = "remove", !.name = n], "remove")
    BY Zenon DEF Request, NoRequest, AllOps, ConnectOps
  <2> QED
    BY <2>1, <2>2, Zenon
<1>4. CASE BeginCloseAll(p)
  <2>1. Shape([NoRequest EXCEPT !.op = "close_all"], "close_all")
    BY DEF Request, NoRequest, AllOps, ConnectOps
  <2> QED
    BY <1>4, <2>1, Zenon DEF BeginCloseAll
<1>5. CASE BeginPrune(p)
  <2>1. Shape(NoRequest, "prune_op")
    BY DEF Request, NoRequest, AllOps, ConnectOps
  <2> QED
    BY <1>5, <2>1 DEF BeginPrune
<1> QED
  BY <1>1, <1>2, <1>3, <1>4, <1>5 DEF Start

\* A leader leaves the insertion as a leader, without reading its arguments again.
LEMMA InsertGoto ==
    ASSUME NEW p \in Callers, Insert(p)
    PROVE  pc[p] = "insert" /\ \E l \in {"handoff_lead", "unlead"} : Goto(p, l)
<1>1. pc[p] = "insert" /\ pc[p] \in LeaderPC
  BY Zenon DEF Insert, LeaderPC
<1>2. Granted(p) \in {"handoff_lead", "unlead"}
  BY <1>1 DEF Granted
<1>3. Goto(p, Granted(p)) \/ Goto(p, "unlead")
  BY Zenon DEF Insert
<1> QED
  BY <1>1, <1>2, <1>3, Zenon

\* Types of the other variables.
LEMMA TypeStep == ASSUME Core, Next PROVE TypeOK'
<1>a. managed' \in [Conns -> ManagedConnection \cup {None}] /\ available' \in Nat
  BY WrapperStep DEF Wrappers
<1>b. TypeOK /\ RequestShape
  BY DEF Core
<1>c. \A p \in Callers, l \in PC :
        Goto(p, l) => pc' \in [Callers -> PC] /\ req' \in [Callers -> Request]
  BY <1>b DEF Goto, TypeOK, NoRequest, Request, AllOps
<1>d. /\ {"idle", "lookup", "follower", "claim", "wait", "handoff", "get", "remove",
          "close_all", "closing", "prune_op", "pruned_op"} \subseteq PC
      /\ {"relookup", "prune", "pruned", "acquire", "connecting", "insert",
          "handoff_lead", "unlead"} \subseteq PC
      /\ {"evict_lookup", "evict_leader", "evict_follower", "evict_get"} \subseteq PC
  BY DEF PC, Lookups, Evictions, LeaderPC
<1>1. ASSUME NEW p \in Callers, LookupMiss(p) PROVE TypeOK'
  BY <1>1, <1>a, <1>b, <1>c, <1>d DEF LookupMiss, Lookups, TypeOK
<1>2. ASSUME NEW p \in Callers, LookupDead(p) PROVE TypeOK'
  <2>1. connections[req[p].name] \in Conns
    BY <1>2, <1>b DEF LookupDead, TypeOK, RequestShape, Nameless, Lookups
  <2>2. pc' \in [Callers -> PC] /\ req' \in [Callers -> Request]
    BY <1>2, <1>c, <1>d DEF LookupDead, Lookups
  <2> QED
    BY <1>2, <1>a, <1>b, <2>1, <2>2 DEF LookupDead, TypeOK
<1>3. ASSUME NEW p \in Callers, LookupHit(p) PROVE TypeOK'
  <2>1. connections[req[p].name] \in Conns
    BY <1>3, <1>b DEF LookupHit, TypeOK, RequestShape, Nameless, Lookups
  <2>2. pc' \in [Callers -> PC] /\ req' \in [Callers -> Request]
    BY <1>3, <1>c, <1>d DEF LookupHit, Granted
  <2> QED
    BY <1>3, <1>a, <1>b, <2>1, <2>2 DEF LookupHit, TypeOK
<1>4. ASSUME NEW p \in Callers, LookupReject(p) PROVE TypeOK'
  BY <1>4, <1>a, <1>b, <1>c, <1>d DEF LookupReject, Forget, TypeOK
<1>5. ASSUME NEW p \in Callers, EvictDead(p) PROVE TypeOK'
  BY <1>5, <1>a, <1>b, <1>c, <1>d, Zenon DEF EvictDead, TypeOK
<1>6. ASSUME NEW p \in Callers, GetMiss(p) PROVE TypeOK'
  BY <1>6, <1>a, <1>b, <1>c, <1>d DEF GetMiss, TypeOK
<1>7. ASSUME NEW p \in Callers, GetHit(p) PROVE TypeOK'
  <2>1. connections[req[p].name] \in Conns
    BY <1>7, <1>b DEF GetHit, TypeOK, RequestShape, Nameless, Lookups
  <2>2. pc' \in [Callers -> PC] /\ req' \in [Callers -> Request]
    BY <1>7, <1>c, <1>d DEF GetHit
  <2> QED
    BY <1>7, <1>a, <1>b, <2>1, <2>2 DEF GetHit, TypeOK
<1>8. ASSUME NEW p \in Callers, Claim(p) PROVE TypeOK'
  BY <1>8, <1>a, <1>b, <1>c, <1>d DEF Claim, LeaderStart, TypeOK
<1>9. ASSUME NEW p \in Callers, Unlead(p) PROVE TypeOK'
  <2>1. NoRequest \in Request
    BY DEF NoRequest, Request, AllOps
  <2> QED
    BY <1>9, <1>a, <1>b, <1>d, <2>1, Zenon DEF Unlead, TypeOK
<1>10. ASSUME NEW p \in Callers, Prune(p) PROVE TypeOK'
  BY <1>10, <1>a, <1>b, <1>c, <1>d DEF Prune, TypeOK
<1>11. ASSUME NEW p \in Callers, DropPruned(p) PROVE TypeOK'
  BY <1>11, <1>a, <1>b, <1>c, <1>d DEF DropPruned, TypeOK
<1>12. ASSUME NEW p \in Callers, Acquire(p) PROVE TypeOK'
  BY <1>12, <1>a, <1>b, <1>c, <1>d DEF Acquire, TypeOK
<1>13. ASSUME NEW p \in Callers, ConnectOk(p) PROVE TypeOK'
  BY <1>13, <1>a, <1>b, <1>c, <1>d DEF ConnectOk, TypeOK
<1>14. ASSUME NEW p \in Callers, ConnectFail(p) PROVE TypeOK'
  BY <1>14, <1>a, <1>b, <1>c, <1>d DEF ConnectFail, TypeOK
<1>15. ASSUME NEW p \in Callers, Insert(p) PROVE TypeOK'
  <2>1. req[p].name \in Names
    BY <1>15, <1>b DEF Insert, RequestShape, Nameless
  <2>2. pc' \in [Callers -> PC] /\ req' \in [Callers -> Request]
    BY <1>15, <1>c, <1>d, InsertGoto
  <2>3. /\ connections' \in [Names -> Conns \cup {None}]
        /\ held' \in [Callers -> SUBSET Conns]
        /\ flight' \in [Callers -> Conns \cup {None}]
    <3>1. CASE Shadowing(p)
      <4>1. connections[req[p].name] \in Conns
        BY <1>b, <2>1, <3>1 DEF Shadowing, TypeOK
      <4>2. /\ UNCHANGED <<connections, flight>>
            /\ \/ held' = [held EXCEPT ![p] = {connections[req[p].name]}]
               \/ held' = [held EXCEPT ![p] = {}]
        BY <1>15, <3>1, Zenon DEF Insert
      <4> QED
        BY <1>b, <4>1, <4>2 DEF TypeOK
    <3>2. CASE ~Shadowing(p)
      <4>1. PICK c \in held[p] : /\ connections' = [connections EXCEPT ![req[p].name] = c]
                                 /\ flight' = [flight EXCEPT ![p] = c]
                                 /\ held' = held
        BY <1>15, <3>2 DEF Insert
      <4>2. c \in Conns
        BY <1>b DEF TypeOK
      <4> QED
        BY <1>b, <4>1, <4>2, Zenon DEF TypeOK
    <3> QED
      BY <3>1, <3>2
  <2> QED
    BY <1>15, <1>a, <1>b, <2>2, <2>3 DEF Insert, TypeOK
<1>16. ASSUME NEW p \in Callers, Handoff(p) PROVE TypeOK'
  <2>1. pc' \in [Callers -> PC] /\ req' \in [Callers -> Request]
    BY <1>16, <1>c, <1>d DEF Handoff
  <2>2. /\ lease' \in [Callers -> Conns \cup {None}]
        /\ client' \in [Callers -> Conns \cup {None}]
    BY <1>16, <1>b DEF Handoff, TypeOK
  <2>3. /\ flight' \in [Callers -> Conns \cup {None}]
        /\ seen' \in [Callers -> Conns \cup {None}]
    BY <1>16, <1>b DEF Handoff, Forget, TypeOK
  <2> QED
    BY <1>16, <1>a, <1>b, <2>1, <2>2, <2>3 DEF Handoff, TypeOK
<1>17. ASSUME NEW p \in Callers, ClientArc(p) PROVE TypeOK'
  BY <1>17, <1>a, <1>b DEF ClientArc, TypeOK
<1>18. ASSUME NEW p \in Callers, DropLease(p) PROVE TypeOK'
  BY <1>18, <1>a, <1>b DEF DropLease, TypeOK
<1>19. ASSUME NEW p \in Callers, DropClient(p) PROVE TypeOK'
  BY <1>19, <1>a, <1>b DEF DropClient, TypeOK
<1>20. ASSUME NEW p \in Callers, Detach(p) PROVE TypeOK'
  <2>1. PICK which \in SUBSET Names :
          /\ connections' = [n \in Names |-> IF n \in which THEN None ELSE connections[n]]
          /\ held' = [held EXCEPT ![p] = {connections[n] : n \in which} \ {None}]
    BY <1>20, <1>b, Zenon DEF Detach, RequestShape, Nameless
  <2>2. {connections[n] : n \in which} \ {None} \subseteq Conns
    BY <1>b DEF TypeOK
  <2>3. pc' \in [Callers -> PC] /\ req' \in [Callers -> Request]
    BY <1>20, <1>c, <1>d DEF Detach
  <2> QED
    BY <1>20, <1>a, <1>b, <2>1, <2>2, <2>3, Zenon DEF Detach, TypeOK
<1>21. ASSUME NEW p \in Callers, CloseNext(p) PROVE TypeOK'
  BY <1>21, <1>a, <1>b, <1>c, <1>d DEF CloseNext, TypeOK
<1>22. ASSUME NEW p \in Callers, Cancel(p) PROVE TypeOK'
  BY <1>22, <1>a, <1>b, <1>c, <1>d DEF Cancel, AfterCancel, Forget, TypeOK
<1>23. ASSUME NEW p \in Callers, Start(p) PROVE TypeOK'
  <2>1. PICK r \in Request, l \in {"lookup", "get", "remove", "close_all", "prune_op"} :
          Begin(p, r, l) /\ (r.op \in ConnectOps => r.name \in Names)
    BY <1>23, StartShape
  <2> QED
    BY <1>a, <1>b, <1>d, <2>1 DEF Begin, TypeOK
<1>24. ASSUME NEW p \in Callers, NEW q \in Callers, CloneLease(p, q) PROVE TypeOK'
  BY <1>24, <1>a, <1>b DEF CloneLease, TypeOK
<1>25. ASSUME NEW c \in Conns, TransportDown(c) PROVE TypeOK'
  BY <1>25, <1>a, <1>b DEF TransportDown, TypeOK
<1>26. ASSUME NEW c \in Conns, IdleTimeout(c) PROVE TypeOK'
  BY <1>26, <1>a, <1>b DEF IdleTimeout, TypeOK
<1> QED
  BY <1>1, <1>2, <1>3, <1>4, <1>5, <1>6, <1>7, <1>8, <1>9, <1>10, <1>11, <1>12, <1>13,
       <1>14, <1>15, <1>16, <1>17, <1>18, <1>19, <1>20, <1>21, <1>22, <1>23, <1>24,
       <1>25, <1>26 DEF Next, Step, Handle

\* A call's request is legal until it ends.
LEMMA RequestStep == ASSUME Core, Next PROVE RequestShape'
<1>b. TypeOK /\ RequestShape
  BY DEF Core
<1>1. ASSUME NEW p \in Callers, LookupMiss(p) PROVE RequestShape'
  BY <1>1, <1>b DEF LookupMiss, Goto, Lookups, TypeOK, RequestShape, Nameless,
       NotConnect
<1>2. ASSUME NEW p \in Callers, LookupDead(p) PROVE RequestShape'
  BY <1>2, <1>b DEF LookupDead, Goto, Lookups, TypeOK, RequestShape, Nameless,
       NotConnect
<1>3. ASSUME NEW p \in Callers, LookupHit(p) PROVE RequestShape'
  BY <1>3, <1>b DEF LookupHit, Goto, Lookups, Granted, TypeOK, RequestShape, Nameless,
       NotConnect
<1>4. ASSUME NEW p \in Callers, LookupReject(p) PROVE RequestShape'
  BY <1>4, <1>b DEF LookupReject, Goto, Lookups, TypeOK, RequestShape, Nameless,
       NotConnect
<1>5. ASSUME NEW p \in Callers, EvictDead(p) PROVE RequestShape'
  BY <1>5, <1>b DEF EvictDead, Goto, Evictions, TypeOK, RequestShape, Nameless,
       NotConnect
<1>6. ASSUME NEW p \in Callers, GetMiss(p) PROVE RequestShape'
  BY <1>6, <1>b DEF GetMiss, Goto, TypeOK, RequestShape, Nameless, NotConnect
<1>7. ASSUME NEW p \in Callers, GetHit(p) PROVE RequestShape'
  BY <1>7, <1>b DEF GetHit, Goto, TypeOK, RequestShape, Nameless, NotConnect
<1>8. ASSUME NEW p \in Callers, Claim(p) PROVE RequestShape'
  BY <1>8, <1>b DEF Claim, Goto, LeaderStart, TypeOK, RequestShape, Nameless, NotConnect
<1>9. ASSUME NEW p \in Callers, Unlead(p) PROVE RequestShape'
  <2>1. /\ pc'[p] \in {"idle", "handoff"} /\ pc[p] = "unlead"
        /\ pc'[p] # "idle" => req'[p] = req[p]
        /\ \A q \in Callers \ {p} :
             /\ req'[q] = req[q]
             /\ pc'[q] = pc[q] \/ (pc[q] = "wait" /\ pc'[q] \in {"lookup", "follower"})
    BY <1>9, <1>b DEF Unlead, Followers, TypeOK
  <2> QED
    BY <1>b, <2>1 DEF RequestShape, Nameless, NotConnect
<1>10. ASSUME NEW p \in Callers, Prune(p) PROVE RequestShape'
  BY <1>10, <1>b DEF Prune, Goto, TypeOK, RequestShape, Nameless, NotConnect
<1>11. ASSUME NEW p \in Callers, DropPruned(p) PROVE RequestShape'
  BY <1>11, <1>b DEF DropPruned, Goto, TypeOK, RequestShape, Nameless, NotConnect
<1>12. ASSUME NEW p \in Callers, Acquire(p) PROVE RequestShape'
  BY <1>12, <1>b DEF Acquire, Goto, TypeOK, RequestShape, Nameless, NotConnect
<1>13. ASSUME NEW p \in Callers, ConnectOk(p) PROVE RequestShape'
  BY <1>13, <1>b DEF ConnectOk, Goto, TypeOK, RequestShape, Nameless, NotConnect
<1>14. ASSUME NEW p \in Callers, ConnectFail(p) PROVE RequestShape'
  BY <1>14, <1>b DEF ConnectFail, Goto, TypeOK, RequestShape, Nameless, NotConnect
<1>15. ASSUME NEW p \in Callers, Insert(p) PROVE RequestShape'
  <2>1. pc[p] = "insert" /\ \E l \in {"handoff_lead", "unlead"} : Goto(p, l)
    BY <1>15, InsertGoto
  <2> QED
    BY <1>b, <2>1 DEF Goto, TypeOK, RequestShape, Nameless, NotConnect
<1>16. ASSUME NEW p \in Callers, Handoff(p) PROVE RequestShape'
  <2>1. /\ pc[p] \in {"handoff", "handoff_lead"}
        /\ \/ Goto(p, "idle")
           \/ pc[p] = "handoff_lead" /\ Goto(p, "unlead")
    BY <1>16 DEF Handoff
  <2> QED
    BY <1>b, <2>1 DEF Goto, TypeOK, RequestShape, Nameless, NotConnect
<1>17. ASSUME NEW p \in Callers, ClientArc(p) PROVE RequestShape'
  BY <1>17, <1>b DEF ClientArc, TypeOK, RequestShape, Nameless, NotConnect
<1>18. ASSUME NEW p \in Callers, DropLease(p) PROVE RequestShape'
  BY <1>18, <1>b DEF DropLease, TypeOK, RequestShape, Nameless, NotConnect
<1>19. ASSUME NEW p \in Callers, DropClient(p) PROVE RequestShape'
  BY <1>19, <1>b DEF DropClient, TypeOK, RequestShape, Nameless, NotConnect
<1>20. ASSUME NEW p \in Callers, Detach(p) PROVE RequestShape'
  BY <1>20, <1>b DEF Detach, Goto, TypeOK, RequestShape, Nameless, NotConnect
<1>21. ASSUME NEW p \in Callers, CloseNext(p) PROVE RequestShape'
  <2>1. pc[p] = "closing" /\ (Goto(p, "idle") \/ Goto(p, "closing"))
    BY <1>21 DEF CloseNext
  <2> QED
    BY <1>b, <2>1 DEF Goto, TypeOK, RequestShape, Nameless, NotConnect
<1>22. ASSUME NEW p \in Callers, Cancel(p) PROVE RequestShape'
  <2>1. Goto(p, "idle") \/ (pc[p] \in LeaderPC /\ Goto(p, "unlead"))
    BY <1>22 DEF Cancel, AfterCancel
  <2> QED
    BY <1>b, <2>1 DEF Goto, TypeOK, RequestShape, Nameless, NotConnect, LeaderPC
<1>23. ASSUME NEW p \in Callers, Start(p) PROVE RequestShape'
  <2>1. PICK r \in Request, l \in {"lookup", "get", "remove", "close_all", "prune_op"} :
          /\ Begin(p, r, l)
          /\ l \in {"lookup", "get", "remove"} => r.name \in Names
          /\ l = "lookup" => /\ r.op \in ConnectOps /\ r.config \in Configs
                             /\ r.key \in Keys \cup {NonReusable}
    BY <1>23, StartShape
  <2> QED
    BY <1>b, <2>1 DEF Begin, TypeOK, RequestShape, Nameless, NotConnect
<1>24. ASSUME NEW p \in Callers, NEW q \in Callers, CloneLease(p, q) PROVE RequestShape'
  BY <1>24, <1>b DEF CloneLease, TypeOK, RequestShape, Nameless, NotConnect
<1>25. ASSUME NEW c \in Conns, TransportDown(c) PROVE RequestShape'
  BY <1>25, <1>b DEF TransportDown, TypeOK, RequestShape, Nameless, NotConnect
<1>26. ASSUME NEW c \in Conns, IdleTimeout(c) PROVE RequestShape'
  BY <1>26, <1>b DEF IdleTimeout, TypeOK, RequestShape, Nameless, NotConnect
<1> QED
  BY <1>1, <1>2, <1>3, <1>4, <1>5, <1>6, <1>7, <1>8, <1>9, <1>10, <1>11, <1>12, <1>13,
       <1>14, <1>15, <1>16, <1>17, <1>18, <1>19, <1>20, <1>21, <1>22, <1>23, <1>24,
       <1>25, <1>26 DEF Next, Step, Handle

\* Every reference after the step is to a wrapper that already existed.
Inherited ==
    /\ \A n \in Names : connections'[n] # None =>
         managed[connections'[n]] # None /\ managed[connections'[n]].name = n
    /\ \A p \in Callers :
         /\ \A c \in held'[p] : managed[c] # None
         /\ pc'[p] = "insert" => \A c \in held'[p] : managed[c].name = req'[p].name
         /\ lease'[p] # None => managed[lease'[p]] # None

\* Then none of them dangles.
LEMMA InheritedSuffices ==
    ASSUME Inherited, Stays, TypeOK' PROVE NoDanglingReference' /\ CandidateShape'
<1>1. \A c \in Conns : managed[c] # None /\ Owned(c)' =>
        managed'[c] # None /\ managed'[c].name = managed[c].name
  BY DEF Stays, SameBinding
<1>2. ASSUME NEW n \in Names, connections'[n] # None
      PROVE  managed'[connections'[n]] # None /\ managed'[connections'[n]].name = n
  BY <1>1, <1>2 DEF Inherited, Owned, TypeOK
<1>3. ASSUME NEW p \in Callers, NEW c \in held'[p]
      PROVE  /\ managed'[c] # None
             /\ pc'[p] = "insert" => managed'[c].name = req'[p].name
  BY <1>1, <1>3 DEF Inherited, Owned, TypeOK
<1>4. ASSUME NEW p \in Callers, lease'[p] # None
      PROVE  managed'[lease'[p]] # None
  BY <1>1, <1>4 DEF Inherited, Owned, TypeOK
<1> QED
  BY <1>2, <1>3, <1>4 DEF NoDanglingReference, CandidateShape

\* Every step but the creation of a wrapper only moves or drops references.
LEMMA InheritedStep ==
    ASSUME Core, Next, \A p \in Callers : ~ConnectOk(p) PROVE Inherited
<1>b. TypeOK /\ RequestShape /\ NoDanglingReference /\ CandidateShape
  BY DEF Core
<1>1. ASSUME NEW p \in Callers, LookupMiss(p) PROVE Inherited
  BY <1>1, <1>b DEF LookupMiss, Goto, Inherited, TypeOK, CandidateShape,
       NoDanglingReference
<1>2. ASSUME NEW p \in Callers, LookupDead(p) PROVE Inherited
  <2>1. /\ pc[p] \in Lookups \cup {"get"} /\ connections[req[p].name] # None
        /\ held' = [held EXCEPT ![p] = {connections[req[p].name]}]
        /\ UNCHANGED <<connections, lease>>
    BY <1>2 DEF LookupDead
  <2>2. \E l \in {"evict_lookup", "evict_leader", "evict_follower", "evict_get"} : Goto(p, l)
    BY <1>2 DEF LookupDead, Lookups
  <2>3. managed[connections[req[p].name]] # None
    BY <1>b, <2>1 DEF RequestShape, Nameless, Lookups, NoDanglingReference
  <2> QED
    BY <1>b, <2>1, <2>2, <2>3 DEF Goto, Inherited, TypeOK, CandidateShape,
         NoDanglingReference
<1>3. ASSUME NEW p \in Callers, LookupHit(p) PROVE Inherited
  <2>1. /\ pc[p] \in Lookups /\ connections[req[p].name] # None
        /\ held' = [held EXCEPT ![p] = {connections[req[p].name]}]
        /\ UNCHANGED <<connections, lease>>
    BY <1>3 DEF LookupHit
  <2>2. \E l \in {"handoff", "handoff_lead", "unlead"} : Goto(p, l)
    BY <1>3 DEF LookupHit, Granted
  <2>3. managed[connections[req[p].name]] # None
    BY <1>b, <2>1 DEF RequestShape, Nameless, Lookups, NoDanglingReference
  <2> QED
    BY <1>b, <2>1, <2>2, <2>3 DEF Goto, Inherited, TypeOK, CandidateShape,
         NoDanglingReference
<1>4. ASSUME NEW p \in Callers, LookupReject(p) PROVE Inherited
  BY <1>4, <1>b DEF LookupReject, Goto, Inherited, TypeOK, CandidateShape,
       NoDanglingReference
<1>5. ASSUME NEW p \in Callers, EvictDead(p) PROVE Inherited
  BY <1>5, <1>b DEF EvictDead, Goto, Inherited, TypeOK, CandidateShape,
       NoDanglingReference
<1>6. ASSUME NEW p \in Callers, GetMiss(p) PROVE Inherited
  BY <1>6, <1>b DEF GetMiss, Goto, Inherited, TypeOK, CandidateShape,
       NoDanglingReference
<1>7. ASSUME NEW p \in Callers, GetHit(p) PROVE Inherited
  <2>1. /\ pc[p] = "get" /\ connections[req[p].name] # None
        /\ held' = [held EXCEPT ![p] = {connections[req[p].name]}]
        /\ UNCHANGED <<connections, lease>>
    BY <1>7 DEF GetHit
  <2>2. \E l \in {"handoff"} : Goto(p, l)
    BY <1>7 DEF GetHit
  <2>3. managed[connections[req[p].name]] # None
    BY <1>b, <2>1 DEF RequestShape, Nameless, Lookups, NoDanglingReference
  <2> QED
    BY <1>b, <2>1, <2>2, <2>3 DEF Goto, Inherited, TypeOK, CandidateShape,
         NoDanglingReference
<1>8. ASSUME NEW p \in Callers, Claim(p) PROVE Inherited
  BY <1>8, <1>b DEF Claim, Goto, LeaderStart, Inherited, TypeOK, CandidateShape,
       NoDanglingReference
<1>9. ASSUME NEW p \in Callers, Unlead(p) PROVE Inherited
  <2>1. /\ UNCHANGED <<connections, held, lease>>
        /\ \A q \in Callers : pc'[q] = "insert" => pc[q] = "insert" /\ req'[q] = req[q]
    BY <1>9, <1>b DEF Unlead, TypeOK
  <2> QED
    BY <1>b, <2>1 DEF Inherited, NoDanglingReference, CandidateShape
<1>10. ASSUME NEW p \in Callers, Prune(p) PROVE Inherited
  BY <1>10, <1>b DEF Prune, Goto, Inherited, TypeOK, CandidateShape, NoDanglingReference
<1>11. ASSUME NEW p \in Callers, DropPruned(p) PROVE Inherited
  BY <1>11, <1>b DEF DropPruned, Goto, Inherited, TypeOK, CandidateShape,
       NoDanglingReference
<1>12. ASSUME NEW p \in Callers, Acquire(p) PROVE Inherited
  BY <1>12, <1>b DEF Acquire, Goto, Inherited, TypeOK, CandidateShape,
       NoDanglingReference
<1>13. ASSUME NEW p \in Callers, ConnectFail(p) PROVE Inherited
  BY <1>13, <1>b DEF ConnectFail, Goto, Inherited, TypeOK, CandidateShape,
       NoDanglingReference
<1>14. ASSUME NEW p \in Callers, Insert(p) PROVE Inherited
  <2>1. req[p].name \in Names /\ pc[p] = "insert"
    BY <1>14, <1>b DEF Insert, RequestShape, Nameless
  <2>2. /\ pc' = [pc EXCEPT ![p] = pc'[p]] /\ pc'[p] # "insert"
        /\ req' = req /\ lease' = lease
    <3>1. \E l \in {"handoff_lead", "unlead"} : Goto(p, l)
      BY <1>14, InsertGoto
    <3> QED
      BY <1>14, <1>b, <3>1 DEF Insert, Goto, TypeOK
  <2>3. CASE Shadowing(p)
    <3>1. /\ UNCHANGED connections
          /\ \/ held' = [held EXCEPT ![p] = {connections[req[p].name]}]
             \/ held' = [held EXCEPT ![p] = {}]
      BY <1>14, <2>3, Zenon DEF Insert
    <3>2. connections[req[p].name] # None
      BY <2>3 DEF Shadowing
    <3> QED
      BY <1>b, <2>1, <2>2, <3>1, <3>2 DEF Inherited, TypeOK, NoDanglingReference,
           CandidateShape
  <2>4. CASE ~Shadowing(p)
    <3>1. PICK c \in held[p] : connections' = [connections EXCEPT ![req[p].name] = c]
      BY <1>14, <2>4 DEF Insert
    <3>2. held' = held
      BY <1>14, <2>4 DEF Insert
    <3> QED
      BY <1>b, <2>1, <2>2, <3>1, <3>2 DEF Inherited, TypeOK, NoDanglingReference,
           CandidateShape
  <2> QED
    BY <2>3, <2>4
<1>15. ASSUME NEW p \in Callers, Handoff(p) PROVE Inherited
  <2>1. /\ UNCHANGED connections
        /\ held' = [held EXCEPT ![p] = {}]
        /\ Goto(p, "idle") \/ Goto(p, "unlead")
    BY <1>15 DEF Handoff
  <2>2. lease' = lease \/ \E c \in held[p] : lease' = [lease EXCEPT ![p] = c]
    BY <1>15, Zenon DEF Handoff
  <2> QED
    BY <1>b, <2>1, <2>2 DEF Goto, Inherited, TypeOK, CandidateShape, NoDanglingReference
<1>16. ASSUME NEW p \in Callers, ClientArc(p) PROVE Inherited
  BY <1>16, <1>b DEF ClientArc, Inherited, TypeOK, CandidateShape, NoDanglingReference
<1>17. ASSUME NEW p \in Callers, DropLease(p) PROVE Inherited
  BY <1>17, <1>b DEF DropLease, Inherited, TypeOK, CandidateShape, NoDanglingReference
<1>18. ASSUME NEW p \in Callers, DropClient(p) PROVE Inherited
  BY <1>18, <1>b DEF DropClient, Inherited, TypeOK, CandidateShape, NoDanglingReference
<1>19. ASSUME NEW p \in Callers, Detach(p) PROVE Inherited
  <2>1. PICK which \in SUBSET Names :
          /\ connections' = [n \in Names |-> IF n \in which THEN None ELSE connections[n]]
          /\ held' = [held EXCEPT ![p] = {connections[n] : n \in which} \ {None}]
    BY <1>19, <1>b, Zenon DEF Detach, RequestShape, Nameless
  <2>2. lease' = lease /\ (Goto(p, "idle") \/ Goto(p, "closing"))
    BY <1>19, Zenon DEF Detach
  <2> QED
    BY <1>b, <2>1, <2>2 DEF Goto, Inherited, TypeOK, CandidateShape, NoDanglingReference
<1>20. ASSUME NEW p \in Callers, CloseNext(p) PROVE Inherited
  BY <1>20, <1>b DEF CloseNext, Goto, Inherited, TypeOK, CandidateShape,
       NoDanglingReference
<1>21. ASSUME NEW p \in Callers, Cancel(p) PROVE Inherited
  <2>1. /\ UNCHANGED <<connections, lease>>
        /\ held' = [held EXCEPT ![p] = {}]
        /\ Goto(p, "idle") \/ Goto(p, "unlead")
    BY <1>21 DEF Cancel, AfterCancel
  <2> QED
    BY <1>b, <2>1 DEF Goto, Inherited, TypeOK, CandidateShape, NoDanglingReference
<1>22. ASSUME NEW p \in Callers, Start(p) PROVE Inherited
  <2>1. PICK r \in Request, l \in {"lookup", "get", "remove", "close_all", "prune_op"} :
          Begin(p, r, l)
    BY <1>22, StartShape
  <2> QED
    BY <1>b, <2>1 DEF Begin, Inherited, TypeOK, NoDanglingReference, CandidateShape
<1>23. ASSUME NEW p \in Callers, NEW q \in Callers, CloneLease(p, q) PROVE Inherited
  BY <1>23, <1>b DEF CloneLease, Inherited, TypeOK, CandidateShape, NoDanglingReference
<1>24. ASSUME NEW c \in Conns, TransportDown(c) PROVE Inherited
  BY <1>24, <1>b DEF TransportDown, Inherited, TypeOK, CandidateShape,
       NoDanglingReference
<1>25. ASSUME NEW c \in Conns, IdleTimeout(c) PROVE Inherited
  BY <1>25, <1>b DEF IdleTimeout, Inherited, TypeOK, CandidateShape, NoDanglingReference
<1> QED
  BY <1>1, <1>2, <1>3, <1>4, <1>5, <1>6, <1>7, <1>8, <1>9, <1>10, <1>11, <1>12, <1>13,
       <1>14, <1>15, <1>16, <1>17, <1>18, <1>19, <1>20, <1>21, <1>22, <1>23, <1>24,
       <1>25 DEF Next, Step, Handle

\* Core is inductive.
LEMMA CoreStep == ASSUME Core, [Next]_vars PROVE Core'
<1>1. CASE UNCHANGED vars
  BY <1>1 DEF vars, Core, TypeOK, RequestShape, CandidateShape, NoDanglingReference
<1>2. CASE Next
  <2>1. TypeOK' /\ RequestShape' /\ Stays
    BY <1>2, TypeStep, RequestStep, WrapperStep
  <2>2. CASE \A p \in Callers : ~ConnectOk(p)
    BY <1>2, <2>1, <2>2, InheritedStep, InheritedSuffices DEF Core
  <2>3. ASSUME NEW p \in Callers, ConnectOk(p) PROVE NoDanglingReference' /\ CandidateShape'
    <3>1. PICK c \in Conns :
            /\ Fresh(c)
            /\ managed'[c] \in ManagedConnection /\ managed'[c].name = req[p].name
            /\ \A d \in Conns \ {c} : managed'[d] = managed[d]
            /\ held' = [held EXCEPT ![p] = {c}]
      BY <2>3, NewWrapper
    <3>2. managed[c] = None /\ managed'[c] # None
      BY <3>1, NoneAssumption DEF Fresh
    <3>3. /\ connections' = connections /\ lease' = lease /\ req' = req
          /\ pc' = [pc EXCEPT ![p] = "insert"]
      BY <2>3 DEF ConnectOk, Goto
    <3> QED
      BY <3>1, <3>2, <3>3 DEF Core, TypeOK, NoDanglingReference, CandidateShape
  <2> QED
    BY <2>1, <2>2, <2>3 DEF Core
<1> QED
  BY <1>1, <1>2

\* An empty pool with idle callers satisfies Core.
LEMMA CoreInit == Init => Core
<1> SUFFICES ASSUME Init PROVE Core
  OBVIOUS
<1>1. NoRequest \in Request
  BY DEF NoRequest, Request, AllOps
<1>2. TypeOK
  BY <1>1, MaxConnectionsAssumption DEF Init, TypeOK, PC
<1>3. RequestShape /\ CandidateShape /\ NoDanglingReference
  BY DEF Init, RequestShape, CandidateShape, NoDanglingReference, Nameless, NotConnect
<1> QED
  BY <1>2, <1>3 DEF Core

\* Core is an invariant of the connection manager.
LEMMA CoreHolds == Spec => []Core
  BY CoreInit, CoreStep, PTL DEF Spec

\* Type correctness: no operation of the pool, in any interleaving, leaves a variable
\* outside its range; try_acquire_owned and the drops never make permits negative.
THEOREM TypeCorrect == Spec => []TypeOK
<1>1. Core => TypeOK
  BY DEF Core
<1> QED
  BY <1>1, CoreHolds, PTL

\* Arc ownership: the map, the locals of a call and the leases refer to wrappers
\* that exist, and a name is bound only to a connection made for that name.
THEOREM NothingDangles == Spec => []NoDanglingReference
<1>1. Core => NoDanglingReference
  BY DEF Core
<1> QED
  BY <1>1, CoreHolds, PTL
=============================================================================
