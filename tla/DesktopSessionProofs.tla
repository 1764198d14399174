------------------------ MODULE DesktopSessionProofs ------------------------
(***************************************************************************)
(* Type correctness of DesktopSession, and that no transport leaks, for    *)
(* any number of commands, transports, controls and disconnects.           *)
(***************************************************************************)
EXTENDS DesktopSession, FiniteSetTheorems, TLAPS

Locals == [op : Ops, lock : Locks \cup {None}, gen : 0..MaxDisconnects,
           lease : Transports \cup {None}, removed : Transports \cup {None}]

\* Everything of TypeOK but that the disconnects counted stay within their bound.
Typed ==
    /\ session \in Transports \cup {None} /\ managed \in Transports \cup {None}
    /\ alive \subseteq Transports
    /\ controls \in [Controls -> Transports \cup {None}]
    /\ slot \in Locks \cup {None} /\ holder \in [Locks -> Procs \cup {None}]
    /\ cooling \in BOOLEAN /\ wanted \in BOOLEAN
    /\ pc \in [Procs -> Labels] /\ loc \in [Procs -> Locals]

\* Only heals and disconnects wait for the lock, and only disconnects are counted.
Purpose ==
    \A p \in Procs :
        /\ pc[p] \in {"lock", "acquire"} => loc[p].op \in {"use", "disconnect"}
        /\ pc[p] = "note" => loc[p].op = "disconnect"

\* There is room for every disconnect that was begun.
Room ==
    /\ generation \in Nat
    /\ generation + Cardinality(Disconnecting) <= MaxDisconnects

IInv == Typed /\ Purpose /\ Room

\* The bound of TypeOK follows from the room that is left.
LEMMA RoomSuffices == ASSUME IInv PROVE TypeOK
<1>1. IsFiniteSet(Disconnecting)
  BY BoundAssumption, FS_Subset DEF Disconnecting
<1>2. Cardinality(Disconnecting) \in Nat
  BY <1>1, FS_CardinalityType
<1> QED
  BY <1>2, BoundAssumption DEF IInv, Typed, Room, TypeOK, Locals

\* What a step other than the beginning and the counting of a disconnect does.
Ordinary == generation' = generation /\ Disconnecting' \subseteq Disconnecting

\* Locals that stand for no call, and those a heal keeps with its lease.
LEMMA IdleTyped ==
    /\ Idle \in Locals
    /\ \A t \in Transports \cup {None} : [Idle EXCEPT !.op = "use", !.lease = t] \in Locals
<1>1. 0 \in 0..MaxDisconnects
  BY BoundAssumption
<1>2. Idle \in Locals
  BY <1>1 DEF Idle, Locals, Ops
<1> QED
  BY <1>2 DEF Locals, Ops

\* A step of command p to a segment that is not the wait for the lock or the counting.
Moves(p, l, r) ==
    /\ l \in Labels \ {"lock", "acquire", "note"} /\ r \in Locals
    /\ Goto(p, l) /\ loc' = [loc EXCEPT ![p] = r] /\ generation' = generation

\* What the commands share has its type.
Shared ==
    /\ session \in Transports \cup {None} /\ managed \in Transports \cup {None}
    /\ alive \subseteq Transports
    /\ controls \in [Controls -> Transports \cup {None}]
    /\ slot \in Locks \cup {None} /\ holder \in [Locks -> Procs \cup {None}]
    /\ cooling \in BOOLEAN /\ wanted \in BOOLEAN

\* Such a move keeps the types and the purposes.
LEMMA Moved ==
    ASSUME IInv, NEW p \in Procs, NEW l, NEW r, Moves(p, l, r), Shared'
    PROVE  Typed' /\ Purpose' /\ Ordinary
  BY DEF IInv, Moves, Goto, Shared, Typed, Purpose, Ordinary, Disconnecting

\* A step other than the beginning and the counting of a disconnect keeps them.
LEMMA OrdinaryStep ==
    ASSUME IInv, Next, \A p \in Procs : ~BeginDisconnect(p) /\ ~Note(p)
    PROVE  Typed' /\ Purpose' /\ Ordinary
<1> DEFINE Goal == Typed' /\ Purpose' /\ Ordinary
<1>b. Typed /\ Purpose /\ TypeOK
  BY RoomSuffices DEF IInv
<1>1. ASSUME NEW p \in Procs, BeginUse(p) PROVE Goal
  BY <1>b, <1>1 DEF BeginUse, Goto, At, Kept, registry, locks, memory, Typed, Purpose,
       Ordinary, Disconnecting, Locals, Ops, Labels
<1>2. ASSUME NEW p \in Procs, BeginConnect(p) PROVE Goal
  BY <1>b, <1>2 DEF BeginConnect, Goto, At, Kept, registry, locks, memory, Typed,
       Purpose, Ordinary, Disconnecting, Locals, Ops, Labels
<1>3. ASSUME NEW p \in Procs, Probe(p) PROVE Goal
  BY <1>b, <1>3, BoundAssumption DEF Probe, Goto, At, Kept, Return, registry, memory,
       Typed, Purpose, Ordinary, Disconnecting, Locals, Idle, Ops, TypeOK, Labels, Setup
<1>4. ASSUME NEW p \in Procs, Present(p) PROVE Goal
  BY <1>b, <1>4, BoundAssumption DEF Present, Goto, At, Return, registry, memory, Typed,
       Purpose, Ordinary, Disconnecting, Locals, Idle, Ops, Labels, Teardown, Setup
<1>5. ASSUME NEW p \in Procs, UseDone(p) PROVE Goal
  BY <1>b, <1>5, BoundAssumption DEF UseDone, Goto, At, Return, registry, memory, Typed,
       Purpose, Ordinary, Disconnecting, Locals, Idle, Ops, Labels
<1>6. ASSUME NEW p \in Procs, StartTerminal(p) PROVE Goal
  BY <1>b, <1>6, BoundAssumption DEF StartTerminal, Register, Goto, At, Return, memory,
       Typed, Purpose, Ordinary, Disconnecting, Locals, Idle, Ops, Controls, Labels
<1>7. ASSUME NEW p \in Procs, StartForward(p) PROVE Goal
  BY <1>b, <1>7, BoundAssumption DEF StartForward, Register, Goto, At, Return, memory,
       Typed, Purpose, Ordinary, Disconnecting, Locals, Idle, Ops, Controls, Labels
<1>8. ASSUME NEW p \in Procs, FetchLock(p) PROVE Goal
  BY <1>b, <1>8 DEF FetchLock, Goto, At, Kept, registry, memory, Typed, Purpose,
       Ordinary, Disconnecting, Locals, Labels
<1>9. ASSUME NEW p \in Procs, Acquire(p) PROVE Goal
  BY <1>b, <1>9 DEF Acquire, Goto, At, registry, memory, Typed, Purpose, Ordinary,
       Disconnecting, Locals, Labels, Locked
<1>10. ASSUME NEW p \in Procs, HealCheck(p) PROVE Goal
  <2>1. \E l, r : Moves(p, l, r)
    <3>1. loc[p] \in Locals /\ loc = [loc EXCEPT ![p] = loc[p]]
      BY <1>b DEF Typed
    <3> QED
      BY <3>1, <1>b, <1>10, IdleTyped DEF HealCheck, Goto, Return, memory, Moves, Typed,
           Labels, Teardown, Setup, Locked
  <2>2. Shared'
    BY <1>b, <1>10 DEF HealCheck, Return, registry, locks, memory, Shared, Typed, Locals
  <2> QED
    BY <2>1, <2>2, Moved
<1>11. ASSUME NEW p \in Procs, Cooldown(p) PROVE Goal
  <2>1. \E l, r : Moves(p, l, r)
    <3>1. loc[p] \in Locals /\ loc = [loc EXCEPT ![p] = loc[p]]
      BY <1>b DEF Typed
    <3> QED
      BY <3>1, <1>b, <1>11, IdleTyped DEF Cooldown, Goto, Return, memory, Moves, Typed,
           Labels, Teardown, Setup, Locked
  <2>2. Shared'
    BY <1>b, <1>11 DEF Cooldown, Return, registry, locks, memory, Shared, Typed, Locals
  <2> QED
    BY <2>1, <2>2, Moved
<1>12. ASSUME NEW p \in Procs, ReadGeneration(p) PROVE Goal
  BY <1>b, <1>12 DEF ReadGeneration, Goto, At, Kept, registry, locks, memory, Typed,
       Purpose, Ordinary, Disconnecting, Locals, TypeOK, Labels, Locked
<1>13. ASSUME NEW p \in Procs, Previous(p) PROVE Goal
  BY <1>b, <1>13 DEF Previous, Goto, At, registry, locks, memory, Typed, Purpose,
       Ordinary, Disconnecting, Locals, Labels, Teardown, Locked
<1>14. ASSUME NEW p \in Procs, Verify(p) PROVE Goal
  BY <1>b, <1>14 DEF Verify, Goto, At, Kept, registry, locks, memory, Typed, Purpose,
       Ordinary, Disconnecting, Locals, Labels, Setup, Locked
<1>15. ASSUME NEW p \in Procs, Healed(p) PROVE Goal
  BY <1>b, <1>15 DEF Healed, Goto, At, registry, locks, Typed, Purpose, Ordinary,
       Disconnecting, Locals, Labels, Locked
<1>16. ASSUME NEW p \in Procs, Compare(p) PROVE Goal
  <2>1. Shared'
    BY <1>b, <1>16 DEF Compare, registry, memory, Shared, Typed, Locals
  <2>2. CASE generation # loc[p].gen
    <3>1. [loc[p] EXCEPT !.op = "discard"] \in Locals
      BY <1>b DEF Typed, Locals, Ops
    <3>2. loc' = [loc EXCEPT ![p] = [loc[p] EXCEPT !.op = "discard"]]
      BY <1>b, <1>16, <2>2 DEF Compare, Kept, Typed
    <3>3. Moves(p, "drop", [loc[p] EXCEPT !.op = "discard"])
      BY <1>16, <2>2, <3>1, <3>2 DEF Compare, memory, Moves, Labels, Teardown
    <3> QED
      BY <2>1, <3>3, Moved
  <2>3. CASE generation = loc[p].gen
    <3>1. loc[p].lease \in Transports \cup {None}
      BY <1>b DEF Typed, Locals
    <3>2. Moves(p, "leased", [Idle EXCEPT !.op = "use", !.lease = loc[p].lease])
      BY <1>16, <2>3, <3>1, IdleTyped DEF Compare, memory, Moves, Labels
    <3> QED
      BY <2>1, <3>2, Moved
  <2> QED
    BY <2>2, <2>3
<1>17. ASSUME NEW p \in Procs, Failed(p) PROVE Goal
  BY <1>b, <1>17, BoundAssumption DEF Failed, Goto, At, Return, registry, Typed,
       Purpose, Ordinary, Disconnecting, Locals, Idle, Ops, Labels, Locked
<1>18. ASSUME NEW p \in Procs, StopTerminals(p) PROVE Goal
  BY <1>b, <1>18 DEF StopTerminals, Emptied, Goto, At, locks, memory, Typed, Purpose,
       Ordinary, Disconnecting, Locals, Labels, Teardown
<1>19. ASSUME NEW p \in Procs, StopForwards(p) PROVE Goal
  BY <1>b, <1>19 DEF StopForwards, Emptied, Goto, At, locks, memory, Typed, Purpose,
       Ordinary, Disconnecting, Locals, Labels, Teardown
<1>20. ASSUME NEW p \in Procs, DropSession(p) PROVE Goal
  BY <1>b, <1>20 DEF DropSession, Goto, At, Kept, locks, memory, Typed, Purpose,
       Ordinary, Disconnecting, Locals, Labels, Teardown
<1>21. ASSUME NEW p \in Procs, Unmanage(p) PROVE Goal
  BY <1>b, <1>21 DEF Unmanage, Goto, At, Kept, locks, memory, Typed, Purpose, Ordinary,
       Disconnecting, Locals, Labels, Teardown, Setup
<1>22. ASSUME NEW p \in Procs, Close(p) PROVE Goal
  <2>1. Shared'
    BY <1>b, <1>22 DEF Close, Return, memory, Shared, Typed
  <2>2. CASE Return(p)
    BY <1>22, <2>1, <2>2, IdleTyped, Moved DEF Close, Return, memory, Moves, Labels
  <2>3. CASE ~Return(p)
    <3>1. [loc[p] EXCEPT !.lease = None] \in Locals
      BY <1>b DEF Typed, Locals
    <3>2. loc' = [loc EXCEPT ![p] = [loc[p] EXCEPT !.lease = None]]
      BY <1>b, <1>22, <2>3 DEF Close, Kept, Typed
    <3>3. \E l \in {"dial", "drop_slot"} : Moves(p, l, [loc[p] EXCEPT !.lease = None])
      BY <1>22, <2>3, <3>1, <3>2 DEF Close, memory, Moves, Labels, Setup, Locked
    <3> QED
      BY <2>1, <3>3, Moved
  <2> QED
    BY <2>2, <2>3
<1>23. ASSUME NEW p \in Procs, DropSlot(p) PROVE Goal
  BY <1>b, <1>23, BoundAssumption DEF DropSlot, Goto, At, Return, registry, memory,
       Typed, Purpose, Ordinary, Disconnecting, Locals, Idle, Ops, Labels, Locked
<1>24. ASSUME NEW p \in Procs, DialFails(p) PROVE Goal
  <2>1. \E l, r : Moves(p, l, r)
    <3>1. loc[p] \in Locals /\ loc = [loc EXCEPT ![p] = loc[p]]
      BY <1>b DEF Typed
    <3> QED
      BY <3>1, <1>b, <1>24, IdleTyped DEF DialFails, Goto, Return, memory, Moves, Typed,
           Labels, Teardown, Setup, Locked
  <2>2. Shared'
    BY <1>b, <1>24 DEF DialFails, Return, registry, locks, memory, Shared, Typed, Locals
  <2> QED
    BY <2>1, <2>2, Moved
<1>25. ASSUME NEW p \in Procs, Dial(p) PROVE Goal
  BY <1>b, <1>25 DEF Dial, Goto, At, locks, memory, Typed, Purpose, Ordinary,
       Disconnecting, Locals, Labels, Setup
<1>26. ASSUME NEW p \in Procs, GetLease(p) PROVE Goal
  BY <1>b, <1>26, BoundAssumption DEF GetLease, Goto, At, Kept, Return, memory, Typed,
       Purpose, Ordinary, Disconnecting, Locals, Idle, Ops, Labels, Setup
<1>27. ASSUME NEW p \in Procs, ConnectFails(p) PROVE Goal
  BY <1>b, <1>27, BoundAssumption DEF ConnectFails, Goto, At, Return, registry, memory,
       Typed, Purpose, Ordinary, Disconnecting, Locals, Idle, Ops, Labels, Setup
<1>28. ASSUME NEW p \in Procs, Insert(p) PROVE Goal
  <2>1. \E l, r : Moves(p, l, r)
    <3>1. loc[p] \in Locals /\ loc = [loc EXCEPT ![p] = loc[p]]
      BY <1>b DEF Typed
    <3> QED
      BY <3>1, <1>b, <1>28, IdleTyped DEF Insert, Goto, Return, memory, Moves, Typed,
           Labels, Teardown, Setup, Locked
  <2>2. Shared'
    BY <1>b, <1>28 DEF Insert, Return, registry, locks, memory, Shared, Typed, Locals
  <2> QED
    BY <2>1, <2>2, Moved
<1>29. ASSUME NEW p \in Procs, Reinsert(p) PROVE Goal
  BY <1>b, <1>29 DEF Reinsert, Goto, At, locks, memory, Typed, Purpose, Ordinary,
       Disconnecting, Locals, Labels, Setup, Locked
<1>30. ASSUME NEW t \in Transports, TransportDies(t) PROVE Goal
  BY <1>b, <1>30 DEF TransportDies, Remove, locks, memory, Typed, Purpose, Ordinary,
       Disconnecting
<1>31. ASSUME NEW c \in Controls, CloseTerminal(c) PROVE Goal
  BY <1>b, <1>31 DEF CloseTerminal, Remove, locks, memory, Typed, Purpose, Ordinary,
       Disconnecting
<1>32. ASSUME NEW c \in Controls, StopForward(c) PROVE Goal
  BY <1>b, <1>32 DEF StopForward, Remove, locks, memory, Typed, Purpose, Ordinary,
       Disconnecting
<1>33. CASE CooldownEnds
  BY <1>b, <1>33 DEF CooldownEnds, registry, locks, Typed, Purpose, Ordinary,
       Disconnecting
<1>34. CASE ListForwards
  BY <1>b, <1>34 DEF ListForwards, Emptied, locks, memory, Typed, Purpose, Ordinary,
       Disconnecting
<1> QED
  BY <1>1, <1>2, <1>3, <1>4, <1>5, <1>6, <1>7, <1>8, <1>9, <1>10, <1>11, <1>12, <1>13,
       <1>14, <1>15, <1>16, <1>17, <1>18, <1>19, <1>20, <1>21, <1>22, <1>23, <1>24,
       <1>25, <1>26, <1>27, <1>28, <1>29, <1>30, <1>31, <1>32, <1>33, <1>34 DEF Next,
       Environment, Begin, Step

\* The invariant is inductive.
LEMMA TypeStep == ASSUME IInv, [Next]_vars PROVE IInv'
<1>b. TypeOK /\ Typed /\ Purpose /\ Room
  BY RoomSuffices DEF IInv
<1>f. IsFiniteSet(Disconnecting) /\ Cardinality(Disconnecting) \in Nat
  BY BoundAssumption, FS_Subset, FS_CardinalityType DEF Disconnecting
<1>1. CASE UNCHANGED vars
  BY <1>1 DEF vars, registry, locks, memory, IInv, Typed, Purpose, Room, Disconnecting
<1>2. CASE Next /\ \A p \in Procs : ~BeginDisconnect(p) /\ ~Note(p)
  <2>1. Typed' /\ Purpose' /\ Ordinary
    BY <1>2, OrdinaryStep
  <2>2. Cardinality(Disconnecting') \in Nat
        /\ Cardinality(Disconnecting') <= Cardinality(Disconnecting)
    BY <2>1, <1>f, FS_Subset, FS_CardinalityType DEF Ordinary
  <2> QED
    BY <1>b, <1>f, <2>1, <2>2, BoundAssumption DEF IInv, Room, Ordinary
<1>3. ASSUME NEW p \in Procs, BeginDisconnect(p) PROVE IInv'
  <2>1. Typed' /\ Purpose'
    BY <1>b, <1>3 DEF BeginDisconnect, Goto, At, Kept, registry, locks, memory, Typed,
         Purpose, TypeOK, Locals, Ops, Labels
  <2>2. p \notin Disconnecting /\ Disconnecting' = Disconnecting \cup {p}
    BY <1>b, <1>3 DEF BeginDisconnect, Goto, At, Kept, Disconnecting, TypeOK
  <2>3. Cardinality(Disconnecting') = Cardinality(Disconnecting) + 1
    BY <2>2, <1>f, FS_AddElement
  <2>4. generation' = generation
        /\ generation + Cardinality(Disconnecting) < MaxDisconnects
    BY <1>3 DEF BeginDisconnect, memory
  <2> QED
    BY <1>b, <1>f, <2>1, <2>3, <2>4, BoundAssumption DEF IInv, Room
<1>4. ASSUME NEW p \in Procs, Note(p) PROVE IInv'
  <2>1. Typed' /\ Purpose'
    BY <1>b, <1>4 DEF Note, Goto, At, registry, locks, Typed, Purpose, Labels, Teardown
  <2>2. p \in Disconnecting /\ Disconnecting' = Disconnecting \ {p}
    BY <1>b, <1>4 DEF Note, Goto, At, Disconnecting, Typed, Purpose
  <2>3. Cardinality(Disconnecting') = Cardinality(Disconnecting) - 1
    BY <2>2, <1>f, FS_RemoveElement
  <2>4. generation' = generation + 1
    BY <1>4 DEF Note
  <2> QED
    BY <1>b, <1>f, <2>1, <2>3, <2>4, BoundAssumption DEF IInv, Room
<1> QED
  BY <1>1, <1>2, <1>3, <1>4

\* It holds throughout.
LEMMA TypeInv == Spec => []IInv
<1>1. Init => IInv
  <2>1. ASSUME Init PROVE Disconnecting = {}
    BY <2>1 DEF Init, Idle, Disconnecting
  <2>2. ASSUME Init PROVE Typed /\ Purpose
    BY <2>2, IdleTyped DEF Init, Typed, Purpose, Labels
  <2>3. ASSUME Init PROVE Room
    <3>1. Cardinality(Disconnecting) = 0 /\ generation = 0
      BY <2>1, <2>3, FS_EmptySet DEF Init
    <3> QED
      BY <3>1, BoundAssumption DEF Room
  <2> QED
    BY <2>2, <2>3 DEF IInv
<1> QED
  BY <1>1, TypeStep, PTL DEF Spec

\* Every variable of the session keeps its type; the disconnects that are counted are
\* those that were begun (note_disconnected, disconnect_host).
THEOREM TypeCorrect == Spec => []TypeOK
  BY TypeInv, RoomSuffices, PTL
-----------------------------------------------------------------------------
(* Transports *)

\* NothingLeaks is inductive once the types are known: only Dial brings a transport up,
\* and then nothing that is up was bound.
LEMMA LeakStep == ASSUME TypeOK, NothingLeaks, [Next]_vars PROVE NothingLeaks'
<1> DEFINE Goal == NothingLeaks'
<1>1. CASE UNCHANGED vars
  BY <1>1 DEF vars, registry, NothingLeaks, At
<1>2. ASSUME NEW p \in Procs, BeginUse(p) PROVE Goal
  BY <1>2 DEF BeginUse, Goto, At, Kept, registry, NothingLeaks, TypeOK
<1>3. ASSUME NEW p \in Procs, BeginConnect(p) PROVE Goal
  BY <1>3 DEF BeginConnect, Goto, At, Kept, registry, NothingLeaks, TypeOK
<1>4. ASSUME NEW p \in Procs, Probe(p) PROVE Goal
  BY <1>4 DEF Probe, Goto, At, Kept, Return, Live, registry, NothingLeaks, TypeOK
<1>5. ASSUME NEW p \in Procs, Present(p) PROVE Goal
  BY <1>5 DEF Present, Goto, At, Return, registry, NothingLeaks, TypeOK
<1>6. ASSUME NEW p \in Procs, UseDone(p) PROVE Goal
  BY <1>6 DEF UseDone, Goto, At, Return, registry, NothingLeaks, TypeOK
<1>7. ASSUME NEW p \in Procs, StartTerminal(p) PROVE Goal
  BY <1>7 DEF StartTerminal, Register, Goto, At, Return, NothingLeaks, TypeOK
<1>8. ASSUME NEW p \in Procs, StartForward(p) PROVE Goal
  BY <1>8 DEF StartForward, Register, Goto, At, Return, NothingLeaks, TypeOK
<1>9. ASSUME NEW p \in Procs, FetchLock(p) PROVE Goal
  BY <1>9 DEF FetchLock, Goto, At, Kept, registry, NothingLeaks, TypeOK
<1>10. ASSUME NEW p \in Procs, Acquire(p) PROVE Goal
  BY <1>10 DEF Acquire, Goto, At, registry, NothingLeaks, TypeOK
<1>11. ASSUME NEW p \in Procs, HealCheck(p) PROVE Goal
  BY <1>11 DEF HealCheck, Goto, At, Live, registry, NothingLeaks, TypeOK
<1>12. ASSUME NEW p \in Procs, Cooldown(p) PROVE Goal
  BY <1>12 DEF Cooldown, Goto, At, Return, registry, NothingLeaks, TypeOK
<1>13. ASSUME NEW p \in Procs, ReadGeneration(p) PROVE Goal
  BY <1>13 DEF ReadGeneration, Goto, At, Kept, registry, NothingLeaks, TypeOK
<1>14. ASSUME NEW p \in Procs, Previous(p) PROVE Goal
  BY <1>14 DEF Previous, Goto, At, registry, NothingLeaks, TypeOK
<1>15. ASSUME NEW p \in Procs, Verify(p) PROVE Goal
  BY <1>15 DEF Verify, Goto, At, Kept, Live, registry, NothingLeaks, TypeOK
<1>16. ASSUME NEW p \in Procs, Healed(p) PROVE Goal
  BY <1>16 DEF Healed, Goto, At, registry, NothingLeaks, TypeOK
<1>17. ASSUME NEW p \in Procs, Compare(p) PROVE Goal
  BY <1>17 DEF Compare, Goto, At, Kept, registry, NothingLeaks, TypeOK
<1>18. ASSUME NEW p \in Procs, Failed(p) PROVE Goal
  BY <1>18 DEF Failed, Goto, At, Return, registry, NothingLeaks, TypeOK
<1>19. ASSUME NEW p \in Procs, StopTerminals(p) PROVE Goal
  BY <1>19 DEF StopTerminals, Emptied, Goto, At, NothingLeaks, TypeOK
<1>20. ASSUME NEW p \in Procs, StopForwards(p) PROVE Goal
  BY <1>20 DEF StopForwards, Emptied, Goto, At, NothingLeaks, TypeOK
<1>21. ASSUME NEW p \in Procs, DropSession(p) PROVE Goal
  BY <1>21 DEF DropSession, Goto, At, Kept, NothingLeaks, TypeOK
<1>22. ASSUME NEW p \in Procs, Unmanage(p) PROVE Goal
  BY <1>22 DEF Unmanage, Goto, At, Kept, NothingLeaks, TypeOK
<1>23. ASSUME NEW p \in Procs, Close(p) PROVE Goal
  BY <1>23 DEF Close, Goto, At, Kept, Return, NothingLeaks, TypeOK
<1>24. ASSUME NEW p \in Procs, DropSlot(p) PROVE Goal
  BY <1>24 DEF DropSlot, Goto, At, Return, registry, NothingLeaks, TypeOK
<1>25. ASSUME NEW p \in Procs, DialFails(p) PROVE Goal
  BY <1>25 DEF DialFails, Goto, At, Return, registry, NothingLeaks, TypeOK
<1>26. ASSUME NEW p \in Procs, Dial(p) PROVE Goal
  BY <1>26, NoneAssumption DEF Dial, Goto, At, Live, NothingLeaks, TypeOK
<1>27. ASSUME NEW p \in Procs, GetLease(p) PROVE Goal
  BY <1>27 DEF GetLease, Goto, At, Kept, Return, Live, NothingLeaks, TypeOK
<1>28. ASSUME NEW p \in Procs, ConnectFails(p) PROVE Goal
  BY <1>28 DEF ConnectFails, Goto, At, Return, registry, NothingLeaks, TypeOK
<1>29. ASSUME NEW p \in Procs, Insert(p) PROVE Goal
  BY <1>29 DEF Insert, Goto, At, Return, NothingLeaks, TypeOK
<1>30. ASSUME NEW p \in Procs, Reinsert(p) PROVE Goal
  BY <1>30 DEF Reinsert, Goto, At, NothingLeaks, TypeOK
<1>31. ASSUME NEW p \in Procs, BeginDisconnect(p) PROVE Goal
  BY <1>31 DEF BeginDisconnect, Goto, At, Kept, registry, NothingLeaks, TypeOK
<1>32. ASSUME NEW p \in Procs, Note(p) PROVE Goal
  BY <1>32 DEF Note, Goto, At, registry, NothingLeaks, TypeOK
<1>33. ASSUME NEW t \in Transports, TransportDies(t) PROVE Goal
  BY <1>33 DEF TransportDies, Remove, At, NothingLeaks
<1>34. ASSUME NEW c \in Controls, CloseTerminal(c) PROVE Goal
  BY <1>34 DEF CloseTerminal, Remove, At, NothingLeaks
<1>35. ASSUME NEW c \in Controls, StopForward(c) PROVE Goal
  BY <1>35 DEF StopForward, Remove, At, NothingLeaks
<1>36. CASE CooldownEnds
  BY <1>36 DEF CooldownEnds, registry, At, NothingLeaks
<1>37. CASE ListForwards
  BY <1>37 DEF ListForwards, registry, At, NothingLeaks
<1> QED
  BY <1>1, <1>2, <1>3, <1>4, <1>5, <1>6, <1>7, <1>8, <1>9, <1>10, <1>11, <1>12, <1>13,
       <1>14, <1>15, <1>16, <1>17, <1>18, <1>19, <1>20, <1>21, <1>22, <1>23, <1>24,
       <1>25, <1>26, <1>27, <1>28, <1>29, <1>30, <1>31, <1>32, <1>33, <1>34, <1>35,
       <1>36, <1>37 DEF Next, Environment, Begin, Step

\* Leaks: whatever connects, heals and disconnects race, an authenticated connection
\* that is up is bound in the manager or about to be closed by the command that unbound
\* it (connect_saved, ConnectionManager::remove).
THEOREM NothingIsLeaked == Spec => []NothingLeaks
<1>1. Init => NothingLeaks
  BY DEF Init, NothingLeaks
<1> QED
  BY <1>1, TypeCorrect, LeakStep, PTL DEF Spec
=============================================================================
