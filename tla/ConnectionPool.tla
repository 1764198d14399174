--------------------------- MODULE ConnectionPool ---------------------------
(* What ConnectionManager promises its callers, without its locks, lookups and *)
(* signals: a name is bound to one connection at a time and to none while one  *)
(* is being made for it, there are never more connections than the limit, and  *)
(* a connection exists as long as it is bound or in use, and no longer.        *)
EXTENDS Naturals, FiniteSets

CONSTANTS Callers, Names, Conns, MaxConnections, None

VARIABLES
    bound,      \* name -> its connection, or None
    maker,      \* name -> the caller that makes a connection for it, or None
    dialling,   \* the makers whose connection is not up yet
    uses,       \* caller -> the connections it has in hand
    live        \* the connections that exist

poolVars == <<bound, maker, dialling, uses, live>>

PoolInit ==
    /\ bound = [n \in Names |-> None] /\ maker = [n \in Names |-> None]
    /\ dialling = {} /\ uses = [p \in Callers |-> {}] /\ live = {}

\* The connections somebody or some name still has.
Kept(b, u) == ({b[n] : n \in Names} \ {None}) \cup UNION {u[p] : p \in Callers}

Dial(p, n) ==
    /\ bound[n] = None /\ maker[n] = None
    /\ Cardinality(live) + Cardinality(dialling) < MaxConnections
    /\ maker' = [maker EXCEPT ![n] = p] /\ dialling' = dialling \cup {p}
    /\ UNCHANGED <<bound, uses, live>>

Reach(p, n, c) ==
    /\ maker[n] = p /\ p \in dialling /\ c \notin live
    /\ dialling' = dialling \ {p}
    /\ uses' = [uses EXCEPT ![p] = {c}]
    /\ live' = live \cup {c}
    /\ UNCHANGED <<bound, maker>>

Bind(p, n, c) ==
    /\ maker[n] = p /\ p \notin dialling /\ bound[n] = None /\ c \in uses[p]
    /\ bound' = [bound EXCEPT ![n] = c] /\ maker' = [maker EXCEPT ![n] = None]
    /\ UNCHANGED <<dialling, uses, live>>

\* The attempt fails or is given up, before or after the connection is up.
Abandon(p, n) ==
    /\ maker[n] = p
    /\ maker' = [maker EXCEPT ![n] = None] /\ dialling' = dialling \ {p}
    /\ uses' = [uses EXCEPT ![p] = {}]
    /\ live' = Kept(bound, uses')
    /\ UNCHANGED bound

Take(p, n) ==
    /\ bound[n] # None
    /\ uses' = [uses EXCEPT ![p] = {bound[n]}]
    /\ UNCHANGED <<bound, maker, dialling, live>>

Share(p, q) ==
    /\ \E c \in uses[p] : uses' = [uses EXCEPT ![q] = {c}]
    /\ UNCHANGED <<bound, maker, dialling, live>>

\* A caller unbinds names, and has their connections in hand then, or none.
Unbind(p, N) ==
    /\ bound' = [n \in Names |-> IF n \in N THEN None ELSE bound[n]]
    /\ \E u \in {{}, {bound[n] : n \in N} \ {None}} : uses' = [uses EXCEPT ![p] = u]
    /\ live' = Kept(bound', uses')
    /\ UNCHANGED <<maker, dialling>>

Release(p, K) ==
    /\ uses' = [uses EXCEPT ![p] = @ \ K]
    /\ live' = Kept(bound, uses')
    /\ UNCHANGED <<bound, maker, dialling>>

PoolNext ==
    \/ \E p \in Callers, n \in Names :
          \/ Dial(p, n) \/ Abandon(p, n) \/ Take(p, n)
          \/ \E c \in Conns : Reach(p, n, c) \/ Bind(p, n, c)
    \/ \E p, q \in Callers : Share(p, q)
    \/ \E p \in Callers : \/ \E N \in SUBSET Names : Unbind(p, N)
                          \/ \E K \in SUBSET uses[p] : Release(p, K)

PoolSpec == PoolInit /\ [][PoolNext]_poolVars
=============================================================================
