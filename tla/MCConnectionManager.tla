------------------------ MODULE MCConnectionManager ------------------------
(* Small instances of ConnectionManager for TLC. *)
EXTENDS ConnectionManager, TLC

CONSTANTS p1, p2, p3, c1, c2, c3, n1, n2, g1, g2, k1

\* Callers, aliases and connection pointers are interchangeable.
Symmetry == Permutations(Callers) \cup Permutations(Names) \cup Permutations(Conns)
=============================================================================
