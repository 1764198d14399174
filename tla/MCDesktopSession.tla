-------------------------- MODULE MCDesktopSession --------------------------
(* Small instances of DesktopSession for TLC. *)
EXTENDS DesktopSession, TLC

Symmetry == Permutations(Procs) \cup Permutations(Transports) \cup Permutations(Locks)
=============================================================================
