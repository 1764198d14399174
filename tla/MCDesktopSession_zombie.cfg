CONSTANTS
  None = None
  Procs = {p1, p2}
  Transports = {t1, t2, t3}
  Terminals = {}
  Forwards = {}
  Locks = {l1, l2}
  MaxDisconnects = 2
SPECIFICATION Spec
SYMMETRY Symmetry
INVARIANTS NoZombie
