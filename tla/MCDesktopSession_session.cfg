SPECIFICATION Spec
CONSTANTS
  None = None
  Procs = {p1, p2, p3}
  Transports = {t1, t2}
  Terminals = {k1}
  Forwards = {}
  Locks = {l1, l2}
  MaxDisconnects = 1
SYMMETRY Symmetry
INVARIANTS TypeOK NothingLeaks NoZombie
