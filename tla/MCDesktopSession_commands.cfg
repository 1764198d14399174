CONSTANTS
  None = None
  Procs = {p1, p2}
  Transports = {t1, t2}
  Terminals = {}
  Forwards = {f1}
  Locks = {l1, l2}
  MaxDisconnects = 1
SPECIFICATION FairSpec
PROPERTIES CommandEnds
