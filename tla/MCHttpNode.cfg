CONSTANTS
  r1 = r1
  r2 = r2
  c1 = c1
  c2 = c2
  Nobody = Nobody
  Requests = {r1, r2}
  Contexts = {c1, c2}
  Messages <- MCMessages
  ExtFilters <- MCExtFilters
  SharedCache = TRUE
  Window = 1
  ReplayTTL = 2
  MaxTime = 3
  Conns = {k1, k2, k3}
  Closers = {t1, t2}
SYMMETRY MCSymmetry
SPECIFICATION MCSpec
INVARIANTS HandledOnlyAuthorised ResponseIsOwn ReplayRefused NoLostSignal
CHECK_DEADLOCK FALSE
