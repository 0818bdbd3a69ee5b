SPECIFICATION Spec
CONSTANTS
  Pushers = {t1, t2}
  Poppers = {t2, t3}
  NQueue = 2
  Phi = 3
  ItemsPerPage = 2
  MaxPushes = 5
INVARIANTS PagesLive PagesKept
PROPERTIES ImplementsFifo CallsEnd
