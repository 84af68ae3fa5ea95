SPECIFICATION Spec
CONSTANTS
  c1 = c1 c2 = c2 c3 = c3 k1 = k1 k2 = k2
  Clients = {c1, c2, c3}
  Keys = {k1, k2}
  Requests <- MCRequests
  Limit <- MCLimit
  MaxRequests = 6
INVARIANTS LogExactUnlessMisfed
PROPERTIES ImplementsFairQueue TimeoutsAnswered
CHECK_DEADLOCK FALSE
