SPECIFICATION MCSpec
CONSTANTS
  a1 = a1
  b1 = b1
  p1 = p1
  None = None
  Bookings = {b1, b2}
  Plots = {p1}
  Agents = {a1, a2}
  Workers = {w1, w2}
  Servers = {s1, s2}
  PlotOf <- OnePlot
  Percents = {1, 2}
  MaxRows = 2
  MaxCalls = 1
  MaxMoves = 1
  MaxFaults = 2
CONSTRAINT Undisturbed
INVARIANTS
  OneActive
  CheckDecides
PROPERTIES
  ChecksSettle
CHECK_DEADLOCK FALSE
