SPECIFICATION Spec
CONSTANTS
  Plots = {p1, p2}
  Bookings = {b1, b2}
  Members = {m1}
  Records = {r1}
  Workers = {w1, w2}
  Installments = {i1}
  None = None
  Edits = {"Available"}
  Advances = {"Possessed"}
  MaxMishaps = 1
SYMMETRY DeskSymmetry
CONSTRAINTS FewMishaps NoPayments
INVARIANTS
  TypeOK
  OneBuyerPerPlot
  PlotTellsOfBooking
  MergedPlotUnsold
  MergeRecordTrue
PROPERTIES
  PlotFollowsTable
  KeepsRegister
