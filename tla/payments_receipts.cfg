SPECIFICATION Spec
CONSTANTS
  p1 = p1
  p2 = p2
  Count = 2
  Plots = {p1}
  PlotOf <- OnePlot
  Amount <- OneAmounts
  DueDay <- OneDue
  Payments = {x1, x2}
  Workers = {w1, w2}
  None = None
  Sums = {1, 3}
  Rules <- FlatOnly
  MonthDays = 2
  LastDay = 1
  ResetPolicy = "yearly"
  PeriodDays = 365
  LastNumber = 3
SYMMETRY PaymentSymmetry
INVARIANT SequenceIncrements
CHECK_DEADLOCK FALSE
