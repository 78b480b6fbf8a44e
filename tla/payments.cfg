SPECIFICATION Spec
CONSTANTS
  p1 = p1
  p2 = p2
  Count = 3
  Plots = {p1, p2}
  PlotOf <- TwoPlots
  Amount <- TwoAmounts
  DueDay <- TwoDue
  Payments = {x1, x2}
  Workers = {w1, w2}
  None = None
  Sums = {1, 3}
  Rules <- Charges
  MonthDays = 2
  LastDay = 1
  ResetPolicy = "never"
  PeriodDays = 365
  LastNumber = 3
SYMMETRY PaymentSymmetry
CONSTRAINT Undisturbed
INVARIANTS
  PaidByPayments
  BalanceTrue
  OldestFirst
  BooksAgree
CHECK_DEADLOCK FALSE
