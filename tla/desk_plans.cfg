SPECIFICATION Spec
CONSTANTS
  Plots = {p1}
  Bookings = {b1, b2}
  Members = {m1}
  Records = {r1, r2}
  Workers = {w1, w2}
  Installments = {i1, i2}
  None = None
  Edits = {"Sold"}
  Advances = {}
  MaxMishaps = 2
SYMMETRY DeskSymmetry
CONSTRAINTS FewMishaps NoPaymentsBesideRetries
INVARIANTS
  ConfirmedHasPlan
  CancelledOwesNothing
  OneBuyback
  BuybackRecordTrue
