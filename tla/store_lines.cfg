SPECIFICATION Spec
CONSTANTS
  a = a
  b = b
  None = None
  Items = {i1, i2}
  Names = {a, b}
  Receipts = {x1}
  Workers = {w1}
  Vendors = {v1}
  Requests = {r1}
  Quotes = {q1}
  Orders = {o1}
  Labels <- Crossed
  Sums = {1}
  Moves = 2
  Interventions = 0
  MaxHistory = 2
  RequestEdits = {"Approved"}
  QuoteEdits = {}
  OrderEdits = {}
  Deliveries <- Both
  Corrections = {}
CONSTRAINTS Undisturbed OneConcern FewMoves FewInterventions
INVARIANT OncePerLine
CHECK_DEADLOCK FALSE
