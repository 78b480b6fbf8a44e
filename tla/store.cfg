SPECIFICATION Spec
CONSTANTS
  a = a
  b = b
  None = None
  Items = {i1, i2}
  Names = {a, b}
  Receipts = {x1, x2}
  Workers = {w1, w2}
  Vendors = {v1}
  Requests = {r1}
  Quotes = {q1}
  Orders = {o1}
  Labels <- Crossed
  Sums = {1}
  Moves = 2
  Interventions = 1
  MaxHistory = 2
  RequestEdits = {"Approved"}
  QuoteEdits = {"Submitted"}
  OrderEdits = {"Cancelled"}
  Deliveries <- Both
  Corrections <- Rejects
SYMMETRY StoreSymmetry
CONSTRAINTS Undisturbed OneConcern FewMoves FewInterventions
INVARIANTS
  HistoryExplainsStock
  ReceivedOnce
  StatusByReceipt
  ParentsKept
CHECK_DEADLOCK FALSE
