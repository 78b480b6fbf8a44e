SPECIFICATION Spec
CONSTANTS
  None = None
  Undefined = Undefined
  Ids = {r1, r2}
  Workers = {w1, w2}
  LastDay = 0
  Users = {u1, u2}
  Values = {1}
  Queries <- MCQueries
INVARIANTS QueriesAgree
PROPERTIES RowsAsRequests
SYMMETRY Symmetry
CONSTRAINT Calm
CHECK_DEADLOCK FALSE
