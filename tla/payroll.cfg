SPECIFICATION Spec
CONSTANTS
  ann = ann
  bob = bob
  None = None
  Months = {1, 2}
  Loans = {l1, l2}
  Employees = {ann, bob}
  Workers = {w1, w2}
  Contract <- TwoContracts
  Marks <- TwoMarks
  Setups <- TwoSetups
  Grants <- TwoGrants
CONSTRAINT Undisturbed
INVARIANTS
  JournalFollows
  LoansByRuns
  DraftsAddUp
CHECK_DEADLOCK FALSE
