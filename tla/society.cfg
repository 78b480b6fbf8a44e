SPECIFICATION Spec
CONSTANTS
  None = None
  Ids <- MCIds
  Workers = {w1, w2}
  LastDay = 1
  Plots = {plot}
  Members = {m1, m2}
  History = {h0, h1, h2, h3, h4}
  Transfers = {t1, t2}
  Possessions = {possession}
  Constructions = {construction}
  Inspections = {inspection}
  Nocs = {noc1, noc2, noc3}
  Batches = {batch1, batch2}
  Edits = {"Available"}
  PER_MODULE_CAP = 1
  Complaints = {complaint}
  WorkOrders = {order}
  Assets = {asset}
  MaxThread = 2
  Employees = {e1, e2}
  Marks = {a1, a2}
  Leaves = {leave}
  Guards = {guard}
  Duties = {d1, d2}
  Numbers = {1}
  Dates = {1}
  LeaveDays = {2}
  Allowance = 2
  Visits = {visit}
  Passes = {s1, s2}
  Blacklist = {listed}
  Vehicles = {v1, v2}
  Appointments = {j1, j2}
  Visitors = {visitor}
  Plates = {1, 2}
  PassNumbers = {1}
  Matches <- MCMatches
  Documents = {f1, f2, f3}
  Notices = {notice}
  Notifications = {n1, n2, n3}
  Invoices = {i1, i2}
  Spendings = {x1, x2}
  Persons = {q1, q2}
  Subjects = {subject}
  Users = {u1, u2}
  Cnics = {1, 2}
  MaxVersion = 3
  Openings <- MCOpenings
  First <- MCFirst
  Owner <- MCOwner
INVARIANTS KeysUnique OneCurrentVersion OwnerOnRecord TransferMovesOnce QueueHonest
PROPERTIES ThreadsGrow
SYMMETRY Symmetry
CONSTRAINT Calm
CHECK_DEADLOCK FALSE
