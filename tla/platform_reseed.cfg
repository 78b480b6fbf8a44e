SPECIFICATION Spec
CONSTANTS
  boss = boss
  d1 = d1
  d2 = d2
  script = script
  alice = alice
  k1 = k1
  k2 = k2
  k3 = k3
  x1 = x1
  x2 = x2
  l1 = l1
  l2 = l2
  l3 = l3
  People = {admin, alice}
  Applicants = {alice}
  Passwords = {"x", "y"}
  Reserved = {boss}
  Callers = {c1, c2}
  MaxVersion = 1
  MaxResets = 1
  Nobody = Nobody
  RoleIds = {clerk, boss}
  System = {boss}
  Modules = {"bookings", "settings"}
  Hidden = {}
  Perms <- MCPerms
  Releases = {1, 2}
  MatrixOf <- MCMatrixOf
  Payloads <- MCPayloads
  Desks = {d1, d2}
  Scripts = {script}
  LastMinute = 1
  Nothing = Nothing
  Formats = {"filed", "standard"}
  Standard = "standard"
  StandardPerms <- MCStandard
  Admin = admin
  AdminRole = boss
  AdminPassword = "x"
  Lookups = {k1, k2, k3}
  Carried = {k1, k2}
  Rows = {x1, x2}
  Logs = {l1, l2, l3}
  Legacy <- MCLegacy
  MaxSequence = 2
  Openings <- MCOpenings

PROPERTY ExistingPreserved
CONSTRAINTS Calm AdminOnly
CHECK_DEADLOCK FALSE
