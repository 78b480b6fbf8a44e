------------------------------ MODULE RoleMatrix ------------------------------
(***************************************************************************)
(* seeds/roleMatrix.js: the actions each role of the society is given on   *)
(* each module.  A grant is its set of actions; one that is empty is       *)
(* hidden.  A role a row does not name gets nothing.                       *)
(***************************************************************************)
EXTENDS TLC

ROLE_NAMES ==
  {"Society Admin", "Property Officer", "Finance Officer", "Operations Manager",
   "Security Manager", "Security Guard", "HR Officer", "Store & Procurement Officer",
   "Receptionist", "Auditor"}

NONE == {}
V == {"view"}
CREATE == V \cup {"create"}
E == CREATE \cup {"edit"}
A == V \cup {"approve", "reject"}
V_EXPORT == V \cup {"export", "print"}
ADMIN_MODULE == E \cup A \cup V_EXPORT \cup {"delete", "cancel"}

\* A row of the table: what the administrator, the officers of properties and of
\* finance and the other roles get, and the auditor, who may look at everything.
Row(admin, property, finance, others) ==
  ("Society Admin" :> admin) @@ ("Property Officer" :> property)
    @@ ("Finance Officer" :> finance) @@ ("Auditor" :> V) @@ others

Get(g, roles) == [role \in roles |-> g]
NobodyElse == Get(NONE, {})
Desk == "Receptionist"
Store == "Store & Procurement Officer"
Guarding == {"Security Manager", "Security Guard"}

PropertyRow ==
  [m \in {"dashboards"} |-> Get(V, ROLE_NAMES)]
  @@ [m \in {"members", "plots", "bookings"} |->
        Row(ADMIN_MODULE, E, V, Get(V, {"Operations Manager", Desk}))]

MoneyRow ==
  [m \in {"installments", "payments"} |-> Row(A, V, E, NobodyElse)]
  @@ ("refunds" :> Row(A \cup {"refund"}, CREATE, E \cup {"refund"}, NobodyElse))
  @@ ("expenses" :> Row(A, NONE, E, NobodyElse))
  @@ ("recovery" :> Row(A, V, E, Get(V, {"Operations Manager"})))

TitleRow ==
  [m \in {"transfers", "nocs", "possession", "construction", "registry"} |->
     Row(A, E, E, Get(V, {Desk}))]
  @@ [m \in {"plot-merge", "buyback"} |-> Row(A, NONE, NONE, NobodyElse)]

ServiceRow ==
  ("complaints" :> Row(A, V, NONE, Get(E, {"Operations Manager"}) @@ Get(CREATE, {Desk})))
  @@ [m \in {"maintenance", "assets"} |->
        Row(V, NONE, NONE, Get(E, {"Operations Manager"}) @@ Get(V, {Store}))]
  @@ [m \in {"inventory", "procurement"} |->
        Row(A, NONE, V, Get(V, {"Operations Manager"}) @@ Get(E, {Store}))]

GateRow ==
  [m \in {"security-guards", "security-vehicles"} |->
     Row(V, NONE, NONE, Get(E, {"Security Manager"}) @@ Get(V, {"Security Guard", Desk}))]
  @@ ("visitors" :> Row(V, NONE, NONE, Get(E, Guarding \cup {Desk})))
  @@ ("appointments" :> Row(V, NONE, NONE, Get(V, {"Operations Manager"}) @@ Get(E, {Desk})))

OfficeRow ==
  ("hr" :> Row(V, NONE, NONE, Get(E, {"HR Officer"})))
  @@ ("hr-payroll" :> Row(A, NONE, V \cup {"edit"}, Get(E, {"HR Officer"})))
  @@ ("notices" :> Row(E \cup {"approve", "delete", "print"}, V, V,
        Get(CREATE, {Desk}) @@ Get(V, ROLE_NAMES)))
  @@ ("reports" :> (Get(V_EXPORT, {"Society Admin", "Finance Officer", "Auditor"})
                      @@ Get(V, ROLE_NAMES \ {"Security Guard", Desk})))
  @@ [m \in {"users-roles", "settings"} |-> Row(E, NONE, NONE, NobodyElse)]
  @@ ("audit" :> Row(V, NONE, NONE, NobodyElse))
  @@ ("invoices" :> Row(V, V, V, NobodyElse))
  @@ ("documents" :> Row(ADMIN_MODULE, E, V, Get(V, {Desk})))

MATRIX == PropertyRow @@ MoneyRow @@ TitleRow @@ ServiceRow @@ GateRow @@ OfficeRow

expectedForRole(role) ==
  [m \in DOMAIN MATRIX |-> IF role \in DOMAIN MATRIX[m] THEN MATRIX[m][role] ELSE NONE]

\* Who may look up members and plots while filling in a form (lookups/service.js).
LOOKUP_PICKER_MODULES ==
  {"bookings", "payments", "complaints", "visitors", "transfers", "nocs", "possession",
   "construction", "appointments", "security-vehicles", "refunds", "plot-merge", "buyback"}

CanLookUp(role, module) ==
  LET grants == expectedForRole(role) IN
  \/ "view" \in grants[module]
  \/ \E m \in LOOKUP_PICKER_MODULES : "create" \in grants[m]

-----------------------------------------------------------------------------

\* "Delete is Admin-only" (line 4).
ASSUME DeleteIsAdminOnly ==
  \A role \in ROLE_NAMES, m \in DOMAIN MATRIX :
    "delete" \in expectedForRole(role)[m] => role = "Society Admin"

\* "Security Manager / Guard: lookup-only" (line 91): they, and no others, look up
\* members they may not see, and the pickers name modules the table has.
ASSUME LookupsReachGuards ==
  /\ LOOKUP_PICKER_MODULES \subseteq DOMAIN MATRIX
  /\ {role \in ROLE_NAMES : CanLookUp(role, "members")
                            /\ "view" \notin expectedForRole(role)["members"]} = Guarding
=============================================================================
