------------------------------ MODULE MCPlatform ------------------------------
(* One account, role, grid and file of each kind; the role is the society's        *)
(* administrator, and a later release lets him print.                              *)
EXTENDS Platform, RoleMatrix

CONSTANTS boss, d1, d2, script, alice, k1, k2, k3, x1, x2, l1, l2, l3

Approver == <<"bookings", "approve">>
Operator == <<"settings", "manage">>
Keeper == Grant({"view", "edit"})

MCMatrixOf ==
  [n \in Releases |-> [q \in RoleIds |->
     [m \in Shown |->
        Grant(expectedForRole("Society Admin")[m] \cup (IF n = 1 THEN {} ELSE {"print"}))]]]

\* What a page hides it may send with actions all the same.
MCPayloads ==
  {[m \in Shown |-> IF m = "bookings" THEN Grant({"view", "cancel"})
                    ELSE [visible |-> FALSE, actions |-> {"edit"}]]}
MCPerms == {{Approver, Operator}}
MCStandard == [q \in RoleIds |-> {SystemAdmin}]

\* alice, who made the entry l1, is made by the administrator; l2 names a user who
\* is gone.  k3 is a NOC type.  k2, x2 and l3 are the server's.
MCLegacy ==
  [role |-> [q \in RoleIds |-> IF q = boss THEN {SystemAdmin} ELSE Nothing],
   grid |-> [q \in RoleIds |-> [m \in Modules |-> Keeper]],
   users |-> <<Admin, alice>>,
   madeBy |-> [u \in People |-> IF u = alice THEN Admin ELSE Nobody],
   password |-> [u \in People |-> "old"],
   holds |-> {<<Admin, boss>>},
   lookup |-> [k \in Lookups |-> IF k = k1 THEN "archived" ELSE IF k = k3 THEN "active" ELSE Nothing],
   row |-> [x \in Rows |-> IF x = x1 THEN [of |-> k1] ELSE Nothing],
   log |-> [l \in Logs |-> IF l = l1 THEN [by |-> alice]
                           ELSE IF l = l2 THEN [by |-> "gone"] ELSE Nothing],
   rule |-> [format |-> "filed", sequence |-> 1]]

MCOpenings ==
  {[parts |-> {"accounts", "deletions"}, staff |-> {d1}],
   [parts |-> {"accounts", "setup"}, staff |-> {d1}],
   [parts |-> {"roles", "deletions"}, staff |-> {d1, d2}],
   [parts |-> {"roles", "deploys"}, staff |-> {d1, script}],
   [parts |-> {"roles", "setup"}, staff |-> {script}],
   [parts |-> {"setup", "numbers"}, staff |-> {d1, d2}],
   [parts |-> {"setup", "lists"}, staff |-> {d1, script}]}

\* What follows two tasks that met on a role, a user or the rule is not followed.
Calm == ("roles" \in open.parts => halfway = {}) /\ torn = {} /\ ~raced

\* Beside cold starts only what becomes of the administrator is of interest.
AdminOnly ==
  {"accounts", "setup"} \subseteq open.parts =>
    resets = {} /\ \A u \in People \ {Admin} : ~Exists(u)
=============================================================================
