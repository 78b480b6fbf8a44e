-------------------------------- MODULE Grids --------------------------------
(***************************************************************************)
(* What a role may do: its access grid, a row per module of the program    *)
(* (modules/rbac, roles, seeds/seedRoleRedefinition.js).  A grid is        *)
(* written row by row by requests of the server and by scripts run beside  *)
(* it; a task is a list of steps, and all tasks interleave.                *)
(***************************************************************************)
EXTENDS Naturals, Sequences, FiniteSets, SequencesExt, TLC

CONSTANTS
  RoleIds, Modules,
  System,        \* roles that come with the program; they are not edited or deleted
  Hidden,        \* modules the grid's editor and the role matrix leave alone
  Perms,         \* sets of legacy permissions <<prefix, action>> a role may carry
  Releases,      \* 1..n: releases of the program
  MatrixOf,      \* MatrixOf[release][r]: the grid of role r in roleMatrix.js
  Payloads,      \* grids an administrator may save
  Desks, Scripts, \* tasks in the server, and in processes of their own
  LastMinute,    \* bound: minutes
  Nothing

VARIABLES
  role,     \* role[r]: its legacy permissions, or Nothing if there is no such role
  grid,     \* grid[r][m]: the grant in the row for role and module, or Nothing
  marks,    \* marks[r]: the grid the role matrix last gave r, as remembered
  cached,   \* cached[r]: [at, view], the server's memory of what r may do
  minute, release,
  task,     \* task[w]: [todo, marks]; the steps left, the marks as read
  halfway,  \* ghost: roles whose grid two tasks wrote at once, or one left half written
  behind    \* ghost: roles whose grid changed with no word to the cache

gridVars == <<role, grid, marks, cached, minute, release, task, halfway, behind>>

Free == [todo |-> <<>>, marks |-> Nothing]
Shown == Modules \ Hidden
Blank == [m \in Modules |-> Nothing]

---- \* Grants

Actions == {"view", "create", "edit", "delete", "approve", "reject", "cancel", "print",
            "export", "refund"}

Grant(actions) == [visible |-> actions # {}, actions |-> actions]
NoGrant == Grant({})

\* legacyModuleByPrefix: most prefixes are a module's own key.
ModuleOf(prefix) ==
  CASE prefix = "security" -> "security-guards"
    [] prefix = "vehicles" -> "security-vehicles"
    [] prefix = "staff" -> "hr"
    [] prefix \in {"users", "roles"} -> "users-roles"
    [] prefix \in {"system", "hr", "security-guards", "security-vehicles", "users-roles"} -> "none"
    [] OTHER -> prefix

ActionOf(raw) ==
  CASE raw \in {"verify", "issue", "complete"} -> "approve"
    [] raw = "financial" -> "view"
    [] raw \in Actions -> raw
    [] OTHER -> "edit"

\* What a legacy permission stands for, some for more than they say.
ModuleActions(permission) ==
  LET prefix == permission[1]
      raw == permission[2]
      primary == IF permission = <<"refunds", "pay">> THEN "refund" ELSE ActionOf(raw) IN
  {<<ModuleOf(prefix), primary>>} \cup
  (IF permission = <<"staff", "manage_payroll">> THEN {<<"hr-payroll", "edit">>} ELSE {}) \cup
  (IF raw = "approve" /\ prefix \in {"bookings", "construction", "expenses", "refunds", "transfers"}
   THEN {<<prefix, "reject">>} ELSE {}) \cup
  (IF raw = "edit" /\ prefix \in {"bookings", "maintenance"} THEN {<<prefix, "cancel">>} ELSE {}) \cup
  (IF permission = <<"notices", "manage">> THEN {<<"notices", "delete">>} ELSE {})

SystemAdmin == <<"system", "admin">>

\* The grid that follows from permissions.
LegacyOf(perms) ==
  LET meant == UNION {ModuleActions(p) : p \in perms} IN
  [m \in Modules |-> IF SystemAdmin \in perms THEN Grant(Actions)
                     ELSE Grant({a \in Actions : <<m, a>> \in meant})]

---- \* What a role may do

Super(r) == role[r] # Nothing /\ SystemAdmin \in role[r]

\* The rows as the grid's editor and the role matrix compare them.
View(r) == [m \in Shown |-> IF grid[r][m] = Nothing THEN NoGrant ELSE grid[r][m]]

Visible(r, m) == grid[r][m] # Nothing /\ grid[r][m].visible

\* isAllowed: the server's decision on every request.
Allowed(r, m, a) == Super(r) \/ (Visible(r, m) /\ a \in grid[r][m].actions)

\* getMyAccess: what the pages offer.
Access(r) ==
  [m \in Modules |-> IF Super(r) THEN Actions
                     ELSE IF Visible(r, m) THEN grid[r][m].actions ELSE {}]

LegacyEmpty(r) == \A m \in Modules : ~\E a \in Actions : Visible(r, m) /\ a \in grid[r][m].actions

GridsInit ==
  /\ role \in [RoleIds -> Perms \cup {Nothing}]
  /\ grid = [r \in RoleIds |-> IF role[r] = Nothing THEN Blank ELSE LegacyOf(role[r])]
  /\ marks = [r \in RoleIds |-> Nothing]
  /\ cached = [r \in RoleIds |-> Nothing]
  /\ minute = 0 /\ release = 1
  /\ task = [w \in Desks \cup Scripts |-> Free]
  /\ halfway = {} /\ behind = {}

---- \* Tasks

Do(step, r) == [do |-> step, role |-> r, module |-> Nothing, grant |-> Nothing]
Put(r, m, g) == [do |-> "put", role |-> r, module |-> m, grant |-> g]
Puts(r, modules, g) == LET order == SetToSeq(modules) IN
                       [k \in DOMAIN order |-> Put(r, order[k], g[order[k]])]
\* Rows of a grid somebody edits on the page, which clears the cache afterwards.
Edits(r, modules, g) == [k \in DOMAIN Puts(r, modules, g) |->
                           [Puts(r, modules, g)[k] EXCEPT !.do = "edit"]]

Writers == {"put", "edit", "migrate", "ensure", "redefine", "drop grid"}
WritesGrid(w) ==
  {task[w].todo[k].role : k \in {j \in DOMAIN task[w].todo : task[w].todo[j].do \in Writers}}
InHand(w) ==
  {task[w].todo[k].role : k \in {j \in DOMAIN task[w].todo : task[w].todo[j].do \in {"put", "edit"}}}

WrittenBeside(w) == UNION {WritesGrid(v) : v \in DOMAIN task \ {w}}

WillClear(w) == \E k \in DOMAIN task[w].todo : task[w].todo[k].do = "clear"

Start(w, steps) ==
  /\ task[w] = Free
  /\ task' = [task EXCEPT ![w].todo = steps, ![w].marks = marks]
  /\ LET about == {steps[k].role : k \in {j \in DOMAIN steps : steps[j].do \in Writers}} IN
     halfway' = halfway \cup (about \cap WrittenBeside(w))

Has(w, step) == task[w].todo # <<>> /\ Head(task[w].todo).do = step
Subject(w) == Head(task[w].todo).role
\* The step is done; steps it led to come next.
Goes(w, more) ==
  LET left == more \o Tail(task[w].todo) IN
  task' = [task EXCEPT ![w] = IF left = <<>> THEN Free ELSE [@ EXCEPT !.todo = left]]
Rest == UNCHANGED <<minute, release>>

---- \* The steps

\* migrateRoleAccess, ensureRoleModuleAccess: the role's permissions are read,
\* then a row for every module written, or for every module that has none.
Migrate(w) ==
  /\ Has(w, "migrate")
  /\ LET r == Subject(w) IN
     Goes(w, IF role[r] = Nothing THEN <<>> ELSE Puts(r, Modules, LegacyOf(role[r])))
  /\ UNCHANGED <<role, grid, marks, cached, halfway, behind>> /\ Rest

Ensure(w) ==
  /\ Has(w, "ensure")
  /\ LET r == Subject(w) IN
     Goes(w, IF role[r] = Nothing THEN <<>>
             ELSE Puts(r, {m \in Modules : grid[r][m] = Nothing}, LegacyOf(role[r])))
  /\ UNCHANGED <<role, grid, marks, cached, halfway, behind>> /\ Rest

\* The matrix is given to a role that has what it was given last, has nothing, or
\* has it already; another grid is an administrator's and is left alone.
Redefine(w) ==
  /\ Has(w, "redefine")
  /\ LET r == Subject(w)
         matrix == MatrixOf[release][r]
         ours == View(r) \in {task[w].marks[r], matrix} \/ LegacyEmpty(r) IN
     IF role[r] # Nothing /\ ~Super(r) /\ ours
     THEN task' = [task EXCEPT ![w].todo = Puts(r, Shown, matrix) \o Tail(@),
                               ![w].marks[r] = matrix]
     ELSE Goes(w, <<>>)
  /\ UNCHANGED <<role, grid, marks, cached, halfway, behind>> /\ Rest

\* One row.  A role that is gone by now ends the task (the foreign key).
PutRow(w) ==
  /\ Has(w, "put") \/ Has(w, "edit")
  /\ LET step == Head(task[w].todo) IN
     IF role[step.role] = Nothing
     THEN /\ task' = [task EXCEPT ![w] = Free]
          /\ halfway' = halfway \cup InHand(w)
          /\ UNCHANGED <<grid, behind>>
     ELSE /\ Goes(w, <<>>)
          /\ grid' = [grid EXCEPT ![step.role][step.module] = step.grant]
          /\ behind' = IF step.do = "edit" THEN behind ELSE behind \cup {step.role}
          /\ UNCHANGED halfway
  /\ UNCHANGED <<role, marks, cached>> /\ Rest

\* The marks are one row, written back whole: by the script as it read them when
\* it began, by a reset as it reads them after its last row.
NoteMark(w) ==
  /\ Has(w, "note")
  /\ task' = [task EXCEPT ![w].todo = Tail(@),
                          ![w].marks = [marks EXCEPT ![Subject(w)] = MatrixOf[release][Subject(w)]]]
  /\ UNCHANGED <<role, grid, marks, cached, halfway, behind>> /\ Rest

SaveMarks(w) ==
  /\ Has(w, "save") /\ Goes(w, <<>>)
  /\ marks' = task[w].marks
  /\ UNCHANGED <<role, grid, cached, halfway, behind>> /\ Rest

\* invalidateMyAccessCache reaches the memory of its own process.
ClearCache(w) ==
  /\ Has(w, "clear") /\ Goes(w, <<>>)
  /\ IF w \in Desks THEN cached' = [r \in RoleIds |-> Nothing] /\ behind' = {}
     ELSE UNCHANGED <<cached, behind>>
  /\ UNCHANGED <<role, grid, marks, halfway>> /\ Rest

DropGrid(w) ==
  /\ Has(w, "drop grid") /\ Goes(w, <<>>)
  /\ grid' = [grid EXCEPT ![Subject(w)] = Blank]
  /\ behind' = behind \cup {Subject(w)}
  /\ UNCHANGED <<role, marks, cached, halfway>> /\ Rest

DropRole(w) ==
  /\ Has(w, "drop role") /\ Goes(w, <<>>)
  /\ role' = [role EXCEPT ![Subject(w)] = Nothing]
  /\ grid' = [grid EXCEPT ![Subject(w)] = Blank]
  /\ behind' = behind \cup {Subject(w)}
  /\ UNCHANGED <<marks, cached, halfway>> /\ Rest

---- \* What the server does

Plain == UNCHANGED <<role, grid, marks, cached, behind>> /\ Rest

\* The name was free when looked up and is unique when inserted; the seed has taken
\* the names of system roles.
CreateRole(w) ==
  \E r \in RoleIds \ System, p \in Perms :
    /\ role[r] = Nothing /\ role' = [role EXCEPT ![r] = p]
    /\ Start(w, <<Do("migrate", r)>>)
    /\ UNCHANGED <<grid, marks, cached, behind>> /\ Rest

\* Saving the permissions makes the grid anew.
UpdateRole(w) ==
  \E r \in RoleIds, p \in Perms :
    /\ role[r] # Nothing /\ r \notin System /\ role' = [role EXCEPT ![r] = p]
    /\ Start(w, <<Do("migrate", r)>>)
    /\ UNCHANGED <<grid, marks, cached, behind>> /\ Rest

DeleteRole(w, r) ==
  /\ role[r] # Nothing /\ r \notin System
  /\ Start(w, <<Do("drop grid", r), Do("drop role", r)>>)
  /\ Plain

\* Mutation: the rows of modules the payload hides are left as they are.
UpdateRoleAccess_Partly(w) ==
  \E r \in RoleIds, g \in Payloads :
    /\ role[r] # Nothing /\ ~Super(r)
    /\ Start(w, Edits(r, {m \in Shown : g[m].visible}, g) \o <<Do("clear", Nothing)>>)
    /\ Plain

\* "PUT replaces the complete grid": modules the payload leaves out are hidden.
UpdateRoleAccess(w) ==
  \E r \in RoleIds, g \in Payloads :
    /\ role[r] # Nothing /\ ~Super(r)
    /\ Start(w, Edits(r, Shown, g) \o <<Do("clear", Nothing)>>)
    /\ Plain

\* Mutation: the cache is cleared before the rows are written.
ResetRoleToDefault_ClearsFirst(w) ==
  \E r \in RoleIds :
    /\ role[r] # Nothing /\ ~Super(r)
    /\ Start(w, <<Do("clear", Nothing)>> \o Edits(r, Shown, MatrixOf[release][r])
                \o <<Do("note", r), Do("save", r)>>)
    /\ Plain

ResetRoleToDefault(w) ==
  \E r \in RoleIds :
    /\ role[r] # Nothing /\ ~Super(r)
    /\ Start(w, Edits(r, Shown, MatrixOf[release][r])
                \o <<Do("clear", Nothing), Do("note", r), Do("save", r), Do("clear", Nothing)>>)
    /\ Plain

\* getMyAccess of a user of role r: a memory of less than a minute is served;
\* otherwise the rows are read, and remembered when they have arrived.
ReadAccess(w) ==
  \E r \in RoleIds :
    /\ role[r] # Nothing
    /\ cached[r] # Nothing => minute > cached[r].at
    /\ Start(w, <<[Do("remember", r) EXCEPT !.grant = Access(r)]>>)
    /\ Plain

Remember(w) ==
  /\ Has(w, "remember") /\ Goes(w, <<>>)
  /\ LET r == Subject(w)
         view == Head(task[w].todo).grant IN
     /\ cached' = [cached EXCEPT ![r] = [at |-> minute, view |-> view]]
     /\ behind' = IF view = Access(r) THEN behind \ {r} ELSE behind \cup {r}
  /\ UNCHANGED <<role, grid, marks, halfway>> /\ Rest

---- \* Scripts

\* seedRoleRedefinition without --force; seedRbac, whose marker is stored under
\* another name than it is looked up by, so it makes every grid anew each time.
SeedRedefinition(w) ==
  /\ Start(w, [k \in DOMAIN SetToSeq(RoleIds) |-> Do("redefine", SetToSeq(RoleIds)[k])]
              \o <<Do("save", Nothing), Do("clear", Nothing)>>)
  /\ Plain

SeedRbac(w) ==
  /\ Start(w, [k \in DOMAIN SetToSeq(RoleIds) |-> Do("migrate", SetToSeq(RoleIds)[k])])
  /\ Plain

---- \* The world

TaskDies(w) ==
  /\ task[w] # Free
  /\ task' = [task EXCEPT ![w] = Free]
  /\ halfway' = halfway \cup InHand(w)
  /\ behind' = behind \cup WritesGrid(w)
                 \cup (IF WillClear(w) THEN RoleIds ELSE {})
  /\ UNCHANGED <<role, grid, marks, cached>> /\ Rest

Deploy ==
  /\ release + 1 \in Releases /\ \A w \in DOMAIN task : task[w] = Free
  /\ release' = release + 1
  /\ cached' = [r \in RoleIds |-> Nothing]
  /\ UNCHANGED <<role, grid, marks, minute, task, halfway, behind>>

Minute == minute < LastMinute /\ minute' = minute + 1
          /\ UNCHANGED <<role, grid, marks, cached, release, task, halfway, behind>>

StepOf(w) ==
  \/ Migrate(w) \/ Ensure(w) \/ Redefine(w) \/ PutRow(w) \/ NoteMark(w) \/ SaveMarks(w)
  \/ ClearCache(w) \/ DropGrid(w) \/ Remember(w) \/ TaskDies(w)
=============================================================================
