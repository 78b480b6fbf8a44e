-------------------------------- MODULE Setup --------------------------------
(***************************************************************************)
(* Filling the database: the seed of every cold start (prisma/seed.js, by  *)
(* config/bootstrap.js), the import of the legacy file (scripts/           *)
(* migrateFileDbToPostgres.js), and beside them the settings pages         *)
(* (modules/administration).  Both scripts are lists of statements that    *)
(* can stop anywhere and are started again from the top.                   *)
(***************************************************************************)
EXTENDS Accounts

CONSTANTS
  Formats, Standard, \* formats of a number; the one the seed gives
  StandardPerms,     \* StandardPerms[r]: the permissions the seed gives a system role
  Admin, AdminRole, AdminPassword,
  Lookups,           \* entries of the lists an administrator keeps: departments, blocks,
                     \* streets, plot categories, property types, NOC types
  Carried,           \* those of lists the import brings, all but the NOC types; rows
                     \* name these only (a certificate has its type as a text)
  Rows, Logs,        \* rows that may name a lookup; entries of the audit log
  Legacy,            \* data/db.json: role, grid, users (in their order), madeBy, holds,
                     \* lookup, row, log, rule
  MaxSequence        \* bound: numbers taken

VARIABLES
  rule,     \* the numbering rule: [format, sequence], or Nothing
  lookup,   \* lookup[k]: "active", "archived" or Nothing
  row,      \* row[x]: [of], the lookup it names, or Nothing
  log,      \* log[k]: [by], the user it names, or Nothing
  settings, \* "default", "saved" or Nothing
  raced     \* ghost: two requests were taking a number at once

fillingVars == <<rule, lookup, row, log, settings, raced>>
setupVars == <<accountVars, gridVars, fillingVars>>

SetupInit ==
  /\ rule = Nothing /\ settings = Nothing /\ raced = FALSE
  /\ lookup = [k \in Lookups |-> Nothing]
  /\ row = [x \in Rows |-> Nothing] /\ log = [k \in Logs |-> Nothing]

\* Frames of the steps below, each without the variables it moves.
GridsRest == UNCHANGED <<marks, cached, halfway, behind>> /\ Rest
AccountsRest == UNCHANGED <<resets, sessions, call, torn>>
Elsewhere == GridsRest /\ AccountsRest /\ UNCHANGED <<role, grid, account, holds>>

Each(step, things) == [k \in DOMAIN things |-> Do(step, things[k])]
All(step, things) == Each(step, SetToSeq(things))

---- \* The seed: upserts on natural keys

SeedSteps ==
  All("seed role", System) \o
  <<Do("seed rule", Nothing), Do("seed settings", Nothing),
    Do("seed admin", Nothing), Do("ensure all", Nothing)>>

\* The permissions of a system role are overwritten, its grid is not.
SeedRole(w) ==
  /\ Has(w, "seed role") /\ Goes(w, <<>>)
  /\ role' = [role EXCEPT ![Subject(w)] = StandardPerms[Subject(w)]]
  /\ GridsRest /\ AccountsRest /\ UNCHANGED <<grid, account, holds, fillingVars>>

\* Mutation: the update sets every column the insert sets.
SeedRule_FromZero(w) ==
  /\ Has(w, "seed rule") /\ Goes(w, <<>>)
  /\ rule' = [format |-> Standard, sequence |-> 0]
  /\ Elsewhere /\ UNCHANGED <<lookup, row, log, settings, raced>>

\* "Deliberately does NOT touch currentSequence on update"; all else it overwrites.
SeedRule(w) ==
  /\ Has(w, "seed rule") /\ Goes(w, <<>>)
  /\ rule' = [format |-> Standard, sequence |-> IF rule = Nothing THEN 0 ELSE rule.sequence]
  /\ Elsewhere /\ UNCHANGED <<lookup, row, log, settings, raced>>

\* Looked up, then inserted: the second of two cold starts fails on the key,
\* which is a death of its task.
SeedSettings(w) ==
  /\ Has(w, "seed settings") /\ Goes(w, <<>>)
  /\ settings' = IF settings = Nothing THEN "default" ELSE settings
  /\ Elsewhere /\ UNCHANGED <<rule, lookup, row, log, raced>>

\* The account is made with its role in one statement, or given the role.
SeedAdmin(w) ==
  /\ Has(w, "seed admin") /\ Goes(w, <<>>)
  /\ account' = [account EXCEPT ![Admin] = IF Exists(Admin) THEN @ ELSE
                   [password |-> AdminPassword, version |-> 0, active |-> TRUE]]
  /\ holds' = holds \cup {<<Admin, AdminRole>>}
  /\ GridsRest /\ AccountsRest /\ UNCHANGED <<role, grid, fillingVars>>

\* Mutation: the access grids are left to the roles' own handlers.
EnsureAll_Skips(w) ==
  /\ Has(w, "ensure all") /\ Goes(w, <<Do("ready", Nothing)>>)
  /\ Elsewhere /\ UNCHANGED fillingVars

\* seedRoleAccess: the roles there are, then each one's missing rows.
EnsureAll(w) ==
  /\ Has(w, "ensure all")
  /\ LET there == {r \in RoleIds : role[r] # Nothing} IN
     /\ Goes(w, All("ensure", there) \o <<Do("ready", Nothing)>>)
     /\ halfway' = halfway \cup (there \cap WrittenBeside(w))
  /\ UNCHANGED <<marks, cached, behind>> /\ Rest
  /\ AccountsRest /\ UNCHANGED <<role, grid, account, holds, fillingVars>>

Ready(w) == Has(w, "ready") /\ Goes(w, <<>>) /\ Elsewhere /\ UNCHANGED fillingVars

---- \* The import

ClearSteps == <<Do("wipe accounts", Nothing), Do("wipe roles", Nothing), Do("wipe lists", Nothing)>>

IdentitySteps ==
  LET roles == {r \in RoleIds : Legacy.role[r] # Nothing} IN
  All("bring role", roles) \o Each("bring user", Legacy.users) \o All("bring hold", Legacy.holds)
    \o All("bring grid", roles)

\* The lists that were cleared come back one by one, the NOC types do not.
ListSteps == All("bring lookup", {k \in Carried : Legacy.lookup[k] # Nothing})

\* All other collections, a row of which may name an entry of a list.
RowSteps == All("bring row", {x \in Rows : Legacy.row[x] # Nothing})

LastSteps ==
  <<Do("know users", Nothing), Do("bring settings", Nothing), Do("bring rule", Nothing),
    Do("reconcile", Nothing)>>

\* Mutation: the rows come before the lists they name.
ImportSteps_RowsFirst == ClearSteps \o IdentitySteps \o RowSteps \o ListSteps \o LastSteps

ImportSteps == ClearSteps \o IdentitySteps \o ListSteps \o RowSteps \o LastSteps

\* userRole, auditLog, user: what names a user goes first, or with him.
WipeAccounts(w) ==
  /\ Has(w, "wipe accounts") /\ Goes(w, <<>>)
  /\ account' = [u \in People |-> NoAccount] /\ holds' = {} /\ resets' = {}
  /\ log' = [k \in Logs |-> Nothing]
  /\ GridsRest /\ UNCHANGED <<sessions, call, torn, role, grid, rule, lookup, row, settings, raced>>

\* roleModuleAccess, role; masterData holds the marks of the role matrix.
WipeRoles(w) ==
  /\ Has(w, "wipe roles") /\ Goes(w, <<>>)
  /\ role' = [r \in RoleIds |-> Nothing] /\ grid' = [r \in RoleIds |-> Blank]
  /\ marks' = [r \in RoleIds |-> Nothing] /\ behind' = RoleIds
  /\ UNCHANGED <<cached, halfway>> /\ Rest
  /\ AccountsRest /\ UNCHANGED <<account, holds, fillingVars>>

\* numberingRule and the lists, all six; a row keeps its place without what it named.
WipeLists(w) ==
  /\ Has(w, "wipe lists") /\ Goes(w, <<>>)
  /\ rule' = Nothing
  /\ lookup' = [k \in Lookups |-> Nothing]
  /\ row' = [x \in Rows |-> IF row[x] = Nothing THEN Nothing ELSE [of |-> Nothing]]
  /\ Elsewhere /\ UNCHANGED <<log, settings, raced>>

BringRole(w) ==
  /\ Has(w, "bring role") /\ Goes(w, <<>>)
  /\ role' = [role EXCEPT ![Subject(w)] = Legacy.role[Subject(w)]]
  /\ GridsRest /\ AccountsRest /\ UNCHANGED <<grid, account, holds, fillingVars>>

\* A user whose maker is not there yet fails, and the import goes on without him.
BringUser(w) ==
  /\ Has(w, "bring user") /\ Goes(w, <<>>)
  /\ LET u == Subject(w)
         maker == Legacy.madeBy[u] IN
     account' = [account EXCEPT ![u] =
       IF maker = Nobody \/ Exists(maker)
       THEN [password |-> Legacy.password[u], version |-> 0, active |-> TRUE] ELSE @]
  /\ GridsRest /\ AccountsRest /\ UNCHANGED <<role, grid, holds, fillingVars>>

BringHold(w) ==
  /\ Has(w, "bring hold") /\ Goes(w, <<>>)
  /\ holds' = holds \cup {h \in {Subject(w)} : Exists(h[1]) /\ role[h[2]] # Nothing}
  /\ GridsRest /\ AccountsRest /\ UNCHANGED <<role, grid, account, fillingVars>>

BringGrid(w) ==
  /\ Has(w, "bring grid")
  /\ Goes(w, Puts(Subject(w), Modules, Legacy.grid[Subject(w)]))
  /\ Elsewhere /\ UNCHANGED fillingVars

BringLookup(w) ==
  /\ Has(w, "bring lookup") /\ Goes(w, <<>>)
  /\ lookup' = [lookup EXCEPT ![Subject(w)] = Legacy.lookup[Subject(w)]]
  /\ Elsewhere /\ UNCHANGED <<rule, row, log, settings, raced>>

\* Inserted, or updated in place on a second run.
BringRow(w) ==
  /\ Has(w, "bring row") /\ Goes(w, <<>>)
  /\ LET of == Legacy.row[Subject(w)].of IN
     row' = [row EXCEPT ![Subject(w)] =
               IF of = Nothing \/ lookup[of] # Nothing THEN [of |-> of] ELSE @]
  /\ Elsewhere /\ UNCHANGED <<rule, lookup, log, settings, raced>>

\* knownUserIds: an entry of a user who is gone is kept without him.
KnowUsers(w) ==
  /\ Has(w, "know users")
  /\ LET kept == SetToSeq({k \in Logs : Legacy.log[k] # Nothing})
         By(k) == IF Legacy.log[k].by \in {u \in People : Exists(u)}
                  THEN Legacy.log[k].by ELSE Nobody IN
     Goes(w, [k \in DOMAIN kept |-> [Do("bring log", kept[k]) EXCEPT !.grant = By(kept[k])]])
  /\ Elsewhere /\ UNCHANGED fillingVars

BringLog(w) ==
  /\ Has(w, "bring log") /\ Goes(w, <<>>)
  /\ log' = [log EXCEPT ![Subject(w)] = [by |-> Head(task[w].todo).grant]]
  /\ Elsewhere /\ UNCHANGED <<rule, lookup, row, settings, raced>>

BringSettings(w) ==
  /\ Has(w, "bring settings") /\ Goes(w, <<>>)
  /\ settings' = "saved"
  /\ Elsewhere /\ UNCHANGED <<rule, lookup, row, log, raced>>

BringRule(w) ==
  /\ Has(w, "bring rule") /\ Goes(w, <<>>)
  /\ rule' = Legacy.rule
  /\ Elsewhere /\ UNCHANGED <<lookup, row, log, settings, raced>>

\* The environment's password is put on the administrator; his version stays.
Reconcile(w) ==
  /\ Has(w, "reconcile") /\ Goes(w, <<>>)
  /\ account' = [account EXCEPT ![Admin] = IF Exists(Admin) THEN
                   [@ EXCEPT !.password = AdminPassword, !.active = TRUE] ELSE @]
  /\ GridsRest /\ AccountsRest /\ UNCHANGED <<role, grid, holds, fillingVars>>

---- \* The settings pages

\* The middleware before every page: the account is active and a role of it allows
\* the action.  Until it expires an access token is good whatever became of the
\* password, so the session is not asked for.
Authenticated(u) == Exists(u) /\ account[u].active
MayUse(u, m, a) == Authenticated(u) /\ \E r \in RoleIds : <<u, r>> \in holds /\ Allowed(r, m, a)
Staffed(m, a) == \E u \in People : MayUse(u, m, a)

SaveSettings(w) ==
  /\ task[w] = Free /\ Staffed("settings", "edit") /\ settings' = "saved"
  /\ Elsewhere /\ UNCHANGED <<task, rule, lookup, row, log, raced>>

\* The rule's sequence is not among what may be edited.
EditRule(w) ==
  /\ task[w] = Free /\ Staffed("settings", "edit") /\ rule # Nothing
  /\ \E f \in Formats : rule' = [rule EXCEPT !.format = f]
  /\ Elsewhere /\ UNCHANGED <<task, lookup, row, log, settings, raced>>

\* createMasterData, archiveMasterData, restoreMasterData
KeepLookup(w) ==
  /\ task[w] = Free /\ Staffed("settings", "edit")
  /\ \E k \in Lookups, now \in {"active", "archived"} :
       /\ now = "archived" => lookup[k] = "active"
       /\ lookup' = [lookup EXCEPT ![k] = now]
  /\ Elsewhere /\ UNCHANGED <<task, rule, row, log, settings, raced>>

\* A row that names a lookup is added, and the audit entry of who did it.
AddRow(w) ==
  /\ task[w] = Free
  /\ \E x \in Rows, k \in Logs, u \in {v \in People : Authenticated(v)}, of \in Carried :
       /\ row[x] = Nothing /\ log[k] = Nothing /\ lookup[of] = "active"
       /\ row' = [row EXCEPT ![x] = [of |-> of]]
       /\ log' = [log EXCEPT ![k] = [by |-> u]]
  /\ Elsewhere /\ UNCHANGED <<task, rule, lookup, settings, raced>>

\* NumberingRule.getNextNumber under the policy "never": the rule is read, then the
\* next number written.
TakeNumber(w) ==
  /\ rule # Nothing /\ rule.sequence < MaxSequence
  /\ Start(w, <<[Do("number", Nothing) EXCEPT !.grant = rule.sequence + 1]>>)
  /\ raced' = (raced \/ \E v \in DOMAIN task : Has(v, "number"))
  /\ UNCHANGED <<role, grid, marks, cached, behind>> /\ Rest
  /\ AccountsRest /\ UNCHANGED <<account, holds, rule, lookup, row, log, settings>>

WriteNumber(w) ==
  /\ Has(w, "number") /\ Goes(w, <<>>)
  /\ rule' = IF rule = Nothing THEN Nothing
             ELSE [rule EXCEPT !.sequence = Head(task[w].todo).grant]
  /\ Elsewhere /\ UNCHANGED <<lookup, row, log, settings, raced>>

---- \* Who runs them

Filling(w, steps) ==
  /\ Start(w, steps)
  /\ UNCHANGED <<role, grid, marks, cached, behind>> /\ Rest
  /\ AccountsRest /\ UNCHANGED <<account, holds, fillingVars>>

\* A cold start seeds before it serves; npm run prisma:seed does at any time.
ColdStart(w) == Filling(w, SeedSteps)

\* The operator imports while nothing else runs.
Import(w) ==
  /\ \A v \in DOMAIN task : task[v] = Free
  /\ \A v \in Callers : call[v] = NoCall
  /\ Filling(w, ImportSteps)

\* The import's last step is pending until it is over.
Importing == \E w \in Scripts : task[w].todo # <<>> /\ Last(task[w].todo).do = "reconcile"

FillingSteps(w) ==
  \/ SeedRole(w) \/ SeedRule(w) \/ SeedSettings(w) \/ SeedAdmin(w) \/ EnsureAll(w) \/ Ready(w)
  \/ WipeAccounts(w) \/ WipeRoles(w) \/ WipeLists(w) \/ BringRole(w) \/ BringUser(w)
  \/ BringHold(w) \/ BringGrid(w) \/ BringLookup(w) \/ BringRow(w) \/ KnowUsers(w)
  \/ BringLog(w) \/ BringSettings(w) \/ BringRule(w) \/ Reconcile(w) \/ WriteNumber(w)
=============================================================================
