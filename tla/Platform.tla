------------------------------- MODULE Platform -------------------------------
(***************************************************************************)
(* What the other modules stand on: accounts and sessions, roles and their *)
(* access grids, and the scripts and pages that fill the database.         *)
(***************************************************************************)
EXTENDS Setup

CONSTANT Openings \* bound: [parts, staff], parts at work and tasks that may start

ASSUME PlatformAssumption ==
  /\ IsFiniteSet(RoleIds) /\ IsFiniteSet(Modules) /\ System \subseteq RoleIds
  /\ Admin \in People /\ Applicants \subseteq People /\ AdminRole \in System
  /\ Nobody \notin Passwords \cup {AdminPassword}
  /\ Standard \in Formats /\ 1 \in Releases

ASSUME FileAssumption ==
  /\ IsFiniteSet(Lookups) /\ IsFiniteSet(Rows) /\ IsFiniteSet(Logs) /\ IsFiniteSet(Legacy.holds)
  /\ Carried \subseteq Lookups
  /\ \A x \in Rows : Legacy.row[x] # Nothing => Legacy.row[x].of \in Carried \cup {Nothing}
  /\ Legacy.users \in Seq(People)
  /\ Legacy.rule = Nothing \/ Legacy.rule \in [format : Formats, sequence : Nat]

\* What a column holds is not null.
ASSUME NothingAssumption ==
  /\ Nothing \notin [visible : BOOLEAN, actions : SUBSET Actions]
  /\ Nothing \notin [format : Formats, sequence : Nat]
  /\ Nothing \notin {"default", "saved"}
  /\ \A r \in System : StandardPerms[r] # Nothing
  /\ \A g \in Payloads, m \in Shown : g[m] # Nothing
  /\ \A r \in RoleIds, m \in Modules : Legacy.grid[r][m] # Nothing
  /\ \A n \in Releases, r \in RoleIds, m \in Shown : MatrixOf[n][r][m] # Nothing

\* The import is run on a database nobody works with yet.
ASSUME OpeningAssumption ==
  \A o \in Openings : {"accounts", "setup"} \subseteq o.parts => o.staff \cap Scripts = {}

VARIABLE open

platformVars == <<setupVars, open>>

Init ==
  /\ open \in Openings
  /\ AccountsInit /\ SetupInit /\ GridsInit
  /\ \A r \in RoleIds :
       IF "accounts" \in open.parts THEN role[r] # Nothing
       ELSE r \in System \/ "roles" \notin open.parts => role[r] = Nothing

AccountsPart ==
  /\ Hour \/ \E w \in Callers : AccountSteps(w)
  /\ UNCHANGED <<gridVars, fillingVars>>

\* Requests and scripts begin while no import is under way, the import while none is.
RolesPart ==
  /\ \/ /\ ~Importing
        /\ \/ \E w \in Desks \cap open.staff :
                \/ CreateRole(w) \/ UpdateRole(w) \/ UpdateRoleAccess(w)
                \/ ResetRoleToDefault(w) \/ ReadAccess(w)
           \/ \E w \in Scripts \cap open.staff : SeedRedefinition(w) \/ SeedRbac(w)
     \/ "deploys" \in open.parts /\ Deploy
     \/ Minute
  /\ UNCHANGED <<accountVars, fillingVars>>

\* A role is deleted if nobody holds it when it is looked up.
DeletionsPart ==
  /\ ~Importing
  /\ \E w \in Desks \cap open.staff, r \in RoleIds :
       /\ ~\E u \in People : <<u, r>> \in holds
       /\ DeleteRole(w, r)
  /\ UNCHANGED <<accountVars, fillingVars>>

\* Who was given it meanwhile loses it (onDelete: Cascade).
LoseRole(w) ==
  /\ DropRole(w)
  /\ holds' = {h \in holds : h[2] # Subject(w)}
  /\ torn' = torn \cup {u \in People : <<u, Subject(w)>> \in holds}
  /\ UNCHANGED <<account, resets, sessions, call, fillingVars>>

SetupPart ==
  \/ /\ ~Importing
     /\ \E w \in Desks \cap open.staff :
          \/ SaveSettings(w) \/ EditRule(w) \/ ColdStart(w)
          \/ "numbers" \in open.parts /\ TakeNumber(w)
          \/ "lists" \in open.parts /\ (KeepLookup(w) \/ AddRow(w))
  \/ \E w \in Scripts \cap open.staff : Import(w)
  \/ \E w \in Desks \cup Scripts : FillingSteps(w)

Next ==
  /\ open' = open
  /\ \/ "accounts" \in open.parts /\ AccountsPart
     \/ "roles" \in open.parts /\ RolesPart
     \/ "deletions" \in open.parts /\ DeletionsPart
     \/ \E w \in Desks : LoseRole(w)
     \/ "setup" \in open.parts /\ SetupPart
     \/ (\E w \in Desks \cup Scripts : StepOf(w)) /\ UNCHANGED <<accountVars, fillingVars>>

Spec == Init /\ [][Next]_platformVars

---- \* What holds of accounts, access grids and the filling of the database

\* The import replaces the accounts: their versions start from zero again, for which
\* a token made before it is good, and their roles are those of the file.
NoImport == "setup" \in open.parts => open.staff \cap Scripts = {}

\* A change of password ends the sessions there are (auth/service.js:133, 216, 266):
\* one that can still be refreshed was opened with the present password, also if
\* the login was under way when the password changed.
SessionKnowsPassword ==
  NoImport =>
    \A s \in sessions :
      account[s.of].version = s.version => s.opened = account[s.of].password

\* The seed of a cold start gives the administrator his first role again, beside the
\* one he was given since.
Reseeded(u) == u = Admin /\ "setup" \in open.parts

\* A user has one role (users/service.js:201 takes the old one away before it gives
\* the new one), unless two changes of it met, one died or failed half way, or his
\* role was being deleted when it was given to him (roles/service.js:107).
OneRole ==
  NoImport =>
    \A u \in People :
      Exists(u) /\ u \notin torn /\ ChangingRoles(u) = {} /\ ~Reseeded(u) =>
        Cardinality({h \in holds : h[1] = u}) = 1

\* The grids somebody meant a role to have: one saved, one of the matrix or of the
\* file, one that follows from permissions it was given.
Meant(r) ==
  Payloads \cup {MatrixOf[n][r] : n \in Releases} \cup {Legacy.grid[r]}
    \cup {LegacyOf(p) : p \in (Perms \cup {StandardPerms[r], Legacy.role[r]}) \ {Nothing}}

\* A role has a grid somebody meant, or none.  Rows of two of them are mixed only
\* after two tasks met on the role or one left it half written
\* (rbac/service.js:340, 486; seedRoleRedefinition.js:64).
GridWhole ==
  \A r \in RoleIds \ halfway :
    (\A w \in DOMAIN task : r \notin WritesGrid(w)) =>
      \/ View(r) = [m \in Shown |-> NoGrant]
      \/ \E g \in Meant(r) : View(r) = [m \in Shown |-> g[m]]

\* The pages offer exactly what the server will allow (rbac/service.js:190, 542):
\* once a save or a reset of a grid is over, what the server remembers of a role
\* and what it decides of each action agree, but for what was read before the rows
\* changed and remembered after, and for changes that tell the cache nothing:
\* migrations of permissions and scripts.
CacheFollows ==
  \A r \in RoleIds \ behind :
    cached[r] # Nothing /\ (\A w \in Desks : ~WillClear(w)) =>
      \A m \in Modules, a \in Actions : a \in cached[r].view[m] <=> Allowed(r, m, a)

\* "reseeding must never rewind a numbering sequence that is already in use"
\* (prisma/seed.js:91): no cold start does, whenever it comes between a request's
\* reading of the rule and its writing of the next number.
SequenceKept ==
  [][rule # Nothing /\ rule' # Nothing /\ ~raced => rule'.sequence >= rule.sequence]_platformVars

\* A cold start that reaches its end leaves what the server needs, whatever another
\* one did meanwhile and wherever earlier ones died: the system roles with a row for
\* every module, the rule, the settings and an administrator, who holds his role if
\* nobody changes it meanwhile.
ReadyAfterSeed ==
  \A w \in Desks : Has(w, "ready") =>
    /\ \A r \in System : role[r] # Nothing /\ \A m \in Modules : grid[r][m] # Nothing
    /\ rule # Nothing /\ settings # Nothing
    /\ Exists(Admin)
    /\ "accounts" \in open.parts \/ <<Admin, AdminRole>> \in holds

\* An import that comes to its end has brought what it carries of the file, also when
\* it ran a second time after a crash or over rows of the server: every account whose
\* maker precedes it, with its roles, every grid, the entries of five of the six lists
\* as the file has them and no others, the rows with what they name, and every entry
\* of the log, its user left out only if the file has no such user
\* (migrateFileDbToPostgres.js:577 "Keep the log entry and null the dangling
\* reference rather than dropping the row").  The sixth list, that of
\* NOC types, is cleared (line 209) and none of it is brought: nothing is claimed of it.
ImportComplete ==
  \A w \in Scripts : task[w].todo = <<Do("reconcile", Nothing)>> =>
    /\ \A r \in RoleIds : role[r] = Legacy.role[r]
    /\ \A r \in RoleIds : role[r] # Nothing => grid[r] = Legacy.grid[r]
    /\ {u \in People : Exists(u)} = {Legacy.users[k] : k \in DOMAIN Legacy.users}
    /\ holds = Legacy.holds
    /\ \A k \in Carried : lookup[k] = Legacy.lookup[k]
    /\ \A x \in Rows : Legacy.row[x] # Nothing => row[x] = Legacy.row[x]
    /\ \A k \in Logs : Legacy.log[k] # Nothing =>
         log[k] = [by |-> IF Legacy.log[k].by \in {u \in People : Exists(u)}
                          THEN Legacy.log[k].by ELSE Nobody]
    /\ rule = Legacy.rule

\* Idempotent: "existing imported data is preserved, only missing base rows ... are
\* created" (config/bootstrap.js:16): a cold start leaves a rule that exists as it
\* was edited.
ExistingPreserved ==
  [][\A w \in Desks : Has(w, "seed rule") /\ rule # Nothing /\ ~Has(w, "seed rule")' =>
       rule'.format = rule.format]_platformVars
=============================================================================
