# Verification of the housing-society ERP backend

TLA+ models of this backend: its money, plots, stock, titles, payroll, offices,
accounts and access rights, and the adapter, seeds and imports beneath them; TLC
configurations that check them on small instances, and TLAPS proofs of the results
that should hold for any number of plots, bookings and requests.

## 1. How the program runs, and what that means for a model

The backend is one Node/Express process (or several: nothing is kept in memory
between requests except a few caches) over PostgreSQL. Services under
`src/src/modules/*/service.js` reach the tables through the adapter
`src/src/db/prismaCollection.js`, which has the interface of a document store:

* each call is one autonomous SQL statement. `updateOne` reads a row and then
  writes it by id, `findOneAndUpdate` reads, writes and reads again,
  `insertMany` inserts row by row;
* `utils/withTransaction.js` exists and no service calls it; there are no row
  locks; most "unique" things (a receipt number, an invoice's source key) have no
  unique index (`prisma/sql/add_constraints_and_indexes.PENDING.sql` is not applied);
* a column the table does not have is dropped on write and reads as `undefined`.

So a request is a sequence of statements between which any other request may run,
and after any of which the process may stop or the statement may throw. That is
the step of every model here: **one action per statement**, with local copies of
what the request has read. What a request reads and refuses before its first write
is its first action; reading several rows there counts as one step, because nothing
is written on the strength of it until later actions, which do not read again.

## 2. Inventory

| Component | State | Operations | Hard part | Module |
|---|---|---|---|---|
| bookings | `bookings`, `installmentPlans`, `installments` | create, approve, reject, cancel | check-then-act over four tables, no transaction | `BookingDesk` |
| plots | `plots.status`, owner, `isBlocked`, ownership history | create, update, remove; status writes by six services | status checked on one reading, written on another | `PlotStateMachine`, `BookingDesk`, `Title` |
| buyback, plot merge | `buybacks`, `plotMerges` | execute | a record that goes Pending, Completed or Failed around several writes | `BookingDesk` |
| payments | `payments`, `installments` | preview, create | allocation, penalties, hand-written rollback | `Payments` |
| sums and statements | none | ledger, dashboards, SQL reports, recovery summaries | every page computes the same sums by itself | `Books` |
| numbering | `numbering_rules` | getNextNumber, edits, seeds | read, write, re-read | `NumberingRule`, `Payments`, `Setup` |
| inventory, procurement | stock, transactions, vendors, requests, quotations, orders, receipts | adjust, applyGrnReceipt, create/update/delete | idempotence, lost updates, references | `Stock`, `Procurement` |
| recovery | `plots.isBlocked`, assignments, calls | auto-block check, assign, reserve, reassign, resolve, addCall | a flag derived from all bookings of a plot; several servers | `Recovery` |
| payroll, ledger | set-up, runs, loans, journal entries | draft, approve, mark paid | deductions once, posted once, rounding | `PayrollRules`, `Payroll` |
| transfers, possession, NOCs, construction, registry | applications, ownership history, plots | verify, pay, approve, reject, issue, complete | stages that can be skipped or revisited; owner and history in two tables | `Title` |
| complaints, maintenance | threads, work orders | assign, comment, resolve, reopen, log | a thread is written back whole | `Casework` |
| human resources, guards | employees, attendance, leave, rosters | create, update, delete, bulk marks | keys looked up before the insert | `Staff` |
| visitors, vehicles, appointments | entries, passes, blacklist, stickers, tokens | enter, exit, check in and out | the same | `Gate` |
| documents, notices, notifications, invoices, members, expenses, refunds | registers | upload, publish, register, import, approve, pay | versions, one per event, separation of duties, rollback of an import | `Records` |
| approvals, dashboards, reports | none | queues and counts | each chooses rows by its own columns | `Approvals` |
| authentication, users | accounts, sessions, reset tokens, roles held | login, refresh, reset, change of password or role | an account read, used and written apart | `Accounts` |
| roles and grids | roles, a row per role and module, the server's cache | save, reset, redefine, migrate, deploy | a grid written row by row, by servers and scripts | `Grids`, `RoleMatrix` |
| seeds, import, administration | every base table | cold start, import, settings | crash, re-run, two at once | `Setup`, `Platform` |
| database adapter | any table | find, insertOne, updateOne, updateMany, deleteOne, deleteMany | filters translated, columns dropped, references dropped | `Query`, `Collection`, `Requests` |
| search, HTTP shell, scripts of development | none | reads; routing | nothing to interleave with | not modelled |

Interactions: bookings, buyback and merge call `PlotService.update`; transfers,
possession and construction write plots directly; payments and cancel write the
same installments, which recovery, NOCs and transfers read as dues; every service
draws numbers from `numbering_rules`; procurement calls
`InventoryService.applyGrnReceipt`; payroll calls `postToGL`; nearly everything
registers invoices and sends notices, both of which swallow their errors
(`safeRegisterInvoice`, `safeNotify*`); every request is authenticated against the
account and allowed by the role's grid; every cold start seeds the tables the others
read.

What makes each correct: a plot has one buyer and its status tells of it; a buyer
owes what the plan says and no more; what an installment shows as paid is what
payments brought, and every page says so; stock is the sum of its transactions; one
agent follows a booking; a loan is deducted once per run; the owner of a plot is the
one its history names; what is offered for approval can be approved; a key names one
row; a session knows the present password; a grid is one somebody meant; a cold start
leaves a system that works. `PROJECT.json` lists the hazards to these at their lines.

## 3. Modules

Every component has its module; what it gets right is stated in `XProperties`, or at the
end of the module itself (`Recovery`, `Collection`, `Platform`); `MCX` holds the bounds,
symmetries and values of its runs, `XProofs` its theorems.

```
PlotStateMachine <- BookingDesk <- BookingDeskProperties <- BookingDeskProofs <- DeskRecordsProofs
                                     (INSTANCE BookingRegister, the abstract specification)
NumberingRule <- Payments <- Books <- PaymentsProperties
Stock <- Procurement <- ProcurementProperties <- ProcurementProofs
Recovery <- RecoveryProofs
PayrollRules <- Payroll <- PayrollProperties <- PayrollProofs
Requests <- Title, Casework, Staff <- Gate, Records <- Society <- Approvals <- SocietyProperties <- SocietyProofs
Requests <- Collection (INSTANCE Query)
Grids <- Accounts <- Setup <- Platform <- PlatformProofs; RoleMatrix gives MCPlatform its grids
```

### BookingDesk

State: the columns `plots.status`, `bookings.status/plot/member`, one row per
installment (`none`, `due`, `paid`, `voided`), the plans of each booking, the
buyback and merge records, and `job[w]`, the request in flight of worker `w`
(operation, next statement, the ids it works on). Ids are used once. A plot is
`Absent` before its insert and `Deleted` after its delete; writing by id to a
missing row does nothing, as in the adapter.

| Action | Code |
|---|---|
| `CreateBooking`, `InsertBooking`, `AwaitApproval`, `AutoApprove` | `BookingService.create` |
| `ApproveBooking`, `ConfirmBooking`, `CreatePlan`, `CreateInstallment` | `BookingService.approve` |
| `RejectBooking`, `CancelBooking`, `VoidInstallment`, `MarkCancelled` | `reject`, `cancel`, and the end of a buyback |
| `BuyBack`, `MergePlots`, `CreateRecord`, `RegisterInvoice`, `MergeRead`, `MergeWrite`, `CompleteRecord`, `WriteAudit`, `StepFails`, `FailRecord` | `BuyBackService.execute`, `PlotMergeService.execute` |
| `PlotUpdateRead`, `PlotUpdateWrite` | `PlotService.update`, wherever it is called |
| `EditPlot`, `AdvancePlot`, `AddPlot`, `RemovePlot` | status edits by operators; writes by transfers, possession, construction; plot create and delete |
| `PayInstallment`, `LandPayment`, `CompletePayment`, `RollbackPayment` | the part of a payment that touches installments |
| `Die` | the process stops, or a statement throws outside a try block |

The code does not protect a plot against two requests at once, against a request
that ends halfway, or against an operator who overrules the bookings, so nothing
could be said of plots to which that has happened. The ghost variable
`upset[p]` records it (`overlap`, `partial`, `edit`), no guard reads it, and each
property names the causes it does not survive. What remains is not empty: it says
that the checks each request makes are enough when it is alone on its plot, for
every order of requests, for payments in flight, for failures on *other* plots,
and, where the property allows `partial` or `edit`, after failures on this one.

Left out: prices, schedules and refund amounts; audit rows, notices and invoice
rows (only whether writing them fails matters here); ownership history; the
`isBlocked` check of merges, so the model merges in more states than the program.

### Payments

State: `today`, each installment's `status`, `paidAmount`, `balance`,
`penaltyAmount`, the recorded payments with what they allot, the sequence of
receipt numbers, `job[w]`. Money is counted in the unit `roundCurrency` rounds to.
`allocatePayment` is stated as what its loop computes (all of the amount is spread,
nothing beyond what is outstanding, nothing to an installment while an older one is
not covered), not as a loop.

| Action | Code |
|---|---|
| `CollectPayment`, `ReadBefore` | reading open installments, allocation, snapshot for the rollback |
| `ReadRule`, `WriteRule`, `FormatNumber` | `NumberingRule.getNextNumber` |
| `InsertPayment`, `UpdateInstallment`, `CompletePayment` | the writes, one row each |
| `FailPayment`, `DeletePayment`, `RestoreInstallment`, `UndoFails` | the catch block, whose own errors are swallowed |
| `CreateInstallment`, `CancelBooking`, `VoidInstallment` | bookings' approve and cancel on the same rows |
| `Tick`, `Die` | the clock; the end of a request anywhere |

The ghosts are `upset[i]` (two requests worked on installment `i` at once, or one
ended with its writes half done) and `misnumbered` (two numbers were drawn at once).

### Stock and Procurement

`Stock` keeps an item's SKU, name and quantity, its transactions in the order of
their inserts, and `job[w]`; a movement is read, write (an absolute quantity), insert.
`Procurement` extends it with the four tables of documents; goods received notes
share `job[w]` with the stock movements they cause. Documents that are written once,
whatever was read before, are changed in one action; a delete or insert that depends
on a read is two.

| Action | Code |
|---|---|
| `CreateItem`, `InsertItem`; `UpdateItem`, `PatchItem`; `Adjust` | `InventoryService.create`, `update`, `adjust` |
| `WriteQuantity`, `RecordMovement` | the two writes `adjust` and `applyGrnReceipt` share |
| `SkipLine`, `ApplyLine`, `NewItem`, `InsertNewItem` | one line of a receipt: the loop of `GRNService.create` and `applyGrnReceipt` |
| `CreateReceipt`, `InsertReceipt`, `UpdateOrderStatus`, `EndReceipt` | `GRNService.create` around that loop |
| `UpdateReceipt`, `DeleteReceipt` | `GRNService.update`, `delete` |
| `CreateRequest` ... `RemoveOrder` | the other three services, one or two actions per method |
| `Fail` | the process stops, or a statement throws |

Ghosts: `upset` (items, SKUs and documents around which requests overlapped, items
whose movement broke off between its two writes), `into` (the item each line of a receipt
went to, lines numbered from the last), `entered` (the receipt as first inserted), `counted` (receipts that ran to
their end), `edited` (statuses set by hand). Left out: amounts, document
numbers, the audit rows. Statements about names hold up to the case of letters.

### Books

Extends `Payments` with what the pages compute: `dashboards/service.js` (charts,
dues, collections), `reports/service.js`, `reports/sql.js`, `members/service.js`,
`bookings/service.js` and recovery's `summarizeBooking`, each as its own sum over the
rows. It has no actions; `BooksAgree` relates the sums in every state in which the
rows are not being written. One member has all installments, so sums by member are
sums over all.

### Recovery

State: what each booking owes (`paid`, `cancelled`), the threshold, the plots' flags,
the assignments in the order of their insertion, calls, a request per worker, a check
per server.

| Action | Code |
|---|---|
| `Assign`, `Reserve`, `Look`, `InsertAssignment`, `Answer` | `assign`, `reserve`: one reading of all debts, then a lookup and an insert per booking |
| `Reassign`, `CloseOld`, `InsertReplacement`; `Resolve`, `MarkResolved`; `AddCall`, `InsertCall`, `MarkInProgress` | `reassign`, `resolve`, `addCall` |
| `listPool`, `listMyPlots`, `sendReminders` | the pages, as views |
| `BeginCheck`, `ReadDebts`, `ReadPlots`, `Walk`, `EndCheck`, `FailCheck` | `runAutoBlockCheck` with its lock, one per server process |
| `DebtsMove` | the rest of the system |

### PayrollRules and Payroll

`PayrollRules` is `payrollCalculator.js` in whole cents: proration, components, funds,
tax by slabs, loans, net pay, and the lines of the journal. `Payroll` has one run per
month (a unique index), loans and journal entries: `GenerateDraft` and `InsertRun`;
`ApprovePayroll`, `PostEntry`, `MarkApproved`; `MarkPaid`, `ReadLoan`, `DeductLoan`,
`SetPaid`; `CreateLoan`, `CloseLoan`, `MarkClosed`, `UpdateSetup`; `Die`. Salary
structures and attendance are constants.

### Requests, and the offices: Title, Casework, Staff, Gate, Records, Society

The offices' handlers share one form: read, refuse or decide, then write row by row.
`Requests` gives it: `file[id]` is the row of an identifier, `Begin(w, writes)` the
first action of a handler, with the list of writes it decided on; `Write` is one
statement, `Die` the end of a request anywhere. Two requests that were to write the
same column, or a request that died after its first write, put those columns into the
ghost `upset`. A column called `key` stands for what a lookup before the insert keeps
unique; then its value is watched instead of the row.

| Module | Handlers |
|---|---|
| `Title` | `UpdatePlot` (an owner, a status, or both), `UpdateStatus`, `getHistory`; `CreateTransfer` ... `CompleteTransfer` (`Deed`: close, open, plot, request); possession, construction with inspections, certificates, registry batches |
| `Casework` | complaints with their transition table and threads; assets, work orders with theirs |
| `Staff` | employees, attendance (`BulkMark` row by row), leave with its allowance; guards, duties |
| `Gate` | visits, passes, blacklist, vehicles and stickers, appointments with daily tokens (`NumberingRule`) |
| `Records` | documents, notices with expiry, notifications, invoices by source, expenses and refunds under separation of duties, members and their import (`CheckRow`, `AddRow`, `UndoRow`) |
| `Society` | the handlers above as desks; `Openings` says which are staffed together |
| `Approvals` | `approvals/service.js` with its caps per module, counts of dashboards and reports over the same rows, as views |

The queue reads the newest rows of a module first and stops after `PER_MODULE_CAP` of
them: `loadSlice` looks at twice that many before it leaves out what cannot be decided
yet, `Collect` keeps as many as are shown. The order in which rows were made is not
kept in them, so a view takes it as an argument, `at`, and a property says "for every
order". The status of a plot may be edited apart from its owner (`Edits`), so a plot
somebody owns may be Available.

### Query and Collection

`Query` gives a filter two meanings: `MatchesDocument` as `config/fileDb.js` did, and
`Translate` with `MatchesRow` as `prismaCollection.js` does over rows with NULLs.
`Collection` is the adapter's methods as statements: a find and a write by id; a write
whose reference dangles is refused by the table and tried again without the optional
references (`Relax`), which `updateMany` does on a copy of its data.

### Accounts, Grids, RoleMatrix, Setup, Platform

`Accounts`: `account`, `holds`, `resets`, `sessions` and the request of each caller;
`Login` compares the password it read and `IssueTokens` signs later; `ChangePassword`
and `ResetPassword` write after hashing (`CommitReset` is the one transaction of this
program); `ChangeRole`, `ClearRoles`, `GrantRole`. An account is made with a role that is
not `Reserved` and that exists when it is looked up; the insert, later, may find it gone.

`Grids`: a role's legacy permissions, a row per module, the marks of the role matrix,
the server's cache. A task is a list of steps, whose rows are written one by one:
`UpdateRoleAccess`, `ResetRoleToDefault`, `ReadAccess` and `Remember`, `SeedRbac`,
`SeedRedefinition`, `CreateRole`, `DeleteRole`, `TaskDies`, `Deploy`.

`RoleMatrix` is the table of `seeds/roleMatrix.js`, by groups of modules whose rows
are alike, with two facts its comments state as assumptions TLC evaluates:
`DeleteIsAdminOnly` and `LookupsReachGuards` (guards, and no others, look up members
they may not see). `MCPlatform` takes the administrator's grid from it.

`Setup`: the seed of a cold start (`SeedSteps`) and the import (`ImportSteps`) as
lists of statements, each an action, that stop anywhere and start again from the top;
beside them the settings pages and the taking of numbers. The import clears six lists of
choices and carries five of them (`Carried`): NOC types are cleared and never brought. Of
`masterData` there are marker rows only; that the role redefinition is marked as done is
modelled, as cleared, and the marker the import itself leaves (`rbacMigration`), which
nothing modelled reads, is not. `Platform` composes the
three and says which parts are at work (`Openings`). Only there do roles and those who
hold them meet: `DeletionsPart` deletes a role nobody holds when it is looked up, and
`LoseRole`, the last statement of that, takes it from whoever was given it meanwhile
(`onDelete: Cascade`). No request or script about roles or settings begins while an
import is under way: the operator stops the server for it. The ghost `halfway` collects
the roles on whose grid a task came upon another's rows, as it began or, for a cold
start, as it asked which roles there are, and those a task left half written.

## 4. Runs

| Run | Instance | Shows |
|---|---|---|
| `desk` | 2 plots, 2 bookings, 1 record, 2 requests in flight, 1 installment, 1 mishap | one buyer, plot and booking agree, merges, the table, refinement to `BookingRegister` |
| `desk_plans` | 1 plot, 2 bookings, 2 installments, 2 records, nothing cut off but overlaps | plans are whole, cancelled bookings owe nothing; no booking is bought back twice; a record that says Completed has ended its booking, after any failure, crash or retry |
| `payments` | 3 installments on 2 plots, 2 payments at a time, 2 penalty rules, 2 days | amounts, balances, order, and that all pages compute the same sums |
| `payments_receipts` | policy `yearly` | **violation**: two payments in turn get one receipt number |
| `store` | 2 items, 2 receipts, 1 order, 1 quotation, 1 purchase request, 1 vendor, 2 requests in flight | histories add up, no line of a receipt counted twice and no item left out, order status, references |
| `store_lines` | 1 receipt with two lines of one item, 1 request | **violation**: the second line is never counted |
| `recovery` | 2 bookings of one plot, 2 agents, 2 assignments, 2 requests, 2 servers | one agent at a time; a check decides; with daily checks that may fail, flags settle |
| `payroll` | 2 months, 2 employees, 2 loans, 2 configurations, 2 requests | posted once and balanced, loans deducted by paid runs, drafts add up |
| `society` | 1 plot, 2 members, 2 or 3 rows of each register, 2 requests, 2 days, 1 row of a module shown | keys, versions, ownership, transfers, threads, the approver's queue |
| `collection` | 2 rows, 2 users, 2 requests, all filters of up to two clauses | filters and writes do what the services ask |
| `platform` | 2 accounts, 2 roles, 2 modules, 2 releases, 2 callers, 2 servers, 1 script, a file with 2 users | sessions, roles, grids, the cache, cold starts, imports |
| `platform_reseed` | the same | **violation**: a cold start overwrites what an administrator changed |

Bounds. Two plots are what a merge and "another plot" need; two bookings on one plot
are what a double sale and a resale after cancellation need; two workers are what
an overlap needs, and since a property stops speaking of a plot at its first overlap,
a third request on it adds nothing. Two installments make a plan that can be half
written or half voided. In `payments` the second installment belongs to another
plot and is due between the first and the third, so that a payment for one plot
skips it and one for all plots does not; amounts 1 and 2, payments of 1 and 3 give
exact, partial and spilling payments; with `MonthDays = 2` and two days both
periods of a penalty occur. `LastNumber` and `LastDay` bound counters. In `store`
one receipt lists two batches of one good around a line that is all rejected, the
other part of another good. `MaxHistory` bounds the movements of an item operators
make. In `recovery` both bookings are on one plot, which is where the check has to
choose; two assignments are a reassignment, or a second one after the first was
resolved. In `payroll` one employee is prorated and taxed, the other has a loan that
takes all he earns, and a draft that overdraws cannot be posted. In `society` three
documents are three versions, two transfers can be in flight for one plot, five rows
of history are two complete changes of owner by either way. The queue shows one row of
a module (`PER_MODULE_CAP = 1`; 8 in the code): two transfers are one more than that,
and of three certificates two are read and one or none of them shown. Of the statuses
a plot can be edited to, Available is the one that counts otherwise than ownership
does. In `platform` `k1` and `k2` stand for the lists an import carries and `k3`, a
row of which is in the file too, for the one it does not; alice cannot be imported
before the administrator who made her, one entry of the log names a user who is gone,
and the server has rows the file has not; two modules are what a half-written grid
needs.
Roles are deleted beside the accounts that hold them and beside
each other's grids, in two openings; in another the script saves grids, seeds and
imports in turn. Accounts and imports are never at work together: the
import is run once, by hand, on a database nobody uses yet, and it writes accounts with
the version of the file, for which a token issued before it may be good again. The
properties of accounts say so (`NoImport`).

Constraints. `FewMishaps`, `Undisturbed` and `Calm` stop following a behaviour where
the properties of the run have nothing more to say (an overlap on the same column,
loan, role or booking), or after `MaxMishaps` other mishaps; `Calm` goes on after an
overlap of two cold starts on a role, which are there to overlap. `NoPayments` keeps
payments out of `desk`, none of whose properties looks at installments; `desk_plans`
has them, but for behaviours with two buybacks, which it follows without payments
(`NoPaymentsBesideRetries`). In `store`, `OneConcern` explores
quotations and receipts apart, which share no row; `FewMoves` and `FewInterventions`
bound movements and corrections by hand. `recovery` follows requests or checks, which
share only debts, and names the first row's booking and agent, all being alike.
`society` and `platform` staff desks together that write each other's rows
(`MCOpenings`); desks that share no rows cannot disturb each other. `AdminOnly` keeps
other accounts out where `platform` runs cold starts beside logins: the administrator's
is the one account a cold start writes. In `desk_plans`, `MaxMishaps = 2` is all that
can befall one plot, so only overlaps end a behaviour. The runs but `desk` and `desk_plans` do not check for deadlock: with
all days passed, all ids used and counters at their bounds there is nothing left to
do. Symmetry is used for invariants and action properties only. Where an
unused identifier is chosen (`Unused`), no row or request names it yet, so that those of
one table stay alike.

Fairness. Only `recovery` states any: `FairSpec` of `Recovery` asks weak fairness of
`CheckStep(s)`: a timer starts the check every day in every process
(`recovery.job.js`), and a check that runs goes on; checks may fail, finitely often.

## 5. Findings

1. `lastResetAt` is never stored, so every sequence with a reset policy restarts at
   1 for each number (`payments_receipts`). Receipts are seeded `yearly`.
2. The seed of a cold start overwrites roles and numbering rules that exist
   (`platform_reseed`); `config/bootstrap.js:16` says existing data is preserved and
   only missing rows are created.
3. Two lines of one goods receipt that go to one item share one reference, and the
   second leaves no stock (`store_lines`); `procurement/service.js:547` says inventory
   rises once per line. `ReceivedOnce` claims what remains: no line is counted twice, and
   an item has as much of a receipt as one of its lines.

Disagreements the models show and no run states any more, because a run is spent on
what holds:

* A booking create that breaks off after its insert leaves a live booking on an
  Available plot (`withTransaction.js:6` says such operations run in a transaction);
  `OneBuyerPerPlot` excludes plots where that happened.
* A buyback leaves the installments of the ended booking payable
  (`test/bookingCancelCleanup.test.js:18` states the opposite of ended bookings).
* A penalty partly paid is charged again, as the principal is clamped at zero.
* Where a cancelled and a late booking share a plot, each check turns its block flag
  over (`CheckDecides` says so).
* After an edit of the owner, a transfer may close the wrong one of two open intervals
  (`OwnerOnRecord` says what remains true).
* The finance dashboard's overdue amount sums rows with status Overdue, which no
  handler stores; the member's page shows voided unpaid installments as due.
* The role matrix grants nobody `create` on buyback and plot merge, or `export` on
  recovery, which their routes demand: only the Super Admin can.
* `teamPerformance` of recovery counts reassigned rows that an agent's own page omits.
* The approver's queue stops after 8 rows of a module and reports `truncated: false`
  (`approvals/service.js:103`): with nine pending transfers the oldest is in no answer.
  Of certificates and possessions 16 rows are read before those that cannot be decided
  yet are left out, so that fewer than 8, or none, may be shown while others wait.
  `QueueHonest` says what is left out.
* The import clears the NOC types and brings none back
  (`migrateFileDbToPostgres.js:209`, `:286-290`), neither the file's nor those entered
  before, and `verifyImport.js` does not compare them; the comment at line 197 says the
  legacy rows become the canonical ones. `ImportComplete` claims the five lists the
  import carries.
* The occupancy report counts plots with an owner, the dashboard's `activePlots` those
  with certain statuses. An edit of the status, or a cancelled or rejected booking
  (`bookings/service.js:211`, `:273`), leaves a plot with an owner Available, and the two
  differ; `QueueHonest` says they agree where no status was edited.

## 6. Proofs

`BookingDeskProofs` proves, for any sets of plots, bookings, members, records,
workers and installments, from `NoneAssumption` (the placeholder is none of them)
and `TargetsAssumption` (who may write which status, from the guards in
`PlotService.update` and the four other writers):

* `TypeCorrect`: type correctness.
* `FormCorrect`: the shape of requests in flight (which fields go with which
  operation and statement, that a request works on the plot of its booking).
* `DeskCorrect`: the inductive invariant `DeskInv`. Neither "one buyer" nor "the
  plot tells of its booking" is inductive: between two statements the plot and the
  booking disagree. `DeskInv` adds, per plot, `Alone` (no overlap: at most one
  request holds it), `Checked` (a status about to be written is allowed from the
  present one) and `Story` (what the position of that one request says about plot
  and booking, statement by statement).
* `BuyersCorrect`, `PlotsCorrect`: `OneBuyerPerPlot` and `PlotTellsOfBooking`.
* `TableCorrect`: `PlotFollowsTable`, an action property, from the same invariant.
* `RegisterCorrect`: the desk implements `BookingRegister`; each step is a booking,
  a confirmation, a cancellation, a disturbance or a stutter.

`DeskRecordsProofs` extends it to what a sale leaves behind, from the same assumptions.
`DeskInv` falls silent about a plot at its first mishap, but `MergeRecordTrue`,
`MergedPlotUnsold`, `OneBuyback` and `CancelledOwesNothing` survive requests that broke
off and statuses overruled by hand, and `ConfirmedHasPlan` needs to know what those left.
So a second invariant speaks of every plot on which no two requests *overlapped*:

* `RecordInv`: a record has one request at most, and tells how far it is (`Filed`): the
  sources of a merge are still to do or `Gone`, and nothing brings a plot that is gone
  back. `MergeRecordsTrue` follows.
* `SaleInv`: installments belong to plans and plans to bookings (`RowsInv`); per plot,
  what the request that holds it may still count on (`Tale`), what the papers of each of
  its bookings say (`Sold`), and that no payment holds an installment a cancel is about
  to void (`Estate`). A payment holds no plot and may run beside anything; that it cannot
  bring a voided row back is the part of the proof no test comes near.
  `MergedUnsold`, `SettledOnce`, `PlansCorrect`, `CancelledCorrect` follow.
* `BuybackInv`: a buyback about to complete its record has ended its booking. What keeps
  it is that an ended booking stays ended (`OverStays`), and that a buyback reaches its
  last write over the one that ends the booking only (`CompletesOver`). `BuybacksTrue`
  follows.

`RecoveryProofs` proves `OneActive` for any sets of bookings, agents and requests in
flight, from `RecoveryAssumption`. It is not inductive: between its look-up and its
insert, or between the close of the old row and the insert of the new one, a request
counts on something. `DeskInv` adds, per request, `Gap` (one about to add a row of a
booking knows it has no active one), `Held` (one that closes or uses a row knows it as
the only active one), `Sound` (it works on the bookings it is about) and, between
requests, `Apart` (two about one booking mark it as raced). `CheckCorrect` proves
`CheckDecides` for any plots, thresholds and servers, by `CheckInv`: of a check that has
been alone since it began, `Clean` says that the debts it read are those there are, and
that a flag has been turned over exactly where the walk has met a booking that disagrees
with the flag as it was read (`Turned`). At the end the walk has met them all.

`PayrollProofs` proves `JournalFollows` for any months, loans, set-ups and requests,
from `PayrollAssumption`. `PayInv` adds `Reached` (beyond the posting stage the entry is
in the journal; at it, nobody else posts), `Backed` (an entry is that of a filed run
that balances, once unless raced) and `Told` (two requests about a run mark it). A
death is a step like the others, so the theorem covers every retry after a crash.

`ProcurementProofs` proves `ParentsKept` and `StatusByReceipt` for any documents and
requests, from `ProcurementAssumption` and `StockAssumption`. `PaperInv` adds `Secured`
(what a request has found about the documents it is about to name, insert or delete
still holds unless they are upset), `Told` (two requests about a document upset it),
`Named` (what a document names is of the right kind) and the shape of jobs and rows,
with quantities and items left open.

Its second part fills that in, for any items, receipts, lines and requests. A lemma per
action says what it does to stock, history and requests (`AdjustDoes`, `ApplyLineDoes`,
...); both theorems rest on those. `HistoryExplainsStockHolds` goes by `LedgerInv`: the
history of an item is a `Ledger` (each movement leads from the balance before it to its
own), a request `Carries` the movement that leads from the quantity it read, and is the
`Sole` one to move its item unless the item is upset; between the two writes the quantity
is ahead of the history by that movement. `ReceivedOnceHolds` goes by `ReceiptInv`: a
request is `Midway` through its receipt, the lines behind it are sent on, and each item
has had nothing of the receipt, is due the first of its lines, or has that booked, once.
No sum occurs: a line is skipped where the item has a movement of this receipt (finding
3), so that a movement stands for one line, by its quantity.

`PlatformProofs` proves five properties of `Platform`, each with everything else at work
that writes what it is about (requests, cold starts, deletions, scripts, imports, and
deaths of all of them), for any people, roles, modules, passwords, tasks and openings.
It assumes of the constants:

* `PlatformAssumption`: roles and modules are finitely many, the administrator's role is
  one the seed makes, nobody's password is the placeholder's.
* `FileAssumption`: the legacy file is finite, and if it has a rule, one of that shape.
* `NothingAssumption`: no value of a column is the null it is compared with.
* `OpeningAssumption`: where requests about accounts are at work beside the filling of the
  database, nobody imports. The import is run before the system is opened; only
  `SeedLeavesReady` uses this.

A task is a list of steps, so all rests on lemmas about lists: what they are made of
(`ListAll`, `ListPuts`), what a list is after its first step (`Spliced`, `StepsSpliced`,
`KindKept`), and that each of the program's lists is of one of five kinds (`SeedStepsIs`,
`ImportStepsIs`, `RolesStarted`). The invariants:

* `TaskInv`: a task's list is of one of these kinds, of a part at work, and an import is
  alone with tasks that write grids.
* `RuleInv`: a task about to write a number has the one after the rule's, unless two took
  one at once, and an import has wiped the rule where it still brings one. `NumbersKept`
  follows: the seed of a cold start between a request's reading of the rule and its
  writing leaves the sequence, and so do an edit and a second import.
* `SeedInv`: what a cold start in progress makes is there or among the steps it has left
  (`Owes`), for each role, row, the rule, the settings and the administrator. It is kept
  because nothing but an import takes these away again (`Lasts`): system roles are not
  deleted, a row is written over but never emptied, an account stays. At its last step
  nothing is left to make, which is `SeedLeavesReady`.
* `AccountInv`, where no import runs, has three parts. `AccountForm`: the shape of
  accounts, tokens and requests. `SessionInv`: a session, or one about to be issued,
  `Fits`: its version is not ahead of the account's, and if it is the account's, so is the
  password it was opened with; and what a request is about exists. `RoleInv`: a user
  nobody disturbed is `Settled`: one role at rest, none while a request is between taking
  the old one and giving the new one, and one such request. `SessionsCorrect` and
  `RolesCorrect` prove `SessionKnowsPassword` and `OneRole`.
* `GridInv`, from which `GridsStayWhole` proves `GridWhole`. `WholeInv` is its heart: the
  rows a role's grid has and those that tasks have in hand for it (`Pending`) make up one
  grid somebody meant (`Completes`), or there are neither, or the role is gone and the
  rows come too late (`Coming`). That is inductive because the rows in hand come before
  all else on a list (`FirstInv`), they are of one task unless two met on the role
  (`MeetInv`), an import is alone when it wipes the grids and brings them (`AloneInv`),
  and a role has permissions it was given (`GivenInv`), so that the rows a cold start
  finds missing follow from what the others follow from. The weaker `GridWhole` says
  nothing while a row is in hand, which is when grids are mixed.

`SocietyProofs` proves five properties of `Society`, each with all desks at work and
requests that end anywhere, for any rows, people and keys. It assumes of the constants:

* `TablesAssumption`: every table has identifiers of its own.
* `EditsAssumption`, `CapAssumption`: a plot is edited to statuses of the table other than those only merges
  and buybacks give, and the queue shows at least one row of a module. No proof uses them.
* `OwnersAssumption`: every plot begins with an owner and a row of his in the history, no
  two with the same row.
* `NamesAssumption`: the words that say a row of the history is there by hand, or that
  there is nobody, are not among the transfers, members or documents.
* `MarksAssumption`, `RecordsAssumption`: the marks of a day, users and notifications are
  finitely many (the handlers go through them one by one), and there are versions.

A request here is a list of writes, so the proofs are about lists: what each handler may
put on one (`...Does`, `...Begins`), and that a list gets shorter by its first write
(`Tails`, `Behead`). A step that touches none of a table's columns an invariant is about
is `Leaving`, and one lemma per table (`CaseMoves`, `TitleMoves`) says which do not.

* `OfficeInv` (`OfficeSound`): requests and rows have the shapes the handlers write; a
  key that is not upset is held by one row, or by none and promised to one request
  (`KeyInv`); an import takes back no more than it wrote. `KeysStayUnique` follows. The
  property alone is not inductive: what a look-up found free stays so only because a
  second request that finds it free upsets the key.
* `KindInv` (`KindsSound`): a request that writes those columns has one of a few lists
  left (a thread, a deed, a change of owner, an upload), so that the invariants below
  need only say what is true at each point of them.
* `ThreadInv`: a request about to write a thread back holds the present one and one entry
  more, unless two were to or one failed. `ThreadsOnlyGrow`, an action property, follows.
* `TransferInv`: a transfer about to move its plot has not moved it, and marks it moved
  with its last write. `TransfersMoveOnce` follows.
* `OwnerInv`: of the history of a plot taken as one value, its `Book`. Undisturbed, it is
  `OnRecord`: the owner's interval is open, and another only of a member who has had two
  (`Former`). While one request changes the owner it is `Changing` instead, in three
  ways: by a deed, by an edit, or by the first row of a plot. What holds of closed
  intervals (`ClosingInv`) holds whatever happens. `OwnersStayOnRecord` follows.
* `ShelfInv` and `MarkInv`: of the documents taken as one value, their `Shelf`. Always, a
  mark names the next version and no version before the last is missing (`InOrder`), an
  upload in progress fits in, and one about to mark has begun to write. Where no two
  uploads were to write one version, a version that has a later one and is not marked has
  a request that is about to mark it. `VersionsStayCurrent` follows.

Only model-checked:

* Liveness (`ChecksSettle`) is beyond the prover, as is `QueueHonest`, which uses
  `ENABLED`.
* `PaidByPayments`, `BalanceTrue`, `OldestFirst`, `BooksAgree`, `LoansByRuns` and
  `DraftsAddUp` sum over finite sets and sequences of any size (`MapThenSumSet`, folds).
  What a sum becomes when one row changes is an induction over data, for which the
  library's theorems would have to be instantiated with an operator.
* `ImportComplete`, `QueriesAgree` and `RowsAsRequests` are of the same kind: lists of
  steps and filters of any length.
* `CacheFollows` holds of permissions as the pages offer them; with `SystemAdmin` among
  those a page may send, which only scripts write, it need not: it is not a theorem for
  every value of `Perms`.

No module uses RECURSIVE.

## 7. Not modelled

* `search`, `lookups`' result rows, list pages, statistics, exports, PDF and Excel
  layouts: reads whose result no step depends on.
* Request validation, routing, uploads, mail (a stub), PDF branding.
* Audit rows, except where their failure ends a request (`WriteAudit`, `StepFails`).
* Floating point: money is whole units; `PayrollRules` rounds where the code does.
* The raw SQL of `numbering.service.js` (no route reaches it), `rbac/access.model.js`
  (nothing requires it), development data, one-off repair and test scripts.
* Time: a day or a minute is the unit; expiry of access tokens is not.

## 8. Plan

1. An abstract ledger of stock that `Stock` refines: `Ledger` and `LedgerInv` are most
   of its proof.
2. Salary structures and attendance as actions of `Payroll`; master data of plots.
