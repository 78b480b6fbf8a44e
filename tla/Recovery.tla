------------------------------ MODULE Recovery ------------------------------
(***************************************************************************)
(* recovery/service.js: who follows up which overdue booking, and the      *)
(* check that blocks the plots of those far behind.                        *)
(*                                                                         *)
(* Of a booking the module keeps what it owes: nothing overdue, or an      *)
(* overdue installment together with the percentage paid so far.  A worker *)
(* is a request in flight, a server is a process of the backend; the lock  *)
(* autoBlockRunPromise is one per server.                                  *)
(***************************************************************************)
EXTENDS Integers, Sequences, FiniteSets

CONSTANTS Bookings, Plots, Agents, Workers, Servers, None,
          PlotOf,      \* the plot of each booking
          Percents,    \* percentages paid, and thresholds
          MaxRows,     \* bound on assignments
          MaxCalls,    \* bound on the calls logged
          MaxMoves,    \* bound on the steps of debts, cancellations and the threshold
          MaxFaults    \* bound on failing checks

ASSUME RecoveryAssumption ==
  /\ PlotOf \in [Bookings -> Plots]
  /\ Percents \subseteq Nat
  /\ None \notin Bookings \cup Agents \cup Nat
  /\ MaxRows \in Nat /\ MaxCalls \in Nat /\ MaxMoves \in Nat /\ MaxFaults \in Nat

VARIABLES
  paid,       \* paid[b]: percent paid of an overdue booking, None if nothing is overdue
  cancelled,  \* the cancelled bookings
  threshold,  \* settings.recoveryAutoBlockThreshold
  blocked,    \* blocked[p]: plots.isBlocked
  rows,       \* the recoveryAssignments, in the order of their insertion
  calls,      \* calls[r]: recoveryCalls of row r
  job,        \* job[w]: the request worker w runs
  check,      \* check[s]: the run of runAutoBlockCheck server s is in
  raced,      \* ghost: bookings two requests were about at once
  moves, faults

debtVars   == <<paid, cancelled, threshold, moves>>
deskVars   == <<rows, calls, job, raced>>
checkVars  == <<blocked, check, faults>>
vars == <<debtVars, deskVars, checkVars>>

\* summarizeBooking, isOverdueInstallment: a cancelled booking has no summary.
Overdue(b) == b \notin cancelled /\ paid[b] # None
LateNow == {b \in Bookings : Overdue(b)}

ActiveStatuses == {"Assigned", "InProgress"}
ActiveOf(b) == {r \in DOMAIN rows : rows[r].booking = b /\ rows[r].status \in ActiveStatuses}

\* What the pages list: the pool anybody may reserve from, an agent's plots, and the
\* bookings he may send reminders about.
listPool == {b \in LateNow : ActiveOf(b) = {}}
listMyPlots(a) == {r \in DOMAIN rows : rows[r].agent = a /\ rows[r].status # "Reassigned"}
sendReminders(a) == {b \in LateNow : \E r \in ActiveOf(b) : rows[r].agent = a}

NoJob   == [at |-> "idle", on |-> {}, todo |-> {}, late |-> {}, agent |-> None,
            booking |-> None, row |-> 0]
NoCheck == [at |-> "idle", threshold |-> 0, should |-> <<>>, was |-> <<>>,
            todo |-> {}, clean |-> TRUE]

Init ==
  /\ paid \in [Bookings -> Percents \cup {None}]
  /\ cancelled \in SUBSET Bookings
  /\ threshold \in Percents
  /\ blocked \in [Plots -> BOOLEAN]
  /\ rows = <<>> /\ calls = <<>>
  /\ job = [w \in Workers |-> NoJob]
  /\ check = [s \in Servers |-> NoCheck]
  /\ raced = {} /\ moves = 0 /\ faults = 0

-----------------------------------------------------------------------------
(* Assignments                                                             *)

Set(w, j) == job' = [job EXCEPT ![w] = j]

\* A request about the bookings S starts; what another one is about is raced.
Begin(w, S, j) ==
  /\ job[w] = NoJob
  /\ Set(w, [j EXCEPT !.on = S])
  /\ raced' = raced \cup (S \cap UNION {job[v].on : v \in Workers \ {w}})

Insert(w, next) ==
  /\ Len(rows) < MaxRows
  /\ rows' = Append(rows, [booking |-> job[w].booking, agent |-> job[w].agent,
                           status |-> "Assigned"])
  /\ calls' = Append(calls, 0)
  /\ Set(w, next)

\* assign: one agent, a list of bookings, one reading of all debts.
Assign(w, a, S) ==
  /\ S # {}
  /\ Begin(w, S, [NoJob EXCEPT !.at = "look", !.todo = S, !.late = LateNow, !.agent = a])
  /\ UNCHANGED <<debtVars, checkVars, rows, calls>>

\* reserve: an agent takes one booking, which must be overdue.
Reserve(w, a, b) ==
  /\ Overdue(b)
  /\ Begin(w, {b}, [NoJob EXCEPT !.at = "look", !.todo = {b}, !.late = {b}, !.agent = a])
  /\ UNCHANGED <<debtVars, checkVars, rows, calls>>

\* Mutation: bookings that have an active assignment are not skipped.
Look_NoSkip(w) ==
  /\ job[w].at = "look"
  /\ \E b \in job[w].todo :
       LET rest == [job[w] EXCEPT !.todo = @ \ {b}] IN
       Set(w, IF b \in job[w].late THEN [rest EXCEPT !.at = "insert", !.booking = b] ELSE rest)
  /\ UNCHANGED <<debtVars, checkVars, rows, calls, raced>>

\* The next booking of the list: skipped when it was not overdue or is taken.
Look(w) ==
  /\ job[w].at = "look"
  /\ \E b \in job[w].todo :
       LET rest == [job[w] EXCEPT !.todo = @ \ {b}] IN
       Set(w, IF b \in job[w].late /\ ActiveOf(b) = {}
              THEN [rest EXCEPT !.at = "insert", !.booking = b] ELSE rest)
  /\ UNCHANGED <<debtVars, checkVars, rows, calls, raced>>

InsertAssignment(w) ==
  /\ job[w].at = "insert"
  /\ Insert(w, [job[w] EXCEPT !.at = "look", !.booking = None])
  /\ UNCHANGED <<debtVars, checkVars, raced>>

Answer(w) ==
  /\ job[w].at = "look" /\ job[w].todo = {}
  /\ Set(w, NoJob)
  /\ UNCHANGED <<debtVars, checkVars, rows, calls, raced>>

\* reassign: by a supervisor, of an active row.
Reassign(w, r, a) ==
  /\ rows[r].status \in ActiveStatuses
  /\ Begin(w, {rows[r].booking}, [NoJob EXCEPT !.at = "close", !.row = r, !.agent = a,
                                               !.booking = rows[r].booking])
  /\ UNCHANGED <<debtVars, checkVars, rows, calls>>

\* resolve: of a row in any status.
Resolve(w, r) ==
  /\ Begin(w, {rows[r].booking}, [NoJob EXCEPT !.at = "resolve", !.row = r])
  /\ UNCHANGED <<debtVars, checkVars, rows, calls>>

\* addCall: the status decides what follows the insert of the call.
AddCall(w, r) ==
  /\ Begin(w, {rows[r].booking},
           [NoJob EXCEPT !.at = IF rows[r].status = "Assigned" THEN "callFirst" ELSE "call",
                         !.row = r])
  /\ UNCHANGED <<debtVars, checkVars, rows, calls>>

SetStatus(r, s) == rows' = [rows EXCEPT ![r].status = s]

CloseOld(w) ==
  /\ job[w].at = "close"
  /\ SetStatus(job[w].row, "Reassigned")
  /\ Set(w, [job[w] EXCEPT !.at = "replace"])
  /\ UNCHANGED <<debtVars, checkVars, calls, raced>>

InsertReplacement(w) ==
  /\ job[w].at = "replace"
  /\ Insert(w, NoJob)
  /\ UNCHANGED <<debtVars, checkVars, raced>>

MarkResolved(w) ==
  /\ job[w].at = "resolve"
  /\ SetStatus(job[w].row, "Resolved")
  /\ Set(w, NoJob)
  /\ UNCHANGED <<debtVars, checkVars, calls, raced>>

InsertCall(w) ==
  /\ job[w].at \in {"call", "callFirst"}
  /\ calls[job[w].row] < MaxCalls
  /\ calls' = [calls EXCEPT ![job[w].row] = @ + 1]
  /\ Set(w, IF job[w].at = "callFirst" THEN [job[w] EXCEPT !.at = "progress"] ELSE NoJob)
  /\ UNCHANGED <<debtVars, checkVars, rows, raced>>

\* The status read may be gone by now.
MarkInProgress(w) ==
  /\ job[w].at = "progress"
  /\ SetStatus(job[w].row, "InProgress")
  /\ Set(w, NoJob)
  /\ UNCHANGED <<debtVars, checkVars, calls, raced>>

\* A statement fails, or the process stops: the request ends where it is.
Die(w) ==
  /\ job[w] # NoJob
  /\ Set(w, NoJob)
  /\ UNCHANGED <<debtVars, checkVars, rows, calls, raced>>

Requests(w) ==
  \/ \E a \in Agents, S \in SUBSET Bookings : Assign(w, a, S)
  \/ \E a \in Agents, b \in Bookings : Reserve(w, a, b)
  \/ \E r \in DOMAIN rows : (\E a \in Agents : Reassign(w, r, a)) \/ Resolve(w, r) \/ AddCall(w, r)
  \/ Look(w) \/ InsertAssignment(w) \/ Answer(w)
  \/ CloseOld(w) \/ InsertReplacement(w) \/ MarkResolved(w)
  \/ InsertCall(w) \/ MarkInProgress(w) \/ Die(w)

-----------------------------------------------------------------------------
(* runAutoBlockCheck                                                       *)

Run(s, c) == check' = [check EXCEPT ![s] = c]

Behind(b, limit) == Overdue(b) /\ paid[b] <= limit

\* Every caller forces the check; it is refused only while one is running here.
BeginCheck(s) ==
  /\ check[s] = NoCheck
  /\ check' = [t \in Servers |->
        IF t = s THEN [NoCheck EXCEPT !.at = "debts", !.threshold = threshold,
                         !.clean = \A v \in Servers : check[v] = NoCheck]
                 ELSE [check[t] EXCEPT !.clean = (check[t] = NoCheck)]]
  /\ UNCHANGED <<debtVars, deskVars, blocked, faults>>

\* loadContext sends its queries together; debts and plots arrive one by one.
ReadDebts(s) ==
  /\ check[s].at = "debts"
  /\ Run(s, [check[s] EXCEPT !.at = "plots",
               !.should = [b \in Bookings |-> Behind(b, check[s].threshold)]])
  /\ UNCHANGED <<debtVars, deskVars, blocked, faults>>

ReadPlots(s) ==
  /\ check[s].at = "plots"
  /\ Run(s, [check[s] EXCEPT !.at = "walk", !.was = blocked, !.todo = Bookings])
  /\ UNCHANGED <<debtVars, deskVars, blocked, faults>>

\* Mutation: a plot is only ever blocked, never released.
Walk_BlockOnly(s) ==
  /\ check[s].at = "walk"
  /\ \E b \in check[s].todo :
       /\ Run(s, [check[s] EXCEPT !.todo = @ \ {b}])
       /\ blocked' = [blocked EXCEPT ![PlotOf[b]] = @ \/ check[s].should[b]]
  /\ UNCHANGED <<debtVars, deskVars, faults>>

\* One booking: its plot is written if the plot as read says otherwise.
Walk(s) ==
  /\ check[s].at = "walk"
  /\ \E b \in check[s].todo :
       /\ Run(s, [check[s] EXCEPT !.todo = @ \ {b}])
       /\ blocked' = IF check[s].was[PlotOf[b]] = check[s].should[b] THEN blocked
                     ELSE [blocked EXCEPT ![PlotOf[b]] = check[s].should[b]]
  /\ UNCHANGED <<debtVars, deskVars, faults>>

EndCheck(s) ==
  /\ check[s].at = "walk" /\ check[s].todo = {}
  /\ Run(s, NoCheck)
  /\ UNCHANGED <<debtVars, deskVars, blocked, faults>>

\* Mutation: a failed run leaves the lock taken.
FailCheck_KeepsLock(s) ==
  /\ check[s] # NoCheck /\ faults < MaxFaults
  /\ faults' = faults + 1
  /\ Run(s, [NoCheck EXCEPT !.at = "failed"])
  /\ UNCHANGED <<debtVars, deskVars, blocked>>

\* A statement fails: finally gives the lock back.  A restart does the same.
FailCheck(s) ==
  /\ check[s] # NoCheck /\ faults < MaxFaults
  /\ faults' = faults + 1
  /\ Run(s, NoCheck)
  /\ UNCHANGED <<debtVars, deskVars, blocked>>

CheckStep(s) == BeginCheck(s) \/ ReadDebts(s) \/ ReadPlots(s) \/ Walk(s) \/ EndCheck(s)

-----------------------------------------------------------------------------
(* The rest of the system: installments fall due and are paid, bookings    *)
(* are cancelled, the threshold is set.                                    *)

DebtsMove ==
  /\ moves < MaxMoves
  /\ moves' = moves + 1
  /\ check' = [s \in Servers |-> [check[s] EXCEPT !.clean = (check[s] = NoCheck)]]
  /\ \/ \E b \in Bookings, q \in Percents \cup {None} :
          paid' = [paid EXCEPT ![b] = q] /\ UNCHANGED <<cancelled, threshold>>
     \/ \E b \in Bookings : cancelled' = cancelled \cup {b} /\ UNCHANGED <<paid, threshold>>
     \/ \E q \in Percents : threshold' = q /\ UNCHANGED <<paid, cancelled>>
  /\ UNCHANGED <<deskVars, blocked, faults>>

Next ==
  \/ \E w \in Workers : Requests(w)
  \/ \E s \in Servers : CheckStep(s) \/ FailCheck(s)
  \/ DebtsMove

Spec == Init /\ [][Next]_vars

\* A timer starts the check every day in every process, and a check that is
\* running goes on: its statements answer or fail.
Fairness == \A s \in Servers : WF_vars(CheckStep(s))
FairSpec == Spec /\ Fairness

-----------------------------------------------------------------------------
(* What the follow-up of overdue bookings gets right.                      *)

\* A booking is followed up by one agent at a time: at most one assignment of it
\* is active, through assign, reserve, reassign, resolve and calls, and through
\* requests that die half way; unless two requests were about it at once.  An
\* overdue booking is then in the pool or on the list of just one agent, who alone
\* reminds its member.
OneActive ==
  \A b \in Bookings \ raced :
    /\ \A r, q \in ActiveOf(b) : r = q
    /\ b \in LateNow =>
         LET agents == {a \in Agents : b \in sendReminders(a)} IN
         /\ agents = {} <=> b \in listPool
         /\ \A a \in agents : b \in {rows[r].booking : r \in listMyPlots(a)}
         /\ Cardinality(agents) <= 1

BookingsOn(p) == {b \in Bookings : PlotOf[b] = p}

\* At the end of a check that nothing disturbed, the flag of a plot says what its
\* bookings agree on: blocked if overdue and at or under the threshold.  Where
\* they disagree (a cancelled booking beside the one that followed it) the check
\* turns the flag over, whatever it was and whichever booking came first.
CheckDecides ==
  \A s \in Servers, p \in Plots :
    (check[s].at = "walk" /\ check[s].todo = {} /\ check[s].clean /\ BookingsOn(p) # {}) =>
      blocked[p] = IF \A b, d \in BookingsOn(p) : Behind(b, threshold) <=> Behind(d, threshold)
                   THEN \E b \in BookingsOn(p) : Behind(b, threshold)
                   ELSE ~check[s].was[p]

\* Once debts and settings rest, the daily checks block the plots that are behind
\* and release the others, for good, although checks may fail and may overlap in
\* other processes.
BlocksInTheEnd ==
  <>[](\A p \in Plots, ok \in BOOLEAN :
         (BookingsOn(p) # {} /\ \A b \in BookingsOn(p) : Behind(b, threshold) = ok) =>
           blocked[p] = ok)
=============================================================================
