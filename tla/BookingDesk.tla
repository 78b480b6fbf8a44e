----------------------------- MODULE BookingDesk -----------------------------
(***************************************************************************)
(* The sale of plots: bookings/service.js, buyback/service.js,             *)
(* plot-merge/service.js and the status part of properties/service.js,     *)
(* over the tables plots, bookings, installmentPlans, installments,        *)
(* buybacks and plotMerges.                                                *)
(*                                                                         *)
(* Every request is an async function that awaits one autonomous SQL       *)
(* statement at a time; no transaction and no lock joins them.  A worker   *)
(* is a request in flight.  Its first step stands for the reads and        *)
(* refusals that precede its first write; each later step is one statement *)
(* and works with what the request read before.  Requests interleave       *)
(* freely, and a request may die between any two statements.               *)
(***************************************************************************)
EXTENDS PlotStateMachine, FiniteSets

CONSTANTS Plots, Bookings, Members, Records, Workers, Installments, None,
          Edits,     \* statuses operators set by hand
          Advances   \* statuses that transfers, possession and construction set

ASSUME NoneAssumption ==
  None \notin Plots \cup Bookings \cup Members \cup Records \cup STATUS

\* PlotService.update refuses Merged and BoughtBack to everyone but the
\* life-cycle modules; the other modules write only these four.
ASSUME TargetsAssumption ==
  /\ Edits \subseteq STATUS \ {"Merged", "BoughtBack"}
  /\ Advances \subseteq {"Transferred", "Possessed", "Under Construction", "Constructed"}

VARIABLES
  plotStatus,  \* plots.status; "Absent" before the insert, "Deleted" after the delete
  bkStatus,    \* bookings.status; "none" before the insert
  bkPlot,      \* bookings.plot
  bkMember,    \* bookings.member
  plans,       \* plans[b]: the requests that inserted an InstallmentPlan for b
  row,         \* row[<<b, w, i>>]: installment i of the plan request w made for b:
               \* "none", "due" (balance > 0), "paid" (balance 0) or "voided"
  record,      \* buybacks and plotMerges, one id space
  job,         \* job[w]: the request worker w runs
  upset        \* ghost: what has gone wrong around a plot (see Causes)

vars == <<plotStatus, bkStatus, bkPlot, bkMember, plans, row, record, job, upset>>
tables == <<plotStatus, bkStatus, bkPlot, bkMember, plans, row, record>>

\* "overlap": two requests on the plot were in flight at once;
\* "partial": a request on it ended after some of its writes but not all;
\* "edit":    an operator set a status by hand that contradicts the bookings.
Causes == {"overlap", "partial", "edit"}

Row == Bookings \X Workers \X Installments

BkStatus == {"none", "Pending", "Confirmed", "Cancelled"}
Active   == {"Pending", "Confirmed"}
PlotCell == STATUS \cup {"Absent", "Deleted"}

Ops == {"idle", "create", "approve", "reject", "cancel", "buyback", "merge",
        "edit", "advance", "pay"}
PCs == {"idle", "insert", "record", "invoice", "mark", "plotRead", "plotWrite",
        "settings", "confirm", "plan", "rows", "land", "receipt", "complete", "audit",
        "fail"}

Job == [op : Ops, pc : PCs, bk : Bookings \cup {None}, plot : Plots \cup {None},
        held : SUBSET Plots, target : STATUS \cup {None}, todo : SUBSET Plots,
        rows : SUBSET Row, rec : Records \cup {None}]

NoJob == [op |-> "idle", pc |-> "idle", bk |-> None, plot |-> None, held |-> {},
          target |-> None, todo |-> {}, rows |-> {}, rec |-> None]

Record == [kind : {"none", "buyback", "merge"},
           status : {"none", "Pending", "Completed", "Failed"},
           bk : Bookings \cup {None}, plots : SUBSET Plots]

NoRecord == [kind |-> "none", status |-> "none", bk |-> None, plots |-> {}]

Init ==
  /\ plotStatus = [p \in Plots |-> "Absent"]
  /\ bkStatus = [b \in Bookings |-> "none"]
  /\ bkPlot = [b \in Bookings |-> None]
  /\ bkMember = [b \in Bookings |-> None]
  /\ plans = [b \in Bookings |-> {}]
  /\ row = [x \in Row |-> "none"]
  /\ record = [r \in Records |-> NoRecord]
  /\ job = [w \in Workers |-> NoJob]
  /\ upset = [p \in Plots |-> {}]

Live(p) == {b \in Bookings : bkPlot[b] = p /\ bkStatus[b] \in Active}
Exists(p) == plotStatus[p] \in STATUS
Quiet(p) == upset[p] = {}

-----------------------------------------------------------------------------
(* Bookkeeping of requests *)

Plain(op, pc, p, b, s) ==
  [NoJob EXCEPT !.op = op, !.pc = pc, !.plot = p, !.bk = b, !.held = {p}, !.target = s]

\* Requests j and k work against each other on plot p: both hold it, or one
\* voids installments that the other is collecting.
Clash(j, k, p) ==
  \/ p \in j.held /\ p \in k.held
  \/ p = j.plot /\ p = k.plot /\ {j.op, k.op} = {"pay", "cancel"}

\* A request begins; the plots it shares with another one are now overlapped.
Begin(w, j) ==
  /\ job[w] = NoJob
  /\ job' = [job EXCEPT ![w] = j]
  /\ upset' = [p \in Plots |->
       IF \E v \in Workers : Clash(j, job[v], p)
       THEN upset[p] \cup {"overlap"} ELSE upset[p]]

Goto(w, pc) == job' = [job EXCEPT ![w].pc = pc]
Finish(w)   == job' = [job EXCEPT ![w] = NoJob]

\* Ending here leaves the plot, the booking and the installments at odds.
Halfway(j) ==
  \/ j.op = "create"  /\ j.pc \in {"plotRead", "plotWrite"}
  \/ j.op = "approve" /\ j.pc \in {"confirm", "plan", "rows"}
  \/ j.op \in {"reject", "cancel"} /\ j.pc \in {"plotRead", "plotWrite"}
  \/ j.op = "cancel"  /\ j.pc = "mark"
  \/ j.op = "buyback" /\ j.pc = "mark"

Upset(p, cause) == upset' = [upset EXCEPT ![p] = @ \cup {cause}]
BreakOff(w) ==
  IF Halfway(job[w]) THEN Upset(job[w].plot, "partial") ELSE UNCHANGED upset

\* Ids not yet used and not reserved by a request in flight.
FreshBookings == {b \in Bookings : bkStatus[b] = "none" /\ \A w \in Workers : job[w].bk # b}
FreshRecords  == {r \in Records : record[r] = NoRecord /\ \A w \in Workers : job[w].rec # r}

SetPlot(p, s) ==
  plotStatus' = IF Exists(p) THEN [plotStatus EXCEPT ![p] = s] ELSE plotStatus

-----------------------------------------------------------------------------
(* PlotService.update, called by most requests: it reads the plot, checks  *)
(* the table against that reading, and writes without checking again.      *)

\* Mutation: the table is not consulted.
PlotUpdateRead_Unchecked(w) ==
  LET j == job[w] IN
  /\ j.pc = "plotRead" /\ j.op # "merge"
  /\ Goto(w, "plotWrite")
  /\ UNCHANGED <<tables, upset>>

PlotUpdateRead(w) ==
  LET j == job[w] IN
  /\ j.pc = "plotRead" /\ j.op # "merge"
  /\ IF Exists(j.plot) /\ canTransition(plotStatus[j.plot], j.target)
     THEN Goto(w, "plotWrite") /\ UNCHANGED upset
     ELSE \* 404 or 409 thrown into the request
          IF j.op = "buyback" THEN Goto(w, "fail") /\ UNCHANGED upset
          ELSE Finish(w) /\ IF j.op = "create" THEN Upset(j.plot, "partial")
                                               ELSE UNCHANGED upset
  /\ UNCHANGED tables

AfterPlotWrite(op) ==
  CASE op = "create"  -> "settings"
    [] op = "approve" -> "confirm"
    [] op = "buyback" -> "mark"
    [] OTHER          -> "idle"

\* Whether status s is what the live bookings of p call for.
Agrees(p, s) ==
  /\ \A b \in Live(p) : \/ bkStatus[b] = "Pending" /\ s = "Booked"
                        \/ bkStatus[b] = "Confirmed" /\ s \in AllottedOrLater
  /\ s \in {"Booked", "Allotted"} => Live(p) # {}

PlotUpdateWrite(w) ==
  LET j == job[w] IN
  /\ j.pc = "plotWrite" /\ j.op # "merge"
  /\ SetPlot(j.plot, j.target)
  /\ IF AfterPlotWrite(j.op) = "idle" THEN Finish(w) ELSE Goto(w, AfterPlotWrite(j.op))
  /\ IF j.op = "edit" /\ Exists(j.plot) /\ ~Agrees(j.plot, j.target)
     THEN Upset(j.plot, "edit") ELSE UNCHANGED upset
  /\ UNCHANGED <<bkStatus, bkPlot, bkMember, plans, row, record>>

-----------------------------------------------------------------------------
(* BookingService.create *)

\* Mutation: the plot need only exist.
CreateBooking_Unchecked(w, p, b) ==
  /\ Exists(p)
  /\ b \in FreshBookings
  /\ Begin(w, Plain("create", "insert", p, b, "Booked"))
  /\ UNCHANGED tables

CreateBooking(w, p, b) ==
  /\ plotStatus[p] = "Available"
  /\ b \in FreshBookings
  /\ Begin(w, Plain("create", "insert", p, b, "Booked"))
  /\ UNCHANGED tables

\* The insert fails on its foreign key when the plot has been deleted meanwhile.
InsertBooking(w) ==
  LET j == job[w] IN
  /\ j.pc = "insert"
  /\ IF Exists(j.plot)
     THEN /\ bkStatus' = [bkStatus EXCEPT ![j.bk] = "Pending"]
          /\ bkPlot' = [bkPlot EXCEPT ![j.bk] = j.plot]
          /\ \E m \in Members : bkMember' = [bkMember EXCEPT ![j.bk] = m]
          /\ Goto(w, "plotRead")
     ELSE Finish(w) /\ UNCHANGED <<bkStatus, bkPlot, bkMember>>
  /\ UNCHANGED <<plotStatus, plans, row, record, upset>>

\* settings.requireBookingApproval as it is read now: true ...
AwaitApproval(w) ==
  /\ job[w].pc = "settings"
  /\ Finish(w)
  /\ UNCHANGED <<tables, upset>>

\* ... or false, and the request goes on as an approval of its own booking.
AutoApprove(w) ==
  LET j == job[w] IN
  /\ j.pc = "settings"
  /\ IF bkStatus[j.bk] = "Pending"
     THEN job' = [job EXCEPT ![w] = Plain("approve", "plotRead", j.plot, j.bk, "Allotted")]
     ELSE Finish(w)
  /\ UNCHANGED <<tables, upset>>

-----------------------------------------------------------------------------
(* BookingService.approve *)

\* Mutation: any booking not yet confirmed can be approved.
ApproveBooking_AnyStatus(w, b) ==
  /\ bkStatus[b] \notin {"none", "Confirmed"}
  /\ Begin(w, Plain("approve", "plotRead", bkPlot[b], b, "Allotted"))
  /\ UNCHANGED tables

ApproveBooking(w, b) ==
  /\ bkStatus[b] = "Pending"
  /\ Begin(w, Plain("approve", "plotRead", bkPlot[b], b, "Allotted"))
  /\ UNCHANGED tables

\* Mutation: the plot's new status is written to the booking.
ConfirmBooking_PlotWord(w) ==
  /\ job[w].pc = "confirm"
  /\ bkStatus' = [bkStatus EXCEPT ![job[w].bk] = job[w].target]
  /\ Goto(w, "plan")
  /\ UNCHANGED <<plotStatus, bkPlot, bkMember, plans, row, record, upset>>

ConfirmBooking(w) ==
  /\ job[w].pc = "confirm"
  /\ bkStatus' = [bkStatus EXCEPT ![job[w].bk] = "Confirmed"]
  /\ Goto(w, "plan")
  /\ UNCHANGED <<plotStatus, bkPlot, bkMember, plans, row, record, upset>>

\* Mutation: one installment too few.
CreatePlan_OneShort(w) ==
  LET b == job[w].bk IN
  /\ job[w].pc = "plan"
  /\ plans' = [plans EXCEPT ![b] = @ \cup {w}]
  /\ \E i \in Installments :
       job' = [job EXCEPT ![w].pc = "rows", ![w].rows = {b} \X {w} \X (Installments \ {i})]
  /\ UNCHANGED <<plotStatus, bkStatus, bkPlot, bkMember, row, record, upset>>

CreatePlan(w) ==
  LET b == job[w].bk IN
  /\ job[w].pc = "plan"
  /\ plans' = [plans EXCEPT ![b] = @ \cup {w}]
  /\ job' = [job EXCEPT ![w].pc = "rows", ![w].rows = {b} \X {w} \X Installments]
  /\ UNCHANGED <<plotStatus, bkStatus, bkPlot, bkMember, row, record, upset>>

\* insertMany: one insert per installment.
CreateInstallment(w) ==
  /\ job[w].pc = "rows"
  /\ \E x \in job[w].rows :
       /\ row' = [row EXCEPT ![x] = "due"]
       /\ IF job[w].rows = {x} THEN Finish(w)
          ELSE job' = [job EXCEPT ![w].rows = @ \ {x}]
  /\ UNCHANGED <<plotStatus, bkStatus, bkPlot, bkMember, plans, record, upset>>

-----------------------------------------------------------------------------
(* BookingService.reject and cancel, and the end of a buyback *)

RejectBooking(w, b) ==
  /\ bkStatus[b] = "Pending"
  /\ Begin(w, Plain("reject", "mark", bkPlot[b], b, "Available"))
  /\ UNCHANGED tables

\* The installments cancel reads: those of a plan of b or, when b has no plan,
\* all those of the same member and plot.
PlanRows(b, x) == {b} \X {x} \X Installments
FallbackRows(b) == {x \in Row : bkMember[x[1]] = bkMember[b] /\ bkPlot[x[1]] = bkPlot[b]}
Unpaid(rs) == {x \in rs : row[x] = "due"}

\* Mutation: only a booking still pending has its installments voided.
ToVoid_WrongStatus(b) ==
  IF bkStatus[b] # "Pending" THEN {{}} ELSE {Unpaid(PlanRows(b, x)) : x \in plans[b]} \cup {{}}

ToVoid(b) ==
  IF bkStatus[b] # "Confirmed" THEN {{}}
  ELSE IF plans[b] = {} THEN {Unpaid(FallbackRows(b))}
  ELSE {Unpaid(PlanRows(b, x)) : x \in plans[b]}

CancelBooking(w, b) ==
  /\ bkStatus[b] \in Active
  /\ \E rs \in ToVoid(b) :
       Begin(w, [Plain("cancel", "mark", bkPlot[b], b, "Available") EXCEPT !.rows = rs])
  /\ UNCHANGED tables

VoidInstallment(w) ==
  /\ job[w].pc = "mark"
  /\ \E x \in job[w].rows :
       /\ row' = [row EXCEPT ![x] = "voided"]
       /\ job' = [job EXCEPT ![w].rows = @ \ {x}]
  /\ UNCHANGED <<plotStatus, bkStatus, bkPlot, bkMember, plans, record, upset>>

\* Mutation: the booking is cancelled and its plot forgotten.
MarkCancelled_KeepsPlot(w) ==
  /\ job[w].pc = "mark" /\ job[w].rows = {}
  /\ bkStatus' = [bkStatus EXCEPT ![job[w].bk] = "Cancelled"]
  /\ IF job[w].op = "buyback" THEN Goto(w, "complete") ELSE Finish(w)
  /\ UNCHANGED <<plotStatus, bkPlot, bkMember, plans, row, record, upset>>

MarkCancelled(w) ==
  /\ job[w].pc = "mark" /\ job[w].rows = {}
  /\ bkStatus' = [bkStatus EXCEPT ![job[w].bk] = "Cancelled"]
  /\ Goto(w, IF job[w].op = "buyback" THEN "complete" ELSE "plotRead")
  /\ UNCHANGED <<plotStatus, bkPlot, bkMember, plans, row, record, upset>>

-----------------------------------------------------------------------------
(* BuyBackService.execute and PlotMergeService.execute *)

Standing(b) == {r \in Records : /\ record[r].kind = "buyback" /\ record[r].bk = b
                                /\ record[r].status \in {"Pending", "Completed"}}

\* Mutation: only a completed record stands in the way.
BuyBack_Retried(w, b, r, s) ==
  /\ bkStatus[b] \in Active
  /\ \A q \in Standing(b) : record[q].status = "Pending"
  /\ Exists(bkPlot[b]) /\ canTransition(plotStatus[bkPlot[b]], s)
  /\ r \in FreshRecords
  /\ Begin(w, [Plain("buyback", "record", bkPlot[b], b, s) EXCEPT !.rec = r])
  /\ UNCHANGED tables

\* s: Available for a buyback, Cancelled for the type Cancel.
BuyBack(w, b, r, s) ==
  /\ bkStatus[b] \in Active
  /\ Standing(b) = {}
  /\ Exists(bkPlot[b]) /\ canTransition(plotStatus[bkPlot[b]], s)
  /\ r \in FreshRecords
  /\ Begin(w, [Plain("buyback", "record", bkPlot[b], b, s) EXCEPT !.rec = r])
  /\ UNCHANGED tables

Mergeable == {"Available", "Reserved", "Booked", "Allotted"}

\* Mutation: bookings are not looked at.
MergePlots_Unchecked(w, S, res, r) ==
  /\ res \in S /\ S # {res}
  /\ \A p \in S : plotStatus[p] \in Mergeable
  /\ r \in FreshRecords
  /\ Begin(w, [NoJob EXCEPT !.op = "merge", !.pc = "record", !.plot = res, !.held = S,
                            !.target = "Merged", !.todo = S \ {res}, !.rec = r])
  /\ UNCHANGED tables

\* The plots of S become one: res stays, the others are to be Merged.  Refusing
\* blocked plots (isBlocked, of the recovery component) is left out: more merges
\* are possible here than in the program.
MergePlots(w, S, res, r) ==
  /\ res \in S /\ S # {res}
  /\ \A p \in S : plotStatus[p] \in Mergeable /\ Live(p) = {}
  /\ r \in FreshRecords
  /\ Begin(w, [NoJob EXCEPT !.op = "merge", !.pc = "record", !.plot = res, !.held = S,
                            !.target = "Merged", !.todo = S \ {res}, !.rec = r])
  /\ UNCHANGED tables

CreateRecord(w) ==
  LET j == job[w] IN
  /\ j.pc = "record"
  /\ record' = [record EXCEPT ![j.rec] =
       [kind |-> j.op, status |-> "Pending", bk |-> j.bk, plots |-> j.todo]]
  /\ Goto(w, "invoice")
  /\ UNCHANGED <<plotStatus, bkStatus, bkPlot, bkMember, plans, row, upset>>

\* The invoice row itself belongs to the invoices component.
RegisterInvoice(w) ==
  /\ job[w].pc = "invoice"
  /\ Goto(w, "plotRead")
  /\ UNCHANGED <<tables, upset>>

\* PlotService.update for one plot to be merged, and then the next.
MergeRead(w) ==
  LET j == job[w] IN
  /\ j.op = "merge" /\ j.pc = "plotRead"
  /\ \E q \in j.todo :
       IF Exists(q) /\ canTransition(plotStatus[q], "Merged")
       THEN job' = [job EXCEPT ![w].pc = "plotWrite", ![w].plot = q]
       ELSE Goto(w, "fail")
  /\ UNCHANGED <<tables, upset>>

MergeWrite(w) ==
  LET j == job[w] IN
  /\ j.op = "merge" /\ j.pc = "plotWrite"
  /\ SetPlot(j.plot, "Merged")
  /\ job' = [job EXCEPT ![w].pc = IF j.todo = {j.plot} THEN "complete" ELSE "plotRead",
                        ![w].todo = @ \ {j.plot}]
  /\ UNCHANGED <<bkStatus, bkPlot, bkMember, plans, row, record, upset>>

SetRecord(w, s) == record' = [record EXCEPT ![job[w].rec].status = s]

CompleteRecord(w) ==
  /\ job[w].pc = "complete"
  /\ SetRecord(w, "Completed")
  /\ Goto(w, "audit")
  /\ UNCHANGED <<plotStatus, bkStatus, bkPlot, bkMember, plans, row, upset>>

WriteAudit(w) ==
  /\ job[w].pc = "audit"
  /\ Finish(w)
  /\ UNCHANGED <<tables, upset>>

\* Any statement of the try block throws: the invoice has no numbering rule,
\* the database refuses, the audit insert fails.
StepFails(w) ==
  /\ job[w].op \in {"buyback", "merge"} /\ job[w].pc \notin {"record", "fail"}
  /\ Goto(w, "fail")
  /\ BreakOff(w)
  /\ UNCHANGED tables

\* Mutation: the catch block closes the record as completed.
FailRecord_Completes(w) ==
  /\ job[w].pc = "fail"
  /\ SetRecord(w, "Completed")
  /\ Finish(w)
  /\ UNCHANGED <<plotStatus, bkStatus, bkPlot, bkMember, plans, row, upset>>

FailRecord(w) ==
  /\ job[w].pc = "fail"
  /\ SetRecord(w, "Failed")
  /\ Finish(w)
  /\ UNCHANGED <<plotStatus, bkStatus, bkPlot, bkMember, plans, row, upset>>

-----------------------------------------------------------------------------
(* The rest of the program, as far as it touches these tables *)

\* PATCH /plots/:id/status and PUT /plots/:id by an operator.
EditPlot(w, p, s) ==
  /\ Begin(w, Plain("edit", "plotRead", p, None, s))
  /\ UNCHANGED tables

\* Transfer completion, possession issue, construction: a checked reading of
\* the plot, then Plot.update past PlotService.
AdvancePlot(w, p, s) ==
  /\ Exists(p) /\ canTransition(plotStatus[p], s)
  /\ Begin(w, Plain("advance", "plotWrite", p, None, s))
  /\ UNCHANGED tables

AddPlot(p) ==
  /\ plotStatus[p] = "Absent"
  /\ plotStatus' = [plotStatus EXCEPT ![p] = "Available"]
  /\ UNCHANGED <<bkStatus, bkPlot, bkMember, plans, row, record, job, upset>>

\* The foreign key of bookings forbids deleting a plot that has any.
RemovePlot(p) ==
  /\ Exists(p)
  /\ \A b \in Bookings : bkPlot[b] # p
  /\ plotStatus' = [plotStatus EXCEPT ![p] = "Deleted"]
  /\ UNCHANGED <<bkStatus, bkPlot, bkMember, plans, row, record, job, upset>>

\* A payment reads an installment with a balance; it does not hold the plot ...
PayInstallment(w, x) ==
  /\ row[x] = "due"
  /\ Begin(w, [Plain("pay", "land", bkPlot[x[1]], None, None)
                 EXCEPT !.held = {}, !.rows = {x}])
  /\ UNCHANGED tables

\* ... and writes what it computed: paid off, or a balance is left.
LandPayment(w) ==
  /\ job[w].pc = "land"
  /\ \E x \in job[w].rows, s \in {"due", "paid"} : row' = [row EXCEPT ![x] = s]
  /\ Goto(w, "receipt")
  /\ UNCHANGED <<plotStatus, bkStatus, bkPlot, bkMember, plans, record, upset>>

\* The audit row; what follows it (notice, invoice) cannot fail the request.
CompletePayment(w) ==
  /\ job[w].pc = "receipt"
  /\ Finish(w)
  /\ UNCHANGED <<tables, upset>>

\* The update or the audit row fails: the installment gets back what it held at
\* the reading.
RollbackPayment(w) ==
  /\ job[w].op = "pay"
  /\ \E x \in job[w].rows : row' = [row EXCEPT ![x] = "due"]
  /\ Finish(w)
  /\ UNCHANGED <<plotStatus, bkStatus, bkPlot, bkMember, plans, record, upset>>

\* The process stops, or a statement outside any try block throws.
Die(w) ==
  /\ job[w] # NoJob
  /\ BreakOff(w)
  /\ Finish(w)
  /\ UNCHANGED tables

-----------------------------------------------------------------------------
Request(w) ==
  \/ \E p \in Plots, b \in Bookings : CreateBooking(w, p, b)
  \/ \E b \in Bookings : ApproveBooking(w, b) \/ RejectBooking(w, b) \/ CancelBooking(w, b)
  \/ \E b \in Bookings, r \in Records, s \in {"Available", "Cancelled"} : BuyBack(w, b, r, s)
  \/ \E S \in SUBSET Plots, res \in Plots, r \in Records : MergePlots(w, S, res, r)
  \/ \E p \in Plots, s \in Edits : EditPlot(w, p, s)
  \/ \E p \in Plots, s \in Advances : AdvancePlot(w, p, s)
  \/ \E x \in Row : PayInstallment(w, x)

Statement(w) ==
  \/ PlotUpdateRead(w) \/ PlotUpdateWrite(w)
  \/ InsertBooking(w) \/ AwaitApproval(w) \/ AutoApprove(w)
  \/ ConfirmBooking(w) \/ CreatePlan(w) \/ CreateInstallment(w)
  \/ VoidInstallment(w) \/ MarkCancelled(w)
  \/ CreateRecord(w) \/ RegisterInvoice(w) \/ MergeRead(w) \/ MergeWrite(w)
  \/ CompleteRecord(w) \/ WriteAudit(w) \/ StepFails(w) \/ FailRecord(w)
  \/ LandPayment(w) \/ CompletePayment(w) \/ RollbackPayment(w)

Next ==
  \/ \E w \in Workers : Request(w) \/ Statement(w) \/ Die(w)
  \/ \E p \in Plots : AddPlot(p) \/ RemovePlot(p)

Spec == Init /\ [][Next]_vars
=============================================================================
