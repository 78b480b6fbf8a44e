------------------------- MODULE PaymentsProperties -------------------------
(***************************************************************************)
(* What collecting installments gets right, and where it does not: each    *)
(* property names the mishaps (upset, misnumbered) it does not survive.    *)
(***************************************************************************)
EXTENDS Books

Quiet(i) == upset[i] = {}
AtRest(i) == Quiet(i) /\ \A w \in Workers : i \notin job[w].held
Recorded == {x \in Payments : payment[x].status = "Completed"}
Toward(i) == {x \in Recorded : i \in DOMAIN payment[x].parts}

\* Between requests an installment shows as paid exactly what the recorded
\* payments allot to it: payments that failed have left no trace in it, and
\* payments that did not have left theirs.
PaidByPayments ==
  \A i \in Installments : AtRest(i) =>
    inst[i].paid = MapThenSumSet(LAMBDA x : payment[x].parts[i], Toward(i))

\* Between requests the balance is what remains of the amount and the penalty,
\* as long as the installment has not been paid beyond its amount (then
\* Principal forgets that part of the penalty is paid).
BalanceTrue ==
  \A i \in Installments :
    AtRest(i) /\ inst[i].status \notin {"none", "Voided"} /\ inst[i].paid <= Amount[i] =>
      /\ inst[i].balance = Amount[i] + inst[i].penalty - inst[i].paid
      /\ inst[i].status = "Paid" <=> inst[i].balance = 0

\* Between requests money has gone to an installment only after every older one
\* of the same plot was settled or voided, whichever plots the payments named.
OldestFirst ==
  \A i, j \in Installments :
    i < j /\ PlotOf[i] = PlotOf[j] /\ AtRest(i) /\ AtRest(j) /\ inst[j].paid > 0 =>
      inst[i].balance = 0

Settled == \A i \in Issued : AtRest(i)
NotOverpaid(S) == \A i \in S : inst[i].paid <= Amount[i]
Standing(q) ==
  /\ q \in getBookingSummaries
  /\ \A i \in OfPlot(q) : inst[i].status # "Voided"
  /\ NotOverpaid(OfPlot(q))

\* The trend balances: what was billed, and charged as penalty, was collected, is
\* still owed, or was written off with a voided installment.
BooksBalance ==
  LET penalties == MapThenSumSet(LAMBDA i : inst[i].penalty, Active)
      writtenOff == Amounts(Issued \ Active) - Paids(Issued \ Active) IN
  NotOverpaid(Issued) =>
    financialTrend(0).billed + penalties = finance.outstanding + Collected + writtenOff

\* Everybody is told the same.  Between requests, what is owed agrees on the
\* dashboards, in the report of dues, on the member's page, which leaves out what
\* was voided, and in the bookings recovery looks at, which leave out what was
\* cancelled; what is overdue agrees too, but for the day an installment falls
\* due; what was collected is what installments show as paid, voided ones
\* included; and a booking is wholly recovered when nothing of it is owed.
BooksAgree ==
  Settled =>
    /\ {finance.outstanding, finance.defaulters.amount, management.dues,
        dashboard.outstandingDues, dues(0, DueDay[Count]).total} = {getMember360.balance}
    /\ getMember360.balance =
         MapThenSumSet(LAMBDA q : summarizeBooking(q).outstandingAmount, getBookingSummaries)
    /\ {defaulters(0, today).overdueAmount, dashboard.overdueDues} = {getMember360.overdueAmount}
    /\ listOverdue = {i \in Active \cap Unpaid : PastDue(i) /\ DueDay[i] # today}
    /\ Collected = getMember360.totalPaid + Paids(Issued \ Active)
    /\ \A i \in Active : decorateInstallment(i) = "Paid" <=> i \notin Unpaid
    /\ \A q \in Plots : Standing(q) =>
         (summarizeBooking(q).recoveryPercent = 100 <=> summarizeBooking(q).outstandingAmount = 0)
    /\ BooksBalance

\* numberingRule.model.js: "Manages auto-incrementing sequence numbers".  Then
\* payments made one after the other bear different receipt numbers, under the
\* policy the receipts are seeded with too, which is yearly.
SequenceIncrements ==
  ~misnumbered => \A x, y \in Recorded : payment[x].number = payment[y].number => x = y

=============================================================================
