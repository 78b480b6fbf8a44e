-------------------------------- MODULE Books --------------------------------
(***************************************************************************)
(* What the program tells of installments and payments: the dashboards     *)
(* (dashboards/service.js, reports/service.js), the reports computed in    *)
(* SQL (reports/sql.js), a member's page (members/service.js), the booking *)
(* page and the summaries that recovery works by (recovery/service.js).    *)
(* Each computes its sums from the rows by itself.  A dashboard is here as *)
(* computed; its cache of 45 seconds is left out.                          *)
(*                                                                         *)
(* Only one member has installments, so sums by member are sums over all   *)
(* of them, and a plot stands for its booking.                             *)
(***************************************************************************)
EXTENDS Payments

Columns(column(_), S) == MapThenSumSet(column, S)
Balances(S) == LET balance(i) == inst[i].balance IN Columns(balance, S)
Paids(S)    == LET paid(i) == inst[i].paid IN Columns(paid, S)
Amounts(S)  == LET amount(i) == Amount[i] IN Columns(amount, S)

Issued == {i \in Installments : inst[i].status # "none"}
Unpaid == {i \in Issued : inst[i].balance > 0}
DueIn(start, end) == {i \in Issued : DueDay[i] \in start..end}

\* An installment is due at midnight, when its day begins: on that day it is past
\* due by the clock, but not overdue by a day.
PastDue(i) == DueDay[i] <= today
daysOverdue(i) == AtLeast(0, today - DueDay[i])

Completed == {x \in Payments : payment[x].status = "Completed"}
AmountOf(x) == Total(payment[x].parts, DOMAIN payment[x].parts)
Collected == Columns(AmountOf, Completed)

-----------------------------------------------------------------------------
(* Reports                                                                 *)

collection == [total |-> Collected, count |-> Cardinality(Completed)]

dues(start, end) ==
  LET rows == Unpaid \cap DueIn(start, end) IN
  [total |-> Balances(rows), count |-> Cardinality(rows)]

defaulters(start, end) ==
  LET rows == {i \in Unpaid \cap DueIn(start, end) : PastDue(i)} IN
  [overdueAmount |-> Balances(rows), installments |-> Cardinality(rows)]

\* The dashboard of the reports: sums over whole tables, made in the server.
dashboard ==
  [outstandingDues |-> Balances(Issued),
   overdueDues |-> Balances({i \in Unpaid : PastDue(i) /\ inst[i].status # "Paid"}),
   collected |-> Collected]

-----------------------------------------------------------------------------
(* Dashboards                                                              *)

\* Billed by the month of the due date, whatever became of the installment.
financialTrend(start) ==
  [billed |-> Amounts({i \in Issued : DueDay[i] >= start}), collected |-> Collected]

\* Overdue goes by the stored status, which no handler sets.
finance ==
  [outstanding |-> Balances(Issued),
   overdue |-> Balances({i \in Issued : inst[i].status = "Overdue"}),
   payments |-> Cardinality(Completed),
   defaulters |-> [amount |-> Balances(Unpaid), installments |-> Cardinality(Unpaid)]]

management == [dues |-> Balances(Issued), collection |-> Collected]

-----------------------------------------------------------------------------
(* A member's page and the booking page                                    *)

Active == {i \in Issued : inst[i].status # "Voided"}

getMember360 ==
  LET late == {i \in Active \cap Unpaid : PastDue(i)} IN
  [totalPayable |-> Amounts(Active), totalPaid |-> Paids(Active),
   balance |-> Balances(Active), overdueAmount |-> Balances(late),
   total |-> Cardinality(Active),
   paid |-> Cardinality({i \in Active : inst[i].status = "Paid" \/ inst[i].balance = 0}),
   overdue |-> Cardinality(late),
   upcoming |-> Cardinality((Active \cap Unpaid) \ late)]

\* The status shown is worked out anew; it forgets that one is voided.
decorateInstallment(i) ==
  IF inst[i].status = "Paid" THEN "Paid"
  ELSE IF inst[i].paid > 0 THEN IF inst[i].balance > 0 THEN "PartiallyPaid" ELSE "Paid"
  ELSE IF daysOverdue(i) > 0 THEN "Overdue"
  ELSE IF DueDay[i] = today THEN "Due" ELSE "Upcoming"

-----------------------------------------------------------------------------
(* Recovery                                                                *)

installmentDue(i) == Amount[i] + inst[i].penalty
isOverdueInstallment(i) == inst[i].balance > 0 /\ daysOverdue(i) > 0

\* A booking becomes cancelled once its unpaid installments are voided.
CancelledBooking(q) ==
  (\E i \in OfPlot(q) : inst[i].status = "Voided") /\ OfPlot(q) \cap Unpaid = {}

\* percent decides whether the plot is blocked.
summarizeBooking(q) ==
  LET rows == OfPlot(q) \cap Issued
      due(i) == installmentDue(i)
      counted(i) == Min({inst[i].paid, installmentDue(i)})
      totalDue == Columns(due, rows)
      paidAmount == Columns(counted, rows)
      late == {i \in rows : isOverdueInstallment(i)} IN
  [totalDue |-> totalDue, paidAmount |-> paidAmount, outstandingAmount |-> Balances(rows),
   recoveryPercent |-> IF totalDue > 0 THEN (100 * paidAmount) \div totalDue ELSE 100,
   overdueInstallments |-> late,
   daysOverdue |-> IF late = {} THEN 0 ELSE Max({daysOverdue(i) : i \in late}),
   isOverdue |-> late # {}]

getBookingSummaries == {q \in Plots : OfPlot(q) \cap Issued # {} /\ ~CancelledBooking(q)}

\* The overdue installments of bookings that still stand, as the export lists them.
listOverdue == UNION {summarizeBooking(q).overdueInstallments : q \in getBookingSummaries}
=============================================================================
