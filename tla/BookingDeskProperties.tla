----------------------- MODULE BookingDeskProperties ------------------------
(***************************************************************************)
(* What the booking desk gets right, and on which plots: each property     *)
(* names the mishaps (upset) it does not survive.                          *)
(***************************************************************************)
EXTENDS BookingDesk

Held(p) == \E w \in Workers : p \in job[w].held

\* Every variable holds what its column or its request can hold.
TypeOK ==
  /\ plotStatus \in [Plots -> PlotCell]
  /\ bkStatus \in [Bookings -> BkStatus]
  /\ bkPlot \in [Bookings -> Plots \cup {None}]
  /\ bkMember \in [Bookings -> Members \cup {None}]
  /\ plans \in [Bookings -> SUBSET Workers]
  /\ row \in [Row -> {"none", "due", "paid", "voided"}]
  /\ record \in [Records -> Record]
  /\ job \in [Workers -> Job]
  /\ upset \in [Plots -> SUBSET Causes]

\* A plot has at most one live booking, as long as no two requests on it have
\* overlapped, none broke off halfway and no operator overruled its status
\* (BookingService.create checks the plot, not the bookings).
OneBuyerPerPlot ==
  \A p \in Plots : Quiet(p) => \A b, c \in Live(p) : b = c

\* Between requests a quiet plot and its bookings tell the same story: a
\* pending booking means Booked, a confirmed one Allotted or later, and a plot
\* is Booked or Allotted only for a booking.
PlotTellsOfBooking ==
  \A p \in Plots : Quiet(p) /\ ~Held(p) => Agrees(p, plotStatus[p])

\* A confirmed booking at rest has one plan, with every installment in it and
\* none voided (approve writes plot, booking, plan and rows one by one).
ConfirmedHasPlan ==
  \A b \in Bookings :
    bkStatus[b] = "Confirmed" /\ Quiet(bkPlot[b]) /\ ~Held(bkPlot[b]) =>
      \E w \in Workers : /\ plans[b] = {w}
                         /\ \A x \in PlanRows(b, w) : row[x] \in {"due", "paid"}

Owes(b) == \E x \in Row : x[1] = b /\ row[x] = "due"
BoughtBack(b) == \E r \in Records : record[r].kind = "buyback" /\ record[r].bk = b

\* A cancelled booking that was not bought back has no installment left to pay,
\* even when requests broke off halfway, unless two of them overlapped
\* (the voiding loop of cancel works on rows read before it).
CancelledOwesNothing ==
  \A b \in Bookings :
    bkStatus[b] = "Cancelled" /\ "overlap" \notin upset[bkPlot[b]] /\ ~BoughtBack(b)
      => ~Owes(b)

\* A plot merged into another one is nobody's: merging refuses plots with live
\* bookings, and a Merged plot takes none.
MergedPlotUnsold ==
  \A p \in Plots :
    plotStatus[p] = "Merged" /\ "overlap" \notin upset[p] => Live(p) = {}

\* A merge recorded as completed has retired every source plot.
MergeRecordTrue ==
  \A r \in Records : record[r].kind = "merge" /\ record[r].status = "Completed" =>
    \A q \in record[r].plots :
      "overlap" \in upset[q] \/ plotStatus[q] \in {"Merged", "Deleted"}

\* A buyback recorded as completed has ended its booking for good: neither a
\* statement that failed, nor the catch block that closes the record, nor a retry
\* over what a failed one left, records a settlement of a booking still alive.
BuybackRecordTrue ==
  \A r \in Records : record[r].kind = "buyback" /\ record[r].status = "Completed" =>
    \/ "overlap" \in upset[bkPlot[record[r].bk]]
    \/ bkStatus[record[r].bk] = "Cancelled"

\* No booking is settled twice: at most one pending or completed buyback.
OneBuyback ==
  \A b \in Bookings : bkPlot[b] \in Plots =>
    "overlap" \in upset[bkPlot[b]] \/ \A r, s \in Standing(b) : r = s

\* The status column moves along the table, whoever writes it and whatever has
\* broken off, unless a write came from a stale reading.
PlotFollowsTable ==
  [][\A p \in Plots :
       \/ plotStatus'[p] = plotStatus[p]
       \/ "overlap" \in upset[p]
       \/ plotStatus[p] = "Absent" \/ plotStatus'[p] = "Deleted"
       \/ canTransition(plotStatus[p], plotStatus'[p])]_vars

Register == INSTANCE BookingRegister
  WITH stage <- bkStatus, site <- bkPlot, disturbed <- {p \in Plots : ~Quiet(p)}

\* The bookings behave as the register promises.
KeepsRegister == Register!Spec

=============================================================================
