------------------------- MODULE DeskRecordsProofs --------------------------
(***************************************************************************)
(* What a sale leaves behind: buyback and merge records, installment plans *)
(* and installments, for any sets of plots, bookings, members, records,    *)
(* workers and installments.                                               *)
(*                                                                         *)
(* DeskInv speaks of quiet plots only.  The properties proved here survive *)
(* requests that broke off and statuses overruled by hand, so their        *)
(* invariant (RecordInv, SaleInv) is about every plot on which no two      *)
(* requests have overlapped, and falls back on DeskInv where a property    *)
(* asks for a quiet plot.                                                  *)
(***************************************************************************)
EXTENDS BookingDeskProofs

\* No two requests on p have overlapped.
Unlapped(p) == "overlap" \notin upset[p]

\* p is out of the plot table's use for good.
Gone(p) == Unlapped(p) => plotStatus[p] \in {"Merged", "Deleted"}

\* How far the record of a buyback or a merge has come with its request: the
\* sources of a merge are still to do or already gone, and a record is not
\* Completed before the last of them.
Filed(j) == j.op \in {"buyback", "merge"} =>
  LET doc == record[j.rec] IN
  /\ j.pc = "record" => doc = NoRecord
  /\ j.pc # "record" => /\ doc.kind = j.op /\ doc.bk = j.bk
                        /\ doc.status \in {"Pending", "Completed"}
                        /\ j.pc \notin {"audit", "fail"} => doc.status = "Pending"
  /\ j.op = "merge" /\ j.pc \notin {"record", "fail"} =>
       /\ \A q \in doc.plots : q \in j.todo \/ Gone(q)
       /\ j.pc \in {"complete", "audit"} => j.todo = {}

\* Every record has one request at most, and tells what that request has done.
RecordInv ==
  /\ \A v, w \in Workers : v # w /\ job[v].rec = job[w].rec => job[v].rec = None
  /\ \A w \in Workers : Filed(job[w])
  /\ \A r \in Records : record[r].kind = "buyback" =>
       record[r].bk \in Bookings /\ bkStatus[record[r].bk] # "none"
  /\ \A r \in Records : record[r].kind = "merge" /\ record[r].status = "Completed" =>
       \A q \in record[r].plots : Gone(q)

\* Installments belong to plans, plans to bookings, and the installments a
\* request has in hand to its booking or plot.
RowsInv ==
  /\ \A x \in Row : row[x] # "none" => x[2] \in plans[x[1]]
  /\ \A b \in Bookings : bkStatus[b] = "none" => plans[b] = {}
  /\ \A w \in Workers :
       /\ job[w].rows # {} => job[w].op \in {"approve", "cancel", "pay"}
       /\ job[w].op \in {"cancel", "pay"} =>
            \A x \in job[w].rows : row[x] # "none" /\ bkPlot[x[1]] = job[w].plot
       /\ job[w].pc = "rows" =>
            w \in plans[job[w].bk] /\ job[w].rows \subseteq PlanRows(job[w].bk, w)

\* What the request of worker w, holding p, can still rely on.
Tale(w, p) ==
  LET j == job[w] IN
  /\ j.op = "merge" => Live(p) = {}
  /\ j.pc = "insert" => plotStatus[p] # "Merged"
  /\ j.op = "approve" /\ j.pc \in {"plotRead", "plotWrite", "confirm"} => bkStatus[j.bk] = "Pending"
  /\ j.pc = "plan" => bkStatus[j.bk] = "Confirmed" /\ plans[j.bk] = {}
  /\ j.pc = "rows" => /\ bkStatus[j.bk] = "Confirmed" /\ plans[j.bk] = {w}
                      /\ \A x \in PlanRows(j.bk, w) \ j.rows : row[x] \in {"due", "paid"}
  /\ j.op = "reject" /\ j.pc = "mark" => bkStatus[j.bk] = "Pending"
  /\ j.op = "cancel" /\ j.pc = "mark" =>
       /\ bkStatus[j.bk] \in Active
       /\ \A x \in Row : x[1] = j.bk /\ row[x] = "due" => x \in j.rows
  /\ j.op = "buyback" /\ j.pc = "record" => Standing(j.bk) = {}

Planned(b) == \E w \in Workers : /\ plans[b] = {w}
                                 /\ \A x \in PlanRows(b, w) : row[x] \in {"due", "paid"}

\* The papers of booking b on plot p.  Only the last conjunct needs a quiet
\* plot: an approval that broke off has left a booking without its plan.
Sold(b, p) ==
  /\ bkStatus[b] = "Pending" => plans[b] = {}
  /\ \A v, w \in plans[b] : v = w
  /\ bkStatus[b] = "Cancelled" /\ ~BoughtBack(b) => ~Owes(b)
  /\ \A r, s \in Standing(b) : r = s
  /\ Quiet(p) /\ bkStatus[b] = "Confirmed"
     /\ (\A w \in Workers : p \in job[w].held => job[w].op \notin {"approve", "cancel"})
     => Planned(b)

\* Plot p, its bookings and the requests on it.  A payment holds no plot: it
\* must not bring an installment of a cancelled booking back, hence the last
\* conjunct.
Estate(p) == Unlapped(p) =>
  /\ plotStatus[p] = "Merged" => Live(p) = {}
  /\ \A w \in Workers : p \in job[w].held => Tale(w, p)
  /\ \A b \in Bookings : bkPlot[b] = p => Sold(b, p)
  /\ \A w \in Workers : job[w].op = "pay" /\ job[w].plot = p =>
       /\ \A x \in job[w].rows : bkStatus[x[1]] = "Cancelled" => BoughtBack(x[1])
       /\ \A v \in Workers : job[v].plot = p => job[v].op # "cancel"

SaleInv == RowsInv /\ \A p \in Plots : Estate(p)

-----------------------------------------------------------------------------

\* A merged or deleted plot stays so.
LEMMA GoneStays ==
  ASSUME DeskInv, [Next]_vars, NEW p \in Plots, Gone(p)
  PROVE  Gone(p)'
<1>1. FormInv
  BY DEF DeskInv
<1>2. "overlap" \in upset[p] => "overlap" \in upset'[p]
  <2>1. ASSUME NEW w \in Workers, InsertBooking(w) \/ ConfirmBooking(w) \/ MarkCancelled(w)
        PROVE  upset' = upset
    BY <2>1 DEF InsertBooking, ConfirmBooking, MarkCancelled
  <2>. QED
    BY <1>1, <2>1, DisturbStep
<1>3. CASE Unlapped(p) /\ plotStatus'[p] # plotStatus[p] /\ plotStatus'[p] # "Deleted"
  <2>1. Exists(p) /\ canTransition(plotStatus[p], plotStatus'[p])
    BY <1>3, StatusStep DEF Unlapped, Gone
  <2>. QED
    BY <1>3, <2>1 DEF Gone, Exists, canTransition, STATUS_TRANSITIONS, STATUS
<1>. QED
  BY <1>2, <1>3 DEF Gone, Unlapped

\* What Goto, Finish and Begin do to the jobs.
LEMMA Went ==
  ASSUME FormInv, NEW w \in Workers, NEW pc, Goto(w, pc)
  PROVE  /\ \A v \in Workers \ {w} : job'[v] = job[v]
         /\ job'[w].pc = pc /\ job'[w].op = job[w].op /\ job'[w].held = job[w].held
         /\ job'[w].plot = job[w].plot /\ job'[w].bk = job[w].bk
         /\ job'[w].target = job[w].target /\ job'[w].todo = job[w].todo
         /\ job'[w].rows = job[w].rows /\ job'[w].rec = job[w].rec
<1>1. job'[w] = [job[w] EXCEPT !.pc = pc] /\ \A v \in Workers \ {w} : job'[v] = job[v]
  BY DEF Goto, FormInv, TypeOK
<1>2. job[w] \in Job
  BY Own
<1>. QED
  BY <1>1, <1>2 DEF Job

LEMMA Ended ==
  ASSUME FormInv, NEW w \in Workers, Finish(w)
  PROVE  /\ \A v \in Workers \ {w} : job'[v] = job[v]
         /\ job'[w].pc = "idle" /\ job'[w].op = "idle" /\ job'[w].held = {}
         /\ job'[w].plot = None /\ job'[w].rec = None /\ job'[w].rows = {}
BY DEF Finish, NoJob, FormInv, TypeOK

LEMMA Started ==
  ASSUME FormInv, NEW w \in Workers, NEW j, Begin(w, j)
  PROVE  /\ job[w].op = "idle" /\ job[w].held = {} /\ job'[w] = j
         /\ \A v \in Workers \ {w} : job'[v] = job[v]
         /\ \A p \in Plots : /\ upset[p] \subseteq upset'[p]
                             /\ Unlapped(p)' => \A v \in Workers : ~Clash(j, job[v], p)
                             /\ Unlapped(p)' => upset'[p] = upset[p]
BY DEF Begin, NoJob, FormInv, TypeOK, Unlapped

\* A booking in the table stays there, and on its plot.
LEMMA BookingStays ==
  ASSUME FormInv, [Next]_vars, NEW b \in Bookings, bkStatus[b] # "none"
  PROVE  bkStatus'[b] # "none" /\ bkPlot'[b] = bkPlot[b]
<1>1. ASSUME NEW w \in Workers, InsertBooking(w)
      PROVE  bkStatus'[b] # "none" /\ bkPlot'[b] = bkPlot[b]
  <2>1. job[w].pc = "insert" /\ bkStatus[job[w].bk] = "none"
    BY <1>1, Own DEF InsertBooking, BookingOf
  <2>. QED
    BY <1>1, <2>1 DEF InsertBooking, FormInv, TypeOK
<1>2. ASSUME NEW w \in Workers, ConfirmBooking(w) \/ MarkCancelled(w)
      PROVE  bkStatus'[b] # "none" /\ bkPlot'[b] = bkPlot[b]
  BY <1>2 DEF ConfirmBooking, MarkCancelled, FormInv, TypeOK
<1>3. CASE \A w \in Workers : ~InsertBooking(w) /\ ~ConfirmBooking(w) /\ ~MarkCancelled(w)
  BY <1>3, DisturbStep
<1>. QED
  BY <1>1, <1>2, <1>3

-----------------------------------------------------------------------------
(* Records *)

Settling == {"buyback", "merge"}

LEMMA SettlesRecord ==
  ASSUME FormInv, NEW w \in Workers, job[w].op \in Settling
  PROVE  /\ job[w].rec \in Records /\ job[w].rec # None
         /\ job[w].pc \in {"record", "invoice", "plotRead", "plotWrite", "mark", "complete",
                           "audit", "fail"}
         /\ record[job[w].rec] \in Record
         /\ job[w].op = "merge" => job[w].pc # "mark"
<1>1. job[w] \in Job /\ ShapeOf(job[w])
  BY Own
<1>. QED
  BY <1>1, NoneAssumption DEF ShapeOf, Settling, FormInv, TypeOK

\* What a record says of its request does not depend on other requests.
LEMMA FiledStays ==
  ASSUME DeskInv, [Next]_vars, NEW v \in Workers, Filed(job[v]), job'[v] = job[v],
         job[v].op \in Settling => record'[job[v].rec] = record[job[v].rec]
  PROVE  Filed(job[v])'
<1>1. CASE job[v].op \in Settling
  <2>1. record[job[v].rec].plots \subseteq Plots
    BY <1>1, SettlesRecord DEF DeskInv, Record
  <2>2. \A q \in record[job[v].rec].plots : Gone(q) => Gone(q)'
    BY <2>1, GoneStays
  <2>. DEFINE j == job[v]
              doc == record[j.rec]
  <2>3. doc' = doc /\ j' = j
    BY <1>1
  <2>. HIDE DEF j, doc
  <2>. QED
    BY <2>2, <2>3 DEF Filed, j, doc
<1>2. CASE job[v].op \notin Settling
  BY <1>2 DEF Filed, Settling
<1>. QED
  BY <1>1, <1>2

\* One request writes to no record but its own.
LEMMA RecordsMove ==
  ASSUME DeskInv, [Next]_vars, RecordInv, NEW w \in Workers,
         \A v \in Workers \ {w} : job'[v] = job[v],
         \A r \in Records : record'[r] = record[r] \/ (r = job[w].rec /\ job[w].op \in Settling),
         job'[w].rec \in {None, job[w].rec},
         Filed(job[w])',
         job[w].op \in Settling =>
           LET doc == record'[job[w].rec] IN
           /\ doc.kind = "buyback" => doc.bk \in Bookings /\ bkStatus[doc.bk] # "none"
           /\ doc.kind = "merge" /\ doc.status = "Completed" => \A q \in doc.plots : Gone(q)',
         record' \in [Records -> Record]
  PROVE  RecordInv'
<1>1. FormInv
  BY DEF DeskInv
<1>2. \A v, x \in Workers : v # x /\ job'[v].rec = job'[x].rec => job'[v].rec = None
  BY DEF RecordInv
<1>3. ASSUME NEW v \in Workers PROVE Filed(job[v])'
  <2>1. CASE v = w
    BY <2>1
  <2>2. CASE v # w
    <3>1. job[v].op \in Settling => job[v].rec \in Records /\ job[v].rec # job[w].rec
      BY <1>1, <2>2, SettlesRecord DEF RecordInv
    <3>2. job[v].op \in Settling => record'[job[v].rec] = record[job[v].rec]
      BY <3>1
    <3>. QED
      BY <2>2, <3>2, FiledStays DEF RecordInv
  <2>. QED
    BY <2>1, <2>2
<1>4. ASSUME NEW r \in Records, record'[r].kind = "buyback"
      PROVE  record'[r].bk \in Bookings /\ bkStatus'[record'[r].bk] # "none"
  <2>1. record'[r].bk \in Bookings /\ bkStatus[record'[r].bk] # "none"
    BY <1>4 DEF RecordInv
  <2>. QED
    BY <1>1, <2>1, BookingStays
<1>5. ASSUME NEW r \in Records, record'[r].kind = "merge", record'[r].status = "Completed",
             NEW q \in record'[r].plots
      PROVE  Gone(q)'
  <2>1. q \in Plots
    BY <1>5 DEF Record
  <2>. QED
    BY <1>5, <2>1, GoneStays DEF RecordInv
<1>. QED
  BY <1>2, <1>3, <1>4, <1>5 DEF RecordInv

\* A request goes on, and no record is written.
LEMMA RecordsAsWere ==
  ASSUME DeskInv, [Next]_vars, RecordInv, NEW w \in Workers,
         \A v \in Workers \ {w} : job'[v] = job[v],
         record' = record,
         job'[w].rec \in {None, job[w].rec},
         job'[w].op \in Settling =>
           /\ job'[w].op = job[w].op /\ job'[w].rec = job[w].rec
           /\ job'[w].bk = job[w].bk /\ job'[w].todo = job[w].todo
           /\ job[w].pc # "record"
           /\ \/ job'[w].pc = "fail"
              \/ /\ job'[w].pc \notin {"record", "audit"} /\ job[w].pc \notin {"audit", "fail"}
                 /\ job'[w].op = "merge" => job'[w].pc # "complete"
  PROVE  RecordInv'
<1>1. FormInv /\ record' \in [Records -> Record]
  BY DEF DeskInv, FormInv, TypeOK
<1>2. job[w].op \in Settling =>
        LET doc == record'[job[w].rec] IN
        /\ doc.kind = "buyback" => doc.bk \in Bookings /\ bkStatus[doc.bk] # "none"
        /\ doc.kind = "merge" /\ doc.status = "Completed" => \A q \in doc.plots : Gone(q)'
  <2>1. ASSUME job[w].op \in Settling, NEW q \in record[job[w].rec].plots, Gone(q)
        PROVE  Gone(q)'
    <3>1. q \in Plots
      BY <1>1, <2>1, SettlesRecord DEF Record
    <3>. QED
      BY <2>1, <3>1, GoneStays
  <2>. QED
    BY <1>1, <2>1, SettlesRecord DEF RecordInv
<1>3. Filed(job[w])'
  <2>1. CASE job'[w].op \notin Settling
    BY <2>1 DEF Filed, Settling
  <2>2. CASE job'[w].op \in Settling
    <3>. DEFINE doc == record[job[w].rec]
    <3>1. \A q \in doc.plots : Gone(q) => Gone(q)'
      <4>1. doc.plots \subseteq Plots
        BY <1>1, <2>2, SettlesRecord DEF Record
      <4>. QED
        BY <4>1, GoneStays
    <3>2. /\ doc.kind = job[w].op /\ doc.bk = job[w].bk /\ doc.status \in {"Pending", "Completed"}
          /\ job[w].pc \notin {"audit", "fail"} => doc.status = "Pending"
          /\ job[w].op = "merge" /\ job[w].pc # "fail" =>
               \A q \in doc.plots : q \in job[w].todo \/ Gone(q)
      BY <2>2 DEF RecordInv, Filed, Settling
    <3>3. record'[job'[w].rec] = doc
      BY <2>2
    <3>. HIDE DEF doc
    <3>. QED
      BY <2>2, <3>1, <3>2, <3>3 DEF Filed, Settling
  <2>. QED
    BY <2>1, <2>2
<1>. QED
  BY <1>1, <1>2, <1>3, RecordsMove

LEMMA RecordsBegin ==
  ASSUME DeskInv, [Next]_vars, RecordInv, NEW w \in Workers, NEW j, Begin(w, j),
         UNCHANGED tables,
         \/ j.op \notin Settling /\ j.rec = None
         \/ j.op \in Settling /\ j.pc = "record" /\ j.rec \in FreshRecords
  PROVE  RecordInv'
<1>1. FormInv /\ record' = record /\ bkStatus' = bkStatus
  BY DEF DeskInv, tables
<1>2. job'[w] = j /\ \A v \in Workers \ {w} : job'[v] = job[v]
  BY <1>1, Started
<1>3. \A v \in Workers \ {w} : j.rec = job[v].rec => j.rec = None
  BY DEF FreshRecords
<1>4. \A v, x \in Workers : v # x /\ job'[v].rec = job'[x].rec => job'[v].rec = None
  BY <1>2, <1>3 DEF RecordInv
<1>5. ASSUME NEW v \in Workers PROVE Filed(job[v])'
  <2>1. CASE v = w
    BY <1>1, <1>2, <2>1 DEF Filed, FreshRecords, Settling
  <2>2. CASE v # w
    BY <1>1, <1>2, <2>2, FiledStays DEF RecordInv
  <2>. QED
    BY <2>1, <2>2
<1>6. ASSUME NEW r \in Records, record[r].kind = "merge", record[r].status = "Completed",
             NEW q \in record[r].plots
      PROVE  Gone(q)'
  <2>1. q \in Plots
    BY <1>1, <1>6 DEF FormInv, TypeOK, Record
  <2>. QED
    BY <1>6, <2>1, GoneStays DEF RecordInv
<1>. QED
  BY <1>1, <1>4, <1>5, <1>6 DEF RecordInv

-----------------------------------------------------------------------------
(* What a request has found when it begins *)

\* Job j as a request begins it, and the reading that let it begin.
Asked(j) ==
  \/ /\ j.op = "create" /\ j.pc = "insert" /\ j.held = {j.plot} /\ j.rows = {} /\ j.rec = None
     /\ plotStatus[j.plot] = "Available" /\ j.bk \in FreshBookings
  \/ /\ j.op \in {"approve", "reject"} /\ j.held = {j.plot} /\ j.rows = {} /\ j.rec = None
     /\ j.pc = (IF j.op = "approve" THEN "plotRead" ELSE "mark")
     /\ j.bk \in Bookings /\ j.plot = bkPlot[j.bk] /\ bkStatus[j.bk] = "Pending"
  \/ /\ j.op = "cancel" /\ j.pc = "mark" /\ j.held = {j.plot} /\ j.rec = None
     /\ j.bk \in Bookings /\ j.plot = bkPlot[j.bk] /\ bkStatus[j.bk] \in Active
     /\ j.rows \in ToVoid(j.bk)
  \/ /\ j.op = "buyback" /\ j.pc = "record" /\ j.held = {j.plot} /\ j.rows = {}
     /\ j.bk \in Bookings /\ j.plot = bkPlot[j.bk] /\ bkStatus[j.bk] \in Active
     /\ j.rec \in FreshRecords /\ Standing(j.bk) = {}
  \/ /\ j.op = "merge" /\ j.pc = "record" /\ j.rows = {} /\ j.rec \in FreshRecords
     /\ \A p \in j.held : Live(p) = {}
  \/ /\ j.op \in {"edit", "advance"} /\ j.pc \in {"plotRead", "plotWrite"}
     /\ j.held = {j.plot} /\ j.rows = {} /\ j.rec = None
  \/ /\ j.op = "pay" /\ j.pc = "land" /\ j.held = {} /\ j.rec = None
     /\ \E x \in Row : j.rows = {x} /\ row[x] = "due" /\ j.plot = bkPlot[x[1]]

\* A request that works on one plot.
LEMMA PlainIs ==
  ASSUME NEW op, NEW pc, NEW p, NEW b, NEW s, NEW j, j = Plain(op, pc, p, b, s)
  PROVE  /\ j.op = op /\ j.pc = pc /\ j.plot = p /\ j.bk = b /\ j.held = {p}
         /\ j.rows = {} /\ j.rec = None
         /\ j = [op |-> op, pc |-> pc, bk |-> b, plot |-> p, held |-> {p}, target |-> s,
                 todo |-> {}, rows |-> {}, rec |-> None]
BY DEF Plain, NoJob

LEMMA Asks ==
  ASSUME NEW w \in Workers, Request(w)
  PROVE  UNCHANGED tables /\ \E j : Begin(w, j) /\ Asked(j)
<1>1. UNCHANGED tables
  BY DEF Request, CreateBooking, ApproveBooking, RejectBooking, CancelBooking, BuyBack,
         MergePlots, EditPlot, AdvancePlot, PayInstallment
<1>2. ASSUME NEW p \in Plots, NEW b \in Bookings, CreateBooking(w, p, b)
      PROVE  \E j : Begin(w, j) /\ Asked(j)
  <2>. DEFINE j == Plain("create", "insert", p, b, "Booked")
  <2>1. Asked(j)
    BY <1>2, PlainIs DEF Asked, CreateBooking
  <2>. HIDE DEF j
  <2>. QED
    BY <1>2, <2>1 DEF CreateBooking, j
<1>3. ASSUME NEW b \in Bookings, ApproveBooking(w, b) PROVE \E j : Begin(w, j) /\ Asked(j)
  <2>. DEFINE j == Plain("approve", "plotRead", bkPlot[b], b, "Allotted")
  <2>1. Asked(j)
    BY <1>3, PlainIs DEF Asked, ApproveBooking
  <2>. HIDE DEF j
  <2>. QED
    BY <1>3, <2>1 DEF ApproveBooking, j
<1>4. ASSUME NEW b \in Bookings, RejectBooking(w, b) PROVE \E j : Begin(w, j) /\ Asked(j)
  <2>. DEFINE j == Plain("reject", "mark", bkPlot[b], b, "Available")
  <2>1. Asked(j)
    BY <1>4, PlainIs DEF Asked, RejectBooking
  <2>. HIDE DEF j
  <2>. QED
    BY <1>4, <2>1 DEF RejectBooking, j
<1>5. ASSUME NEW b \in Bookings, CancelBooking(w, b) PROVE \E j : Begin(w, j) /\ Asked(j)
  <2>. DEFINE i == Plain("cancel", "mark", bkPlot[b], b, "Available")
  <2>. PICK rs \in ToVoid(b) : Begin(w, [i EXCEPT !.rows = rs])
    BY <1>5 DEF CancelBooking
  <2>. DEFINE j == [i EXCEPT !.rows = rs]
  <2>1. /\ j.op = "cancel" /\ j.pc = "mark" /\ j.held = {bkPlot[b]} /\ j.rec = None
        /\ j.bk = b /\ j.plot = bkPlot[b] /\ j.rows = rs
    BY PlainIs
  <2>. HIDE DEF j
  <2>2. Asked(j)
    BY <1>5, <2>1 DEF Asked, CancelBooking
  <2>. QED
    BY <2>2 DEF j
<1>6. ASSUME NEW b \in Bookings, NEW r \in Records, NEW s, BuyBack(w, b, r, s)
      PROVE  \E j : Begin(w, j) /\ Asked(j)
  <2>. DEFINE i == Plain("buyback", "record", bkPlot[b], b, s)
              j == [i EXCEPT !.rec = r]
  <2>1. /\ j.op = "buyback" /\ j.pc = "record" /\ j.held = {bkPlot[b]} /\ j.rec = r
        /\ j.bk = b /\ j.plot = bkPlot[b] /\ j.rows = {}
    BY PlainIs
  <2>. HIDE DEF j
  <2>2. Asked(j)
    BY <1>6, <2>1 DEF Asked, BuyBack
  <2>. QED
    BY <1>6, <2>2 DEF BuyBack, j
<1>7. ASSUME NEW S \in SUBSET Plots, NEW p \in Plots, NEW r \in Records, MergePlots(w, S, p, r)
      PROVE  \E j : Begin(w, j) /\ Asked(j)
  <2>. DEFINE j == [NoJob EXCEPT !.op = "merge", !.pc = "record", !.plot = p, !.held = S,
                                 !.target = "Merged", !.todo = S \ {p}, !.rec = r]
  <2>1. j.op = "merge" /\ j.pc = "record" /\ j.held = S /\ j.rec = r /\ j.rows = {}
    BY DEF NoJob
  <2>. HIDE DEF j
  <2>2. Asked(j)
    BY <1>7, <2>1 DEF Asked, MergePlots
  <2>. QED
    BY <1>7, <2>2 DEF MergePlots, j
<1>8. ASSUME NEW p \in Plots, NEW s, EditPlot(w, p, s) \/ AdvancePlot(w, p, s)
      PROVE  \E j : Begin(w, j) /\ Asked(j)
  <2>1. PICK op \in {"edit", "advance"}, pc \in {"plotRead", "plotWrite"} :
          Begin(w, Plain(op, pc, p, None, s))
    BY <1>8 DEF EditPlot, AdvancePlot
  <2>. DEFINE j == Plain(op, pc, p, None, s)
  <2>2. Asked(j)
    BY PlainIs DEF Asked
  <2>. HIDE DEF j
  <2>. QED
    BY <2>1, <2>2 DEF j
<1>9. ASSUME NEW x \in Row, PayInstallment(w, x) PROVE \E j : Begin(w, j) /\ Asked(j)
  <2>. DEFINE i == Plain("pay", "land", bkPlot[x[1]], None, None)
              j == [i EXCEPT !.held = {}, !.rows = {x}]
  <2>1. /\ j.op = "pay" /\ j.pc = "land" /\ j.held = {} /\ j.rec = None
        /\ j.plot = bkPlot[x[1]] /\ j.rows = {x}
    BY PlainIs
  <2>. HIDE DEF j
  <2>2. Asked(j)
    BY <1>9, <2>1 DEF Asked, PayInstallment
  <2>. QED
    BY <1>9, <2>2 DEF PayInstallment, j
<1>. QED
  BY <1>1, <1>2, <1>3, <1>4, <1>5, <1>6, <1>7, <1>8, <1>9 DEF Request

LEMMA RecordsRequest ==
  ASSUME DeskInv, [Next]_vars, RecordInv, NEW w \in Workers, Request(w)
  PROVE  RecordInv'
<1>1. UNCHANGED tables
  BY Asks
<1>2. PICK j : Begin(w, j) /\ Asked(j)
  BY Asks
<1>3. \/ j.op \notin Settling /\ j.rec = None
      \/ j.op \in Settling /\ j.pc = "record" /\ j.rec \in FreshRecords
  BY <1>2 DEF Asked, Settling
<1>. QED
  BY <1>1, <1>2, <1>3, RecordsBegin

LEMMA RecordsGoOn ==
  ASSUME DeskInv, [Next]_vars, RecordInv, NEW w \in Workers, record' = record,
         \/ Finish(w)
         \/ \E pc : /\ Goto(w, pc)
                    /\ job[w].op \in Settling =>
                         /\ job[w].pc # "record"
                         /\ \/ pc = "fail"
                            \/ /\ pc \notin {"record", "audit"} /\ job[w].pc \notin {"audit", "fail"}
                               /\ job[w].op = "merge" => pc # "complete"
  PROVE  RecordInv'
<1>1. FormInv
  BY DEF DeskInv
<1>2. CASE Finish(w)
  BY <1>1, <1>2, Ended, RecordsAsWere DEF Settling
<1>3. CASE ~Finish(w)
  BY <1>1, <1>3, Went, RecordsAsWere
<1>. QED
  BY <1>2, <1>3

LEMMA RecordsPlain ==
  ASSUME DeskInv, [Next]_vars, RecordInv, NEW w \in Workers,
         \/ PlotUpdateRead(w) \/ PlotUpdateWrite(w) \/ InsertBooking(w) \/ AwaitApproval(w)
         \/ ConfirmBooking(w) \/ MarkCancelled(w) \/ RegisterInvoice(w) \/ WriteAudit(w)
         \/ StepFails(w) \/ LandPayment(w) \/ CompletePayment(w) \/ RollbackPayment(w) \/ Die(w)
  PROVE  RecordInv'
<1>1. job[w] \in Job /\ ShapeOf(job[w])
  BY Own DEF DeskInv
<1>2. CASE PlotUpdateRead(w) \/ PlotUpdateWrite(w)
  BY <1>1, <1>2, OpOfPc, RecordsGoOn
     DEF PlotUpdateRead, PlotUpdateWrite, AfterPlotWrite, tables, Settling
<1>3. CASE InsertBooking(w) \/ AwaitApproval(w) \/ ConfirmBooking(w)
  BY <1>1, <1>3, OpOfPc, RecordsGoOn DEF InsertBooking, AwaitApproval, ConfirmBooking, tables, Settling
<1>4. CASE MarkCancelled(w)
  BY <1>1, <1>4, OpOfPc, RecordsGoOn DEF MarkCancelled, Settling
<1>5. CASE RegisterInvoice(w) \/ WriteAudit(w) \/ StepFails(w)
  BY <1>1, <1>5, RecordsGoOn DEF RegisterInvoice, WriteAudit, StepFails, tables
<1>6. CASE LandPayment(w) \/ CompletePayment(w) \/ RollbackPayment(w) \/ Die(w)
  BY <1>1, <1>6, OpOfPc, RecordsGoOn DEF LandPayment, CompletePayment, RollbackPayment, Die, tables, Settling
<1>. QED
  BY <1>2, <1>3, <1>4, <1>5, <1>6

LEMMA RecordsSale ==
  ASSUME DeskInv, [Next]_vars, RecordInv, NEW w \in Workers,
         AutoApprove(w) \/ CreatePlan(w) \/ CreateInstallment(w) \/ VoidInstallment(w)
  PROVE  RecordInv'
<1>1. job[w] \in Job /\ ShapeOf(job[w]) /\ FormInv
  BY Own DEF DeskInv
<1>2. CASE AutoApprove(w)
  <2>. DEFINE j == Plain("approve", "plotRead", job[w].plot, job[w].bk, "Allotted")
  <2>1. CASE job' = [job EXCEPT ![w] = j]
    <3>1. job'[w] = j /\ \A v \in Workers \ {w} : job'[v] = job[v]
      BY <1>1, <2>1 DEF FormInv, TypeOK
    <3>2. j.op = "approve" /\ j.rec = None
      BY PlainIs
    <3>. HIDE DEF j
    <3>. QED
      BY <1>2, <3>1, <3>2, RecordsAsWere DEF AutoApprove, tables, Settling
  <2>2. CASE Finish(w)
    BY <1>2, <2>2, RecordsGoOn DEF AutoApprove, tables
  <2>. QED
    BY <1>2, <2>1, <2>2 DEF AutoApprove
<1>3. CASE CreatePlan(w) \/ CreateInstallment(w) \/ VoidInstallment(w)
  <2>1. /\ \A v \in Workers \ {w} : job'[v] = job[v]
        /\ \/ Finish(w)
           \/ /\ job'[w].op = job[w].op /\ job'[w].rec = job[w].rec /\ job'[w].bk = job[w].bk
              /\ job'[w].todo = job[w].todo /\ job'[w].pc \in {"rows", "mark"}
              /\ job'[w].pc = "mark" => job[w].pc = "mark"
    <3>1. ASSUME NEW rs, job' = [job EXCEPT ![w].pc = "rows", ![w].rows = rs]
          PROVE  /\ \A v \in Workers \ {w} : job'[v] = job[v]
                 /\ job'[w].op = job[w].op /\ job'[w].rec = job[w].rec /\ job'[w].bk = job[w].bk
                 /\ job'[w].todo = job[w].todo /\ job'[w].pc = "rows"
      BY <1>1, <3>1 DEF FormInv, TypeOK, Job
    <3>2. ASSUME NEW rs, job' = [job EXCEPT ![w].rows = rs]
          PROVE  /\ \A v \in Workers \ {w} : job'[v] = job[v]
                 /\ job'[w].op = job[w].op /\ job'[w].rec = job[w].rec /\ job'[w].bk = job[w].bk
                 /\ job'[w].todo = job[w].todo /\ job'[w].pc = job[w].pc
      BY <1>1, <3>2 DEF FormInv, TypeOK, Job
    <3>3. CASE CreatePlan(w)
      BY <3>1, <3>3 DEF CreatePlan
    <3>4. CASE CreateInstallment(w)
      BY <1>1, <3>2, <3>4, Ended DEF CreateInstallment
    <3>5. CASE VoidInstallment(w)
      BY <3>2, <3>5 DEF VoidInstallment
    <3>. QED
      BY <1>3, <3>3, <3>4, <3>5
  <2>2. record' = record
    BY <1>3 DEF CreatePlan, CreateInstallment, VoidInstallment
  <2>3. CASE Finish(w)
    BY <2>2, <2>3, RecordsGoOn
  <2>4. CASE ~Finish(w)
    <3>1. job[w].op \in Settling => job'[w].pc = "mark"
      <4>1. CASE VoidInstallment(w)
        <5>1. job'[w].pc = job[w].pc /\ job[w].pc = "mark"
          BY <1>1, <4>1 DEF VoidInstallment, FormInv, TypeOK, Job
        <5>. QED
          BY <5>1
      <4>2. CASE CreatePlan(w) \/ CreateInstallment(w)
        BY <1>1, <4>2, OpOfPc DEF CreatePlan, CreateInstallment, Settling
      <4>. QED
        BY <1>3, <4>1, <4>2
    <3>. QED
      BY <2>1, <2>2, <2>4, <3>1, RecordsAsWere
  <2>. QED
    BY <2>3, <2>4
<1>. QED
  BY <1>2, <1>3

LEMMA RecordsMerge ==
  ASSUME DeskInv, [Next]_vars, RecordInv, NEW w \in Workers, MergeRead(w) \/ MergeWrite(w)
  PROVE  RecordInv'
<1>1. /\ job[w] \in Job /\ ShapeOf(job[w]) /\ FormInv /\ job[w].op = "merge"
      /\ job[w].pc \in {"plotRead", "plotWrite"} /\ record' = record
  BY Own DEF DeskInv, MergeRead, MergeWrite, tables
<1>2. CASE Goto(w, "fail")
  BY <1>1, <1>2, RecordsGoOn
<1>3. CASE \E q \in job[w].todo : job' = [job EXCEPT ![w].pc = "plotWrite", ![w].plot = q]
  <2>1. /\ \A v \in Workers \ {w} : job'[v] = job[v]
        /\ job'[w].op = job[w].op /\ job'[w].rec = job[w].rec /\ job'[w].bk = job[w].bk
        /\ job'[w].todo = job[w].todo /\ job'[w].pc = "plotWrite"
    BY <1>1, <1>3 DEF FormInv, TypeOK, Job
  <2>. QED
    BY <1>1, <2>1, RecordsAsWere
<1>4. CASE MergeWrite(w)
  <2>0. PICK p, doc : p = job[w].plot /\ doc = record[job[w].rec]
    OBVIOUS
  <2>1. /\ \A v \in Workers \ {w} : job'[v] = job[v]
        /\ job'[w].op = "merge" /\ job'[w].rec = job[w].rec /\ job'[w].bk = job[w].bk
        /\ job'[w].todo = job[w].todo \ {p}
        /\ job'[w].pc = IF job[w].todo = {p} THEN "complete" ELSE "plotRead"
    BY <1>1, <1>4, <2>0 DEF MergeWrite, FormInv, TypeOK, Job
  <2>2. job[w].op \in Settling /\ doc \in Record /\ p \in Plots
    BY <1>1, <2>0, SettlesRecord DEF Settling, ShapeOf, Job
  <2>3. /\ doc.kind = "merge" /\ doc.bk = job[w].bk /\ doc.status = "Pending"
        /\ \A q \in doc.plots : q \in job[w].todo \/ Gone(q)
    BY <1>1, <1>4, <2>0 DEF RecordInv, Filed, MergeWrite
  <2>4. Gone(p)'
    <3>1. CASE Unlapped(p)'
      <4>1. Unlapped(p) /\ Checked(p)
        BY <1>4, <2>2, <3>1 DEF MergeWrite, Unlapped, DeskInv, TableInv
      <4>2. plotStatus[p] # "Absent" /\ plotStatus[p] \in PlotCell
        BY <1>1, <1>4, <2>0, <2>2, <4>1 DEF Checked, MergeWrite, FormInv, TypeOK
      <4>3. plotStatus'[p] \in {"Merged", "Deleted"}
        BY <1>1, <1>4, <2>0, <2>2, <4>2 DEF MergeWrite, SetPlot, Exists, PlotCell, FormInv, TypeOK
      <4>. QED
        BY <4>3 DEF Gone
    <3>2. CASE ~Unlapped(p)'
      BY <3>2 DEF Gone
    <3>. QED
      BY <3>1, <3>2
  <2>5. \A q \in doc.plots : q \in job'[w].todo \/ Gone(q)'
    <3>1. ASSUME NEW q \in doc.plots PROVE q \in job'[w].todo \/ Gone(q)'
      <4>1. q \in Plots
        BY <2>2 DEF Record
      <4>. QED
        BY <2>1, <2>3, <2>4, <4>1, GoneStays
    <3>. QED
      BY <3>1
  <2>6. record'[job'[w].rec] = doc
    BY <1>1, <2>0, <2>1
  <2>7. job'[w].pc = "complete" => job'[w].todo = {}
    BY <2>1
  <2>8. Filed(job[w])'
    BY <2>1, <2>3, <2>5, <2>6, <2>7 DEF Filed
  <2>9. doc.kind = "merge" /\ doc.status = "Pending" /\ record' \in [Records -> Record]
    BY <1>1, <2>3 DEF FormInv, TypeOK
  <2>. QED
    BY <1>1, <2>1, <2>6, <2>8, <2>9, RecordsMove
<1>. QED
  BY <1>2, <1>3, <1>4 DEF MergeRead

\* A record is opened, completed or marked as failed.
LEMMA RecordsWritten ==
  ASSUME DeskInv, [Next]_vars, RecordInv, NEW w \in Workers,
         CreateRecord(w) \/ CompleteRecord(w) \/ FailRecord(w)
  PROVE  RecordInv'
<1>1. /\ job[w] \in Job /\ ShapeOf(job[w]) /\ FormInv /\ job[w].op \in Settling
      /\ BookingOf(job[w])
  BY Own, OpOfPc DEF DeskInv, CreateRecord, CompleteRecord, FailRecord, Settling
<1>. DEFINE r == job[w].rec
            doc == record[r]
<1>2. r \in Records /\ r # None /\ doc \in Record
  BY <1>1, SettlesRecord
<1>3. \A q \in Plots : Gone(q) => Gone(q)'
  BY GoneStays
<1>4. CASE CreateRecord(w)
  <2>. DEFINE new == [kind |-> job[w].op, status |-> "Pending", bk |-> job[w].bk,
                      plots |-> job[w].todo]
  <2>1. record' = [record EXCEPT ![r] = new] /\ Goto(w, "invoice") /\ job[w].pc = "record"
    BY <1>4 DEF CreateRecord
  <2>2. /\ \A v \in Workers \ {w} : job'[v] = job[v]
        /\ job'[w].op = job[w].op /\ job'[w].rec = r /\ job'[w].bk = job[w].bk
        /\ job'[w].todo = job[w].todo /\ job'[w].pc = "invoice"
    BY <1>1, <2>1, Went
  <2>3. new \in Record
    BY <1>1 DEF Record, Job, Settling
  <2>4. /\ record'[r] = new /\ \A q \in Records \ {r} : record'[q] = record[q]
        /\ record' \in [Records -> Record]
    BY <1>1, <1>2, <2>1, <2>3 DEF FormInv, TypeOK
  <2>5. /\ new.kind = job[w].op /\ new.status = "Pending" /\ new.bk = job[w].bk
        /\ new.plots = job[w].todo
    OBVIOUS
  <2>6. job[w].op = "buyback" => job[w].bk \in Bookings /\ bkStatus[job[w].bk] # "none"
    BY <1>1, <2>1 DEF ShapeOf, BookingOf, BookingOps
  <2>. HIDE DEF new
  <2>7. Filed(job[w])'
    BY <2>2, <2>4, <2>5 DEF Filed
  <2>. QED
    BY <1>2, <1>1, <2>2, <2>4, <2>5, <2>6, <2>7, RecordsMove DEF r
<1>5. CASE CompleteRecord(w) \/ FailRecord(w)
  <2>1. PICK s \in {"Completed", "Failed"} :
          /\ SetRecord(w, s)
          /\ s = "Completed" => job[w].pc = "complete" /\ Goto(w, "audit")
          /\ s = "Failed" => job[w].pc = "fail" /\ Finish(w)
    BY <1>5 DEF CompleteRecord, FailRecord
  <2>. DEFINE new == [doc EXCEPT !.status = s]
  <2>2. /\ new \in Record /\ new.kind = doc.kind /\ new.status = s /\ new.bk = doc.bk
        /\ new.plots = doc.plots
    BY <1>2 DEF Record
  <2>3. record' = [record EXCEPT ![r] = new]
    BY <2>1 DEF SetRecord
  <2>. HIDE DEF new
  <2>4. /\ record'[r] = new /\ \A q \in Records \ {r} : record'[q] = record[q]
        /\ record' \in [Records -> Record]
    BY <1>1, <1>2, <2>2, <2>3 DEF FormInv, TypeOK
  <2>5. doc.kind = job[w].op /\ doc.bk = job[w].bk
    BY <1>1, <2>1 DEF RecordInv, Filed, Settling
  <2>6. doc.plots \subseteq Plots
    BY <1>2 DEF Record
  <2>7. job[w].op = "merge" /\ s = "Completed" => \A q \in doc.plots : Gone(q)'
    BY <1>1, <1>3, <2>1, <2>6 DEF RecordInv, Filed, Settling
  <2>8. job[w].op = "buyback" => job[w].bk \in Bookings /\ bkStatus[job[w].bk] # "none"
    BY <1>1, <2>1 DEF ShapeOf, BookingOf, BookingOps
  <2>9. CASE s = "Completed"
    <3>1. /\ \A v \in Workers \ {w} : job'[v] = job[v]
          /\ job'[w].op = job[w].op /\ job'[w].rec = r /\ job'[w].bk = job[w].bk
          /\ job'[w].todo = job[w].todo /\ job'[w].pc = "audit"
      BY <1>1, <2>1, <2>9, Went
    <3>2. job[w].op = "merge" => job[w].todo = {}
      BY <2>1, <2>9 DEF RecordInv, Filed
    <3>. HIDE DEF doc
    <3>3. Filed(job[w])'
      BY <2>2, <2>4, <2>5, <2>7, <2>9, <3>1, <3>2 DEF Filed
    <3>. QED
      BY <1>1, <1>2, <2>2, <2>4, <2>5, <2>7, <2>8, <2>9, <3>1, <3>3, RecordsMove, SMTT(30) DEF r
  <2>10. CASE s = "Failed"
    <3>1. /\ \A v \in Workers \ {w} : job'[v] = job[v]
          /\ job'[w].op = "idle" /\ job'[w].rec = None
      BY <1>1, <2>1, <2>10, Ended
    <3>2. Filed(job[w])'
      BY <3>1 DEF Filed
    <3>. QED
      BY <1>1, <1>2, <2>2, <2>4, <2>5, <2>8, <2>10, <3>1, <3>2, RecordsMove, SMTT(30) DEF r
  <2>. QED
    BY <2>9, <2>10
<1>. QED
  BY <1>4, <1>5

LEMMA RecordsStep ==
  ASSUME DeskInv, [Next]_vars, RecordInv
  PROVE  RecordInv'
<1>1. ASSUME NEW w \in Workers, Statement(w) \/ Die(w) PROVE RecordInv'
  BY <1>1, RecordsPlain, RecordsSale, RecordsMerge, RecordsWritten DEF Statement
<1>2. ASSUME UNCHANGED <<record, job, bkStatus>> PROVE RecordInv'
  <2>1. ASSUME NEW v \in Workers PROVE Filed(job[v])'
    BY <1>2, FiledStays DEF RecordInv
  <2>2. ASSUME NEW r \in Records, record[r].kind = "merge", record[r].status = "Completed",
               NEW q \in record[r].plots
        PROVE  Gone(q)'
    <3>1. q \in Plots
      BY <2>2 DEF DeskInv, FormInv, TypeOK, Record
    <3>. QED
      BY <2>2, <3>1, GoneStays DEF RecordInv
  <2>. QED
    BY <1>2, <2>1, <2>2 DEF RecordInv
<1>. QED
  BY <1>1, <1>2, RecordsRequest DEF Next, vars, AddPlot, RemovePlot

LEMMA RecordsInit == Init => RecordInv
BY NoneAssumption DEF Init, RecordInv, Filed, NoJob, NoRecord

\* A merge recorded as completed has retired every source plot.
THEOREM MergeRecordsTrue == Spec => []MergeRecordTrue
<1>1. DeskInv /\ DeskInv' /\ RecordInv /\ [Next]_vars => RecordInv'
  BY RecordsStep
<1>2. RecordInv => MergeRecordTrue
  BY DEF RecordInv, MergeRecordTrue, Gone, Unlapped
<1>. QED
  BY <1>1, <1>2, RecordsInit, DeskCorrect, PTL DEF Spec

-----------------------------------------------------------------------------
(* What a statement of a request can touch *)

\* All that a statement of worker w writes is its own: the plots it holds, its
\* booking, the installments in its hand, its record.
Effects(w) ==
  /\ \A v \in Workers \ {w} : job'[v] = job[v]
  /\ job'[w].held \in {job[w].held, {}}
  /\ job'[w].op \in {"pay", "cancel"} => job'[w].op = job[w].op /\ job'[w].plot = job[w].plot
  /\ \A q \in Plots : upset[q] \subseteq upset'[q]
  /\ \A q \in Plots \ job[w].held : plotStatus'[q] = plotStatus[q]
  /\ \A b \in Bookings :
       \/ job[w].op \in BookingOps /\ b = job[w].bk /\ bkPlot'[b] = job[w].plot
       \/ bkStatus'[b] = bkStatus[b] /\ bkPlot'[b] = bkPlot[b] /\ plans'[b] = plans[b]
  /\ \A x \in Row : row'[x] = row[x] \/ (x \in job[w].rows /\ (job[w].op = "approve" => job[w].pc = "rows"))
  /\ \A r \in Records : record'[r] = record[r] \/ (job[w].op \in Settling /\ r = job[w].rec)

\* The request goes on or ends, and writes to no table.
LEMMA MovesOnly ==
  ASSUME FormInv, NEW w \in Workers, Finish(w) \/ \E pc : Goto(w, pc),
         \A q \in Plots : upset[q] \subseteq upset'[q], UNCHANGED tables
  PROVE  Effects(w)
<1>1. CASE Finish(w)
  BY <1>1, Ended DEF Effects, tables
<1>2. CASE ~Finish(w)
  BY <1>2, Went DEF Effects, tables
<1>. QED
  BY <1>1, <1>2

LEMMA PlainEffects ==
  ASSUME FormInv, NEW w \in Workers,
         \/ PlotUpdateRead(w) \/ AwaitApproval(w) \/ RegisterInvoice(w) \/ WriteAudit(w)
         \/ StepFails(w) \/ CompletePayment(w) \/ Die(w)
  PROVE  Effects(w)
<1>1. UNCHANGED tables /\ (Finish(w) \/ \E pc : Goto(w, pc))
  BY DEF PlotUpdateRead, AwaitApproval, RegisterInvoice, WriteAudit, StepFails,
         CompletePayment, Die
<1>2. UNCHANGED upset \/ BreakOff(w) \/ \E p, c : Upset(p, c)
  BY DEF PlotUpdateRead, AwaitApproval, RegisterInvoice, WriteAudit, StepFails,
         CompletePayment, Die
<1>3. \A q \in Plots : upset[q] \subseteq upset'[q]
  BY <1>2, UpsetGrows
<1>. QED
  BY <1>1, <1>3, MovesOnly

LEMMA PlotEffects ==
  ASSUME FormInv, NEW w \in Workers, PlotUpdateWrite(w) \/ MergeRead(w) \/ MergeWrite(w)
  PROVE  Effects(w)
<1>1. job[w] \in Job /\ ShapeOf(job[w])
  BY Own
<1>2. CASE PlotUpdateWrite(w)
  <2>1. \A q \in Plots : upset[q] \subseteq upset'[q]
    BY <1>2, UpsetGrows DEF PlotUpdateWrite
  <2>2. job[w].held = {job[w].plot}
    BY <1>1, <1>2, OpOfPc DEF PlotUpdateWrite, ShapeOf, Job, Ops, BookingOps
  <2>3. \A q \in Plots \ job[w].held : plotStatus'[q] = plotStatus[q]
    BY <1>2, <2>2 DEF PlotUpdateWrite, SetPlot, FormInv, TypeOK
  <2>4. Finish(w) \/ \E pc : Goto(w, pc)
    BY <1>2 DEF PlotUpdateWrite
  <2>5. UNCHANGED <<bkStatus, bkPlot, bkMember, plans, row, record>>
    BY <1>2 DEF PlotUpdateWrite
  <2>6. CASE Finish(w)
    BY <2>1, <2>3, <2>5, <2>6, Ended DEF Effects
  <2>7. CASE ~Finish(w)
    BY <2>1, <2>3, <2>4, <2>5, <2>7, Went DEF Effects
  <2>. QED
    BY <2>6, <2>7
<1>3. CASE MergeRead(w)
  <2>1. CASE Goto(w, "fail")
    BY <1>3, <2>1, MovesOnly DEF MergeRead
  <2>2. ASSUME NEW q \in job[w].todo, job' = [job EXCEPT ![w].pc = "plotWrite", ![w].plot = q]
        PROVE  Effects(w)
    <3>1. /\ \A v \in Workers \ {w} : job'[v] = job[v]
          /\ job'[w].op = job[w].op /\ job'[w].held = job[w].held
      BY <1>1, <2>2 DEF FormInv, TypeOK, Job
    <3>2. job[w].op = "merge" /\ UNCHANGED <<tables, upset>>
      BY <1>3 DEF MergeRead
    <3>. QED
      BY <3>1, <3>2 DEF Effects, tables
  <2>. QED
    BY <1>3, <2>1, <2>2 DEF MergeRead
<1>4. CASE MergeWrite(w)
  <2>1. /\ \A v \in Workers \ {w} : job'[v] = job[v]
        /\ job'[w].op = "merge" /\ job'[w].held = job[w].held
    BY <1>1, <1>4 DEF MergeWrite, FormInv, TypeOK, Job
  <2>2. job[w].plot \in job[w].held
    BY <1>1, <1>4 DEF MergeWrite, ShapeOf
  <2>3. \A q \in Plots \ job[w].held : plotStatus'[q] = plotStatus[q]
    BY <1>4, <2>2 DEF MergeWrite, SetPlot, FormInv, TypeOK
  <2>. QED
    BY <1>4, <2>1, <2>3 DEF MergeWrite, Effects
<1>. QED
  BY <1>2, <1>3, <1>4

LEMMA BookingEffects ==
  ASSUME FormInv, NEW w \in Workers,
         \/ InsertBooking(w) \/ AutoApprove(w) \/ ConfirmBooking(w) \/ MarkCancelled(w)
         \/ CreatePlan(w) \/ CreateInstallment(w) \/ VoidInstallment(w)
  PROVE  Effects(w)
<1>1. /\ job[w] \in Job /\ ShapeOf(job[w]) /\ BookingOf(job[w])
      /\ job[w].op \in BookingOps /\ job[w].bk \in Bookings
  BY Own, OpOfPc DEF InsertBooking, AutoApprove, ConfirmBooking, MarkCancelled, CreatePlan,
     CreateInstallment, VoidInstallment, BookingOps, ShapeOf
<1>2. job[w].pc # "insert" => bkPlot[job[w].bk] = job[w].plot
  BY <1>1 DEF BookingOf
<1>3. CASE InsertBooking(w)
  <2>1. CASE Finish(w) /\ UNCHANGED tables
    BY <1>3, <2>1, MovesOnly DEF InsertBooking
  <2>2. CASE Exists(job[w].plot)
    <3>1. Goto(w, "plotRead")
      BY <1>3, <2>2 DEF InsertBooking
    <3>. QED
      BY <1>1, <1>3, <2>2, <3>1, Went DEF InsertBooking, Effects, FormInv, TypeOK
  <2>. QED
    BY <1>3, <2>1, <2>2 DEF InsertBooking, tables
<1>4. CASE AutoApprove(w)
  <2>. DEFINE j == Plain("approve", "plotRead", job[w].plot, job[w].bk, "Allotted")
  <2>1. CASE job' = [job EXCEPT ![w] = j]
    <3>1. job'[w] = j /\ \A v \in Workers \ {w} : job'[v] = job[v]
      BY <2>1 DEF FormInv, TypeOK
    <3>2. j.op = "approve" /\ j.held = {job[w].plot}
      BY PlainIs
    <3>3. job[w].held = {job[w].plot}
      BY <1>1 DEF ShapeOf
    <3>. HIDE DEF j
    <3>. QED
      BY <1>4, <3>1, <3>2, <3>3 DEF AutoApprove, Effects, tables
  <2>2. CASE Finish(w)
    BY <1>4, <2>2, MovesOnly DEF AutoApprove
  <2>. QED
    BY <1>4, <2>1, <2>2 DEF AutoApprove
<1>5. CASE ConfirmBooking(w) \/ MarkCancelled(w)
  <2>1. PICK pc, s : /\ Goto(w, pc) /\ bkStatus' = [bkStatus EXCEPT ![job[w].bk] = s]
                     /\ UNCHANGED <<plotStatus, bkPlot, bkMember, plans, row, record, upset>>
                     /\ job[w].pc # "insert"
    BY <1>5 DEF ConfirmBooking, MarkCancelled
  <2>. QED
    BY <1>1, <1>2, <2>1, Went DEF Effects, FormInv, TypeOK
<1>6. CASE CreatePlan(w) \/ CreateInstallment(w) \/ VoidInstallment(w)
  <2>1. /\ \A v \in Workers \ {w} : job'[v] = job[v]
        /\ job'[w].held \in {job[w].held, {}}
        /\ job'[w].op \in {"pay", "cancel"} => job'[w].op = job[w].op /\ job'[w].plot = job[w].plot
    <3>1. CASE Finish(w)
      BY <3>1, Ended
    <3>2. ASSUME NEW rs, NEW pc, \/ job' = [job EXCEPT ![w].rows = rs]
                                 \/ job' = [job EXCEPT ![w].pc = pc, ![w].rows = rs]
          PROVE  /\ \A v \in Workers \ {w} : job'[v] = job[v]
                 /\ job'[w].held = job[w].held
                 /\ job'[w].op = job[w].op /\ job'[w].plot = job[w].plot
      BY <1>1, <3>2 DEF FormInv, TypeOK, Job
    <3>. QED
      BY <1>6, <3>1, <3>2 DEF CreatePlan, CreateInstallment, VoidInstallment
  <2>2. /\ UNCHANGED <<plotStatus, bkStatus, bkPlot, record, upset>>
        /\ \A b \in Bookings \ {job[w].bk} : plans'[b] = plans[b]
        /\ \A x \in Row : row'[x] = row[x]
             \/ (x \in job[w].rows /\ (job[w].op = "approve" => job[w].pc = "rows"))
        /\ job[w].pc # "insert"
    BY <1>1, <1>6, OpOfPc DEF CreatePlan, CreateInstallment, VoidInstallment, FormInv, TypeOK
  <2>. QED
    BY <1>1, <1>2, <2>1, <2>2 DEF Effects
<1>. QED
  BY <1>3, <1>4, <1>5, <1>6

LEMMA OtherEffects ==
  ASSUME FormInv, NEW w \in Workers,
         \/ CreateRecord(w) \/ CompleteRecord(w) \/ FailRecord(w)
         \/ LandPayment(w) \/ RollbackPayment(w)
  PROVE  Effects(w)
<1>1. job[w].op \in Settling => job[w].op \notin {"pay", "cancel"}
  BY DEF Settling
<1>2. CASE CreateRecord(w) \/ CompleteRecord(w) \/ FailRecord(w)
  <2>1. job[w].op \in Settling
    BY <1>2, Own, OpOfPc DEF CreateRecord, CompleteRecord, FailRecord, Settling
  <2>2. Finish(w) \/ \E pc : Goto(w, pc)
    BY <1>2 DEF CreateRecord, CompleteRecord, FailRecord
  <2>3. \A r \in Records : record'[r] = record[r] \/ r = job[w].rec
    BY <1>2 DEF CreateRecord, CompleteRecord, FailRecord, SetRecord, FormInv, TypeOK
  <2>4. UNCHANGED <<plotStatus, bkStatus, bkPlot, bkMember, plans, row, upset>>
    BY <1>2 DEF CreateRecord, CompleteRecord, FailRecord
  <2>5. CASE Finish(w)
    BY <2>1, <2>3, <2>4, <2>5, Ended DEF Effects
  <2>6. CASE ~Finish(w)
    BY <2>1, <2>2, <2>3, <2>4, <2>6, Went DEF Effects
  <2>. QED
    BY <2>5, <2>6
<1>3. CASE LandPayment(w) \/ RollbackPayment(w)
  <2>1. /\ Finish(w) \/ Goto(w, "receipt")
        /\ \A x \in Row : row'[x] = row[x] \/ x \in job[w].rows
        /\ job[w].op # "approve"
        /\ UNCHANGED <<plotStatus, bkStatus, bkPlot, bkMember, plans, record, upset>>
    BY <1>3, Own, OpOfPc DEF LandPayment, RollbackPayment, FormInv, TypeOK
  <2>2. CASE Finish(w)
    BY <2>1, <2>2, Ended DEF Effects
  <2>3. CASE ~Finish(w)
    BY <2>1, <2>3, Went DEF Effects
  <2>. QED
    BY <2>2, <2>3
<1>. QED
  BY <1>2, <1>3

LEMMA StatementEffects ==
  ASSUME FormInv, NEW w \in Workers, Statement(w) \/ Die(w)
  PROVE  Effects(w)
BY PlainEffects, PlotEffects, BookingEffects, OtherEffects DEF Statement

-----------------------------------------------------------------------------
(* Installments *)

\* One request writes rows of plans there are, and works on rows there are.
LEMMA RowsMove ==
  ASSUME FormInv, [Next]_vars, RowsInv, NEW w \in Workers,
         \A v \in Workers \ {w} : job'[v] = job[v],
         \A x \in Row : /\ row[x] # "none" => row'[x] # "none"
                        /\ row'[x] # "none" => row[x] # "none" \/ x[2] \in plans[x[1]],
         \A b \in Bookings : /\ plans[b] \subseteq plans'[b]
                             /\ plans'[b] = plans[b] \/ bkStatus[b] # "none",
         job'[w].rows # {} => job'[w].op \in {"approve", "cancel", "pay"},
         job'[w].op \in {"cancel", "pay"} =>
           \A x \in job'[w].rows : /\ x \in Row /\ row[x] # "none"
                                   /\ bkPlot[x[1]] = job'[w].plot,
         job'[w].pc = "rows" =>
           w \in plans'[job'[w].bk] /\ job'[w].rows \subseteq PlanRows(job'[w].bk, w)
  PROVE  RowsInv'
<1>1. \A x \in Row : x[1] \in Bookings
  BY DEF Row
<1>2. ASSUME NEW x \in Row, row'[x] # "none" PROVE x[2] \in plans'[x[1]]
  BY <1>1, <1>2 DEF RowsInv
<1>3. ASSUME NEW b \in Bookings, bkStatus'[b] = "none" PROVE plans'[b] = {}
  <2>1. bkStatus[b] = "none"
    BY <1>3, BookingStays
  <2>. QED
    BY <2>1 DEF RowsInv
<1>4. \A x \in Row : row[x] # "none" => bkPlot'[x[1]] = bkPlot[x[1]]
  <2>1. \A x \in Row : row[x] # "none" => bkStatus[x[1]] # "none"
    BY <1>1 DEF RowsInv
  <2>. QED
    BY <1>1, <2>1, BookingStays
<1>5. ASSUME NEW v \in Workers
      PROVE  /\ job'[v].rows # {} => job'[v].op \in {"approve", "cancel", "pay"}
             /\ job'[v].op \in {"cancel", "pay"} =>
                  \A x \in job'[v].rows : row'[x] # "none" /\ bkPlot'[x[1]] = job'[v].plot
             /\ job'[v].pc = "rows" =>
                  v \in plans'[job'[v].bk] /\ job'[v].rows \subseteq PlanRows(job'[v].bk, v)
  <2>1. CASE v = w
    BY <1>4, <2>1
  <2>2. CASE v # w
    <3>1. job'[v] = job[v] /\ job[v] \in Job /\ ShapeOf(job[v])
      BY <2>2, Own
    <3>2. job[v].rows \subseteq Row
      BY <3>1 DEF Job
    <3>3. job[v].pc = "rows" => job[v].bk \in Bookings
      BY <3>1, OpOfPc DEF ShapeOf, BookingOps
    <3>. QED
      BY <1>4, <3>1, <3>2, <3>3 DEF RowsInv
  <2>. QED
    BY <2>1, <2>2
<1>. QED
  BY <1>2, <1>3, <1>5 DEF RowsInv, PlanRows

\* A request ends or goes on, and plans and installments stay as they are.
LEMMA RowsAsWere ==
  ASSUME FormInv, [Next]_vars, RowsInv, NEW w \in Workers, UNCHANGED <<plans, row>>,
         \A v \in Workers \ {w} : job'[v] = job[v],
         job'[w].pc # "rows",
         \/ job'[w].rows = {}
         \/ job'[w].rows = job[w].rows /\ job'[w].op = job[w].op /\ job'[w].plot = job[w].plot
  PROVE  RowsInv'
<1>1. job[w].rows \subseteq Row
  BY Own DEF Job
<1>. QED
  BY <1>1, RowsMove DEF RowsInv

LEMMA RowsRequest ==
  ASSUME FormInv, [Next]_vars, RowsInv, NEW w \in Workers, Request(w)
  PROVE  RowsInv'
<1>1. PICK j : Begin(w, j) /\ Asked(j)
  BY Asks
<1>2. UNCHANGED tables /\ job'[w] = j /\ \A v \in Workers \ {w} : job'[v] = job[v]
  BY <1>1, Asks, Started
<1>3. j.pc # "rows" /\ (j.rows # {} => j.op \in {"cancel", "pay"})
  BY <1>1 DEF Asked
<1>4. j.op = "cancel" => \A x \in j.rows : /\ x \in Row /\ row[x] # "none"
                                           /\ bkPlot[x[1]] = j.plot
  <2>1. SUFFICES ASSUME j.op = "cancel", NEW x \in j.rows
                 PROVE  x \in Row /\ row[x] = "due" /\ bkPlot[x[1]] = j.plot
    OBVIOUS
  <2>2. j.bk \in Bookings /\ j.plot = bkPlot[j.bk] /\ j.rows \in ToVoid(j.bk)
    BY <1>1, <2>1 DEF Asked
  <2>3. plans[j.bk] \subseteq Workers
    BY <2>2 DEF FormInv, TypeOK
  <2>. QED
    BY <2>1, <2>2, <2>3 DEF ToVoid, Unpaid, PlanRows, FallbackRows, Row
<1>5. j.op = "pay" => \A x \in j.rows : /\ x \in Row /\ row[x] # "none"
                                        /\ bkPlot[x[1]] = j.plot
  BY <1>1 DEF Asked
<1>. QED
  BY <1>2, <1>3, <1>4, <1>5, RowsMove DEF tables

LEMMA RowsPlain ==
  ASSUME FormInv, [Next]_vars, RowsInv, NEW w \in Workers, Statement(w) \/ Die(w),
         ~CreatePlan(w), ~CreateInstallment(w), ~VoidInstallment(w), ~LandPayment(w),
         ~RollbackPayment(w)
  PROVE  RowsInv'
<1>1. \/ Finish(w)
      \/ \E pc : Goto(w, pc) /\ pc # "rows"
      \/ AutoApprove(w) \/ MergeRead(w) \/ MergeWrite(w)
  BY DEF Statement, Die, PlotUpdateRead, PlotUpdateWrite, AfterPlotWrite, InsertBooking,
     AwaitApproval, ConfirmBooking, MarkCancelled, CreateRecord, RegisterInvoice,
     CompleteRecord, WriteAudit, StepFails, FailRecord, CompletePayment
<1>2. UNCHANGED <<plans, row>>
  BY DEF Statement, Die, tables, PlotUpdateRead, PlotUpdateWrite, InsertBooking,
     AwaitApproval, AutoApprove, ConfirmBooking, MarkCancelled, CreateRecord, RegisterInvoice,
     MergeRead, MergeWrite, CompleteRecord, WriteAudit, StepFails, FailRecord, CompletePayment
<1>3. CASE Finish(w)
  BY <1>2, <1>3, Ended, RowsAsWere
<1>4. ASSUME NEW pc, Goto(w, pc), pc # "rows" PROVE RowsInv'
  BY <1>2, <1>4, Went, RowsAsWere
<1>5. CASE AutoApprove(w) /\ ~Finish(w)
  <2>. DEFINE j == Plain("approve", "plotRead", job[w].plot, job[w].bk, "Allotted")
  <2>1. job'[w] = j /\ \A v \in Workers \ {w} : job'[v] = job[v]
    BY <1>5 DEF AutoApprove, FormInv, TypeOK
  <2>2. j.pc = "plotRead" /\ j.rows = {}
    BY PlainIs
  <2>. HIDE DEF j
  <2>. QED
    BY <1>2, <2>1, <2>2, RowsAsWere
<1>6. CASE MergeRead(w) \/ MergeWrite(w)
  <2>1. job[w] \in Job /\ job[w].op = "merge" /\ job[w].rows = {}
    BY <1>6, Own DEF MergeRead, MergeWrite, RowsInv
  <2>2. ASSUME NEW q, job' = [job EXCEPT ![w].pc = "plotWrite", ![w].plot = q]
        PROVE  RowsInv'
    <3>1. /\ \A v \in Workers \ {w} : job'[v] = job[v]
          /\ job'[w].pc = "plotWrite" /\ job'[w].rows = {}
      BY <2>1, <2>2 DEF FormInv, TypeOK, Job
    <3>. QED
      BY <1>2, <3>1, RowsAsWere
  <2>3. ASSUME NEW pc \in {"complete", "plotRead"}, NEW t,
               job' = [job EXCEPT ![w].pc = pc, ![w].todo = t]
        PROVE  RowsInv'
    <3>1. /\ \A v \in Workers \ {w} : job'[v] = job[v]
          /\ job'[w].pc = pc /\ job'[w].rows = {}
      BY <2>1, <2>3 DEF FormInv, TypeOK, Job
    <3>. QED
      BY <1>2, <3>1, RowsAsWere
  <2>4. CASE MergeRead(w)
    BY <1>4, <2>2, <2>4 DEF MergeRead
  <2>5. CASE MergeWrite(w)
    <3>1. PICK pc \in {"complete", "plotRead"} :
            job' = [job EXCEPT ![w].pc = pc, ![w].todo = @ \ {job[w].plot}]
      BY <2>5 DEF MergeWrite
    <3>. QED
      BY <2>3, <3>1
  <2>. QED
    BY <1>6, <2>4, <2>5
<1>. QED
  BY <1>1, <1>3, <1>4, <1>5, <1>6

LEMMA RowsWritten ==
  ASSUME FormInv, [Next]_vars, RowsInv, NEW w \in Workers,
         \/ CreatePlan(w) \/ CreateInstallment(w) \/ VoidInstallment(w)
         \/ LandPayment(w) \/ RollbackPayment(w)
  PROVE  RowsInv'
<1>1. job[w] \in Job /\ ShapeOf(job[w]) /\ BookingOf(job[w]) /\ job[w].rows \subseteq Row
  BY Own DEF Job
<1>2. CASE CreatePlan(w)
  <2>. DEFINE b == job[w].bk
  <2>1. job[w].op = "approve" /\ b \in Bookings /\ bkStatus[b] # "none"
    BY <1>1, <1>2, OpOfPc DEF CreatePlan, ShapeOf, BookingOf, BookingOps
  <2>2. /\ \A v \in Workers \ {w} : job'[v] = job[v]
        /\ job'[w].op = "approve" /\ job'[w].rows = PlanRows(b, w) /\ job'[w].bk = b
    BY <1>1, <1>2, <2>1 DEF CreatePlan, PlanRows, FormInv, TypeOK, Job
  <2>3. /\ \A c \in Bookings \ {b} : plans'[c] = plans[c]
        /\ plans'[b] = plans[b] \cup {w}
        /\ row' = row
    BY <1>2, <2>1 DEF CreatePlan, FormInv, TypeOK
  <2>. QED
    BY <2>1, <2>2, <2>3, RowsMove
<1>3. CASE CreateInstallment(w)
  <2>1. PICK x \in job[w].rows :
          /\ row' = [row EXCEPT ![x] = "due"]
          /\ Finish(w) \/ job' = [job EXCEPT ![w].rows = @ \ {x}]
    BY <1>3 DEF CreateInstallment
  <2>2. /\ job[w].op = "approve" /\ job[w].bk \in Bookings /\ bkStatus[job[w].bk] # "none"
        /\ w \in plans[job[w].bk] /\ job[w].rows \subseteq PlanRows(job[w].bk, w)
    BY <1>1, <1>3, OpOfPc DEF CreateInstallment, ShapeOf, BookingOf, BookingOps, RowsInv
  <2>3. plans' = plans
    BY <1>3 DEF CreateInstallment
  <2>4. /\ \A y \in Row : y # x => row'[y] = row[y]
        /\ row'[x] = "due" /\ x \in Row /\ x[2] \in plans[x[1]]
    BY <1>1, <2>1, <2>2 DEF FormInv, TypeOK, PlanRows
  <2>5. CASE Finish(w)
    BY <2>3, <2>4, <2>5, Ended, RowsMove
  <2>6. CASE job' = [job EXCEPT ![w].rows = @ \ {x}]
    <3>1. /\ \A v \in Workers \ {w} : job'[v] = job[v]
          /\ job'[w].op = "approve" /\ job'[w].rows \subseteq job[w].rows
          /\ job'[w].bk = job[w].bk
      BY <1>1, <2>2, <2>6 DEF FormInv, TypeOK, Job
    <3>. QED
      BY <2>2, <2>3, <2>4, <3>1, RowsMove
  <2>. QED
    BY <2>1, <2>5, <2>6
<1>4. CASE VoidInstallment(w)
  <2>1. PICK x \in job[w].rows : /\ row' = [row EXCEPT ![x] = "voided"]
                                 /\ job' = [job EXCEPT ![w].rows = @ \ {x}]
    BY <1>4 DEF VoidInstallment
  <2>2. job[w].pc = "mark" /\ job[w].op = "cancel" /\ plans' = plans
    BY <1>1, <1>4, <2>1, OpOfPc DEF VoidInstallment, RowsInv
  <2>3. /\ \A y \in Row : y # x => row'[y] = row[y]
        /\ row'[x] = "voided" /\ x \in Row /\ row[x] # "none"
    BY <1>1, <2>1, <2>2 DEF FormInv, TypeOK, RowsInv
  <2>4. /\ \A v \in Workers \ {w} : job'[v] = job[v]
        /\ job'[w].op = "cancel" /\ job'[w].rows \subseteq job[w].rows
        /\ job'[w].plot = job[w].plot /\ job'[w].pc = "mark"
    BY <1>1, <2>1, <2>2 DEF FormInv, TypeOK, Job
  <2>5. \A y \in job[w].rows : row[y] # "none" /\ bkPlot[y[1]] = job[w].plot
    BY <2>2 DEF RowsInv
  <2>. QED
    BY <1>1, <2>2, <2>3, <2>4, <2>5, RowsMove
<1>5. CASE LandPayment(w) \/ RollbackPayment(w)
  <2>1. PICK x \in job[w].rows, s \in {"due", "paid"} : row' = [row EXCEPT ![x] = s]
    BY <1>5 DEF LandPayment, RollbackPayment
  <2>2. job[w].op = "pay" /\ plans' = plans /\ (Finish(w) \/ Goto(w, "receipt"))
    BY <1>1, <1>5, OpOfPc DEF LandPayment, RollbackPayment
  <2>3. /\ \A y \in Row : y # x => row'[y] = row[y]
        /\ row'[x] # "none" /\ x \in Row /\ row[x] # "none"
    BY <1>1, <2>1, <2>2 DEF FormInv, TypeOK, RowsInv
  <2>4. \A y \in job[w].rows : row[y] # "none" /\ bkPlot[y[1]] = job[w].plot
    BY <2>2 DEF RowsInv
  <2>5. CASE Finish(w)
    BY <2>2, <2>3, <2>5, Ended, RowsMove
  <2>6. CASE ~Finish(w)
    BY <1>1, <2>2, <2>3, <2>4, <2>6, Went, RowsMove
  <2>. QED
    BY <2>5, <2>6
<1>. QED
  BY <1>2, <1>3, <1>4, <1>5

LEMMA RowsStep ==
  ASSUME FormInv, [Next]_vars, RowsInv
  PROVE  RowsInv'
<1>1. ASSUME NEW w \in Workers, Statement(w) \/ Die(w) PROVE RowsInv'
  BY <1>1, RowsPlain, RowsWritten
<1>2. ASSUME UNCHANGED <<bkStatus, bkPlot, plans, row, job>> PROVE RowsInv'
  BY <1>2 DEF RowsInv
<1>. QED
  BY <1>1, <1>2, RowsRequest DEF Next, vars, AddPlot, RemovePlot

-----------------------------------------------------------------------------
(* Plots that a statement does not touch *)

\* The record a request writes is of its own kind and booking, before and after.
LEMMA OwnRecord ==
  ASSUME FormInv, RecordInv, NEW w \in Workers, Statement(w) \/ Die(w),
         NEW r \in Records, record'[r] # record[r]
  PROVE  /\ job[w].op \in Settling /\ r = job[w].rec
         /\ record[r] = NoRecord \/ (record[r].kind = job[w].op /\ record[r].bk = job[w].bk)
         /\ record'[r].kind = job[w].op /\ record'[r].bk = job[w].bk
<1>1. job[w].op \in Settling /\ r = job[w].rec
  BY StatementEffects DEF Effects
<1>2. record[r] \in Record /\ Filed(job[w])
  BY DEF FormInv, TypeOK, RecordInv
<1>3. record[r] = NoRecord \/ (record[r].kind = job[w].op /\ record[r].bk = job[w].bk)
  BY <1>1, <1>2 DEF Filed, Settling
<1>4. CreateRecord(w) \/ CompleteRecord(w) \/ FailRecord(w)
  BY DEF Statement, Die, tables, PlotUpdateRead, PlotUpdateWrite, InsertBooking, AwaitApproval,
     AutoApprove, ConfirmBooking, CreatePlan, CreateInstallment, VoidInstallment,
     MarkCancelled, RegisterInvoice, MergeRead, MergeWrite, WriteAudit, StepFails, LandPayment,
     CompletePayment, RollbackPayment
<1>5. CASE CreateRecord(w)
  BY <1>1, <1>3, <1>5 DEF CreateRecord, FormInv, TypeOK
<1>6. CASE CompleteRecord(w) \/ FailRecord(w)
  <2>1. job[w].pc # "record"
    BY <1>6 DEF CompleteRecord, FailRecord
  <2>2. record[r].kind = job[w].op /\ record[r].bk = job[w].bk
    BY <1>1, <1>2, <2>1 DEF Filed, Settling
  <2>3. PICK s : record' = [record EXCEPT ![r].status = s]
    BY <1>1, <1>6 DEF CompleteRecord, FailRecord, SetRecord
  <2>4. record'[r] = [record[r] EXCEPT !.status = s]
    BY <2>3 DEF FormInv, TypeOK
  <2>. QED
    BY <1>1, <1>2, <2>2, <2>4 DEF Record
<1>. QED
  BY <1>1, <1>3, <1>4, <1>5, <1>6

\* The buybacks of a booking change only by its own buyback.
LEMMA SettledElsewhere ==
  ASSUME FormInv, RecordInv, NEW w \in Workers, Statement(w) \/ Die(w),
         NEW b \in Bookings, ~(job[w].op = "buyback" /\ b = job[w].bk)
  PROVE  Standing(b)' = Standing(b) /\ (BoughtBack(b)' <=> BoughtBack(b))
<1>1. ASSUME NEW r \in Records, record'[r] # record[r]
      PROVE  /\ ~(record[r].kind = "buyback" /\ record[r].bk = b)
             /\ ~(record'[r].kind = "buyback" /\ record'[r].bk = b)
  <2>1. /\ record[r] = NoRecord \/ (record[r].kind = job[w].op /\ record[r].bk = job[w].bk)
        /\ record'[r].kind = job[w].op /\ record'[r].bk = job[w].bk
    BY <1>1, OwnRecord
  <2>. QED
    BY <2>1 DEF NoRecord
<1>. QED
  BY <1>1 DEF Standing, BoughtBack

\* Nothing that Estate(p) speaks of changes, except that requests elsewhere move.
Untouched(p) ==
  /\ plotStatus'[p] = plotStatus[p]
  /\ upset[p] \subseteq upset'[p]
  /\ \A b \in Bookings : bkPlot'[b] = p =>
       /\ bkPlot[b] = p /\ bkStatus'[b] = bkStatus[b] /\ plans'[b] = plans[b]
       /\ Standing(b)' = Standing(b) /\ (BoughtBack(b)' <=> BoughtBack(b))
       /\ \A x \in Row : x[1] = b => row'[x] = row[x]
  /\ \A v \in Workers :
       /\ p \in job'[v].held <=> p \in job[v].held
       /\ p \in job[v].held => job'[v] = job[v]
       /\ job'[v].op \in {"pay", "cancel"} /\ job'[v].plot = p => job'[v] = job[v]

LEMMA UntouchedEstate ==
  ASSUME FormInv, FormInv', [Next]_vars, RowsInv, NEW p \in Plots, Untouched(p), Estate(p)
  PROVE  Estate(p)'
<1>. SUFFICES ASSUME Unlapped(p)' PROVE Estate(p)'
  BY DEF Estate
<1>1. /\ Unlapped(p) /\ (Quiet(p)' => Quiet(p))
  BY DEF Untouched, Unlapped, Quiet
<1>2. /\ plotStatus[p] = "Merged" => Live(p) = {}
      /\ \A w \in Workers : p \in job[w].held => Tale(w, p)
      /\ \A b \in Bookings : bkPlot[b] = p => Sold(b, p)
      /\ \A w \in Workers : job[w].op = "pay" /\ job[w].plot = p =>
           /\ \A x \in job[w].rows : bkStatus[x[1]] = "Cancelled" => BoughtBack(x[1])
           /\ \A v \in Workers : job[v].plot = p => job[v].op # "cancel"
  BY <1>1 DEF Estate
<1>3. Live(p)' \subseteq Live(p)
  BY DEF Untouched, Live
<1>4. ASSUME NEW w \in Workers, p \in job'[w].held PROVE Tale(w, p)'
  <2>. DEFINE j == job[w]
  <2>1. j' = j /\ Tale(w, p) /\ j \in Job /\ ShapeOf(j) /\ BookingOf(j)
    BY <1>2, <1>4, Own DEF Untouched
  <2>2. j.op \in BookingOps /\ j.pc # "insert" =>
          /\ j.bk \in Bookings /\ bkPlot'[j.bk] = p
    <3>1. j.op \in BookingOps => j.bk \in Bookings /\ j.plot = p /\ job'[w].plot = p
      BY <1>4, <2>1 DEF ShapeOf
    <3>. QED
      BY <2>1, <3>1, BookingStays DEF BookingOf
  <2>3. /\ j.pc \in {"plan", "rows"} => j.op = "approve"
        /\ j.op \in {"approve", "reject", "cancel"} => j.pc # "insert"
        /\ j.pc \in {"record", "mark"} => j.pc # "insert"
    BY <2>1, OpOfPc
  <2>4. /\ bkStatus'[j.bk] = bkStatus[j.bk] /\ plans'[j.bk] = plans[j.bk]
        /\ Standing(j.bk)' = Standing(j.bk)
        /\ \A x \in Row : x[1] = j.bk => row'[x] = row[x]
        \/ ~(j.op \in BookingOps /\ j.pc # "insert")
    BY <2>1, <2>2 DEF Untouched
  <2>5. j.pc = "rows" => \A x \in PlanRows(j.bk, w) : x \in Row /\ x[1] = j.bk
    BY <2>1, <2>2, <2>3 DEF PlanRows, Row, BookingOps
  <2>6. CASE j.op \in BookingOps /\ j.pc # "insert"
    <3>1. /\ bkStatus'[j.bk] = bkStatus[j.bk] /\ plans'[j.bk] = plans[j.bk]
          /\ Standing(j.bk)' = Standing(j.bk)
          /\ \A x \in Row : x[1] = j.bk => row'[x] = row[x]
      BY <2>4, <2>6
    <3>. QED
      BY <1>3, <2>1, <2>3, <2>5, <2>6, <3>1 DEF Tale, BookingOps
  <2>7. CASE ~(j.op \in BookingOps /\ j.pc # "insert")
    BY <1>3, <2>1, <2>3, <2>7, OpOfPc DEF Tale, BookingOps, Untouched
  <2>. QED
    BY <2>6, <2>7
<1>5. ASSUME NEW b \in Bookings, bkPlot'[b] = p PROVE Sold(b, p)'
  <2>1. Sold(b, p) /\ plans[b] \subseteq Workers
    BY <1>2, <1>5 DEF Untouched, FormInv, TypeOK
  <2>2. /\ bkStatus'[b] = bkStatus[b] /\ plans'[b] = plans[b]
        /\ Standing(b)' = Standing(b) /\ (BoughtBack(b)' <=> BoughtBack(b))
        /\ \A x \in Row : x[1] = b => row'[x] = row[x]
    BY <1>5 DEF Untouched
  <2>3. Owes(b)' => Owes(b)
    BY <2>2 DEF Owes
  <2>4. Planned(b) => Planned(b)'
    <3>1. \A w \in Workers : PlanRows(b, w) \subseteq Row /\ \A x \in PlanRows(b, w) : x[1] = b
      BY DEF PlanRows, Row
    <3>. QED
      BY <2>2, <3>1 DEF Planned, PlanRows
  <2>5. (\A w \in Workers : p \in job'[w].held => job'[w].op \notin {"approve", "cancel"}) =>
          \A w \in Workers : p \in job[w].held => job[w].op \notin {"approve", "cancel"}
    BY DEF Untouched
  <2>. QED
    BY <1>1, <2>1, <2>2, <2>3, <2>4, <2>5 DEF Sold
<1>6. ASSUME NEW w \in Workers, job'[w].op = "pay", job'[w].plot = p
      PROVE  /\ \A x \in job'[w].rows : bkStatus'[x[1]] = "Cancelled" => BoughtBack(x[1])'
             /\ \A v \in Workers : job'[v].plot = p => job'[v].op # "cancel"
  <2>1. job'[w] = job[w] /\ job[w].rows \subseteq Row
    BY <1>6, Own DEF Untouched, Job
  <2>2. \A x \in job[w].rows : x[1] \in Bookings /\ bkPlot'[x[1]] = p
    <3>1. \A x \in job[w].rows : x \in Row /\ row[x] # "none" /\ bkPlot[x[1]] = p
      BY <1>6, <2>1 DEF RowsInv
    <3>2. \A x \in job[w].rows : x[1] \in Bookings /\ bkStatus[x[1]] # "none"
      BY <3>1 DEF RowsInv, Row
    <3>. QED
      BY <3>1, <3>2, BookingStays
  <2>. QED
    BY <1>2, <1>6, <2>1, <2>2 DEF Untouched
<1>. QED
  BY <1>2, <1>3, <1>4, <1>5, <1>6 DEF Estate, Untouched

\* A statement leaves the plots alone that its request does not work on.
LEMMA ElsewhereEstate ==
  ASSUME DeskInv, FormInv', [Next]_vars, RecordInv, RowsInv, NEW w \in Workers,
         Statement(w) \/ Die(w), NEW p \in Plots, p \notin job[w].held,
         ~(job[w].op = "pay" /\ job[w].plot = p), Estate(p)
  PROVE  Estate(p)'
<1>1. FormInv /\ Effects(w)
  BY StatementEffects DEF DeskInv
<1>2. job[w] \in Job /\ ShapeOf(job[w]) /\ BookingOf(job[w])
  BY <1>1, Own
<1>3. job[w].op \in BookingOps \cup {"cancel"} => job[w].plot # p
  BY <1>2 DEF ShapeOf, BookingOps
<1>4. ASSUME NEW b \in Bookings, bkPlot'[b] = p
      PROVE  /\ bkPlot[b] = p /\ bkStatus'[b] = bkStatus[b] /\ plans'[b] = plans[b]
             /\ Standing(b)' = Standing(b) /\ (BoughtBack(b)' <=> BoughtBack(b))
             /\ \A x \in Row : x[1] = b => row'[x] = row[x]
  <2>1. bkPlot[b] = p /\ bkStatus'[b] = bkStatus[b] /\ plans'[b] = plans[b]
    BY <1>1, <1>3, <1>4 DEF Effects
  <2>2. ~(job[w].op = "buyback" /\ b = job[w].bk)
    BY <1>2, <1>3, <2>1, OpOfPc DEF BookingOf, BookingOps
  <2>3. ASSUME NEW x \in Row, x[1] = b, row'[x] # row[x] PROVE FALSE
    <3>1. x \in job[w].rows /\ (job[w].op = "approve" => job[w].pc = "rows")
      BY <1>1, <2>3 DEF Effects
    <3>2. job[w].op \in {"approve", "cancel", "pay"}
      BY <3>1 DEF RowsInv
    <3>3. CASE job[w].op = "approve"
      <4>1. b = job[w].bk
        BY <2>3, <3>1, <3>3 DEF RowsInv, PlanRows
      <4>. QED
        BY <1>2, <1>3, <2>1, <3>1, <3>3, <4>1 DEF BookingOf, BookingOps
    <3>4. CASE job[w].op \in {"cancel", "pay"}
      BY <1>3, <2>1, <2>3, <3>1, <3>4 DEF RowsInv
    <3>. QED
      BY <3>2, <3>3, <3>4
  <2>. QED
    BY <1>1, <2>1, <2>2, <2>3, SettledElsewhere
<1>5. ASSUME NEW v \in Workers
      PROVE  /\ p \in job'[v].held <=> p \in job[v].held
             /\ p \in job[v].held => job'[v] = job[v]
             /\ job'[v].op \in {"pay", "cancel"} /\ job'[v].plot = p => job'[v] = job[v]
  BY <1>1, <1>3 DEF Effects
<1>6. Untouched(p)
  BY <1>1, <1>4, <1>5 DEF Untouched, Effects
<1>. QED
  BY <1>1, <1>6, UntouchedEstate

\* A plot is added or removed.
LEMMA AddedEstate ==
  ASSUME FormInv, FormInv', [Next]_vars, RowsInv, NEW q \in Plots, AddPlot(q) \/ RemovePlot(q),
         NEW p \in Plots, Estate(p)
  PROVE  Estate(p)'
<1>1. /\ UNCHANGED <<bkStatus, bkPlot, bkMember, plans, row, record, job, upset>>
      /\ plotStatus'[p] = plotStatus[p] \/ plotStatus'[p] \in {"Available", "Deleted"}
  BY DEF AddPlot, RemovePlot, FormInv, TypeOK
<1>2. Live(p)' = Live(p) /\ (Unlapped(p)' <=> Unlapped(p)) /\ (Quiet(p)' <=> Quiet(p))
  BY <1>1 DEF Live, Unlapped, Quiet
<1>3. \A w \in Workers : Tale(w, p) => Tale(w, p)'
  BY <1>1, <1>2 DEF Tale, Standing
<1>4. \A b \in Bookings : Sold(b, p) => Sold(b, p)'
  BY <1>1, <1>2 DEF Sold, Standing, BoughtBack, Owes, Planned
<1>. QED
  BY <1>1, <1>2, <1>3, <1>4 DEF Estate, BoughtBack

-----------------------------------------------------------------------------
(* A request begins *)

\* What a request has found fits the bookings of the plots it holds.
LEMMA AskedTale ==
  ASSUME FormInv, RowsInv, NEW w \in Workers, NEW j, Asked(j), job'[w] = j, UNCHANGED tables,
         NEW p \in j.held, p \in Plots, \A b \in Bookings : bkPlot[b] = p => Sold(b, p)
  PROVE  Tale(w, p)'
<1>1. CASE j.op = "create" \/ j.op \in {"edit", "advance"} \/ j.op = "merge"
  BY <1>1 DEF Asked, Tale, tables, Live
<1>2. CASE j.op \in {"approve", "reject"}
  BY <1>2 DEF Asked, Tale, tables
<1>3. CASE j.op = "buyback"
  <2>1. Standing(j.bk) = {} /\ j.pc = "record" /\ j.bk \in Bookings
    BY <1>3 DEF Asked
  <2>. QED
    BY <1>3, <2>1 DEF Tale, tables, Standing
<1>4. CASE j.op = "cancel"
  <2>1. /\ j.pc = "mark" /\ j.bk \in Bookings /\ bkPlot[j.bk] = p /\ bkStatus[j.bk] \in Active
        /\ j.rows \in ToVoid(j.bk) /\ Sold(j.bk, p)
    BY <1>4 DEF Asked
  <2>2. ASSUME NEW x \in Row, x[1] = j.bk, row[x] = "due" PROVE x \in j.rows
    <3>1. x[2] \in plans[j.bk] /\ x = <<j.bk, x[2], x[3]>> /\ x[3] \in Installments
      BY <2>2 DEF RowsInv, Row
    <3>2. bkStatus[j.bk] = "Confirmed"
      BY <2>1, <3>1 DEF Sold, Active
    <3>3. PICK y \in plans[j.bk] : j.rows = Unpaid(PlanRows(j.bk, y))
      BY <2>1, <3>1, <3>2 DEF ToVoid
    <3>4. y = x[2]
      BY <2>1, <3>1, <3>3, <2>2 DEF Sold, FormInv, TypeOK
    <3>. QED
      BY <2>2, <3>1, <3>3, <3>4 DEF Unpaid, PlanRows
  <2>. QED
    BY <1>4, <2>1, <2>2 DEF Tale, tables
<1>5. CASE j.op = "pay"
  BY <1>5 DEF Asked
<1>. QED
  BY <1>1, <1>2, <1>3, <1>4, <1>5 DEF Asked

LEMMA BeginEstate ==
  ASSUME FormInv, FormInv', RowsInv, NEW w \in Workers, Request(w), NEW p \in Plots, Estate(p)
  PROVE  Estate(p)'
<1>. SUFFICES ASSUME Unlapped(p)' PROVE Estate(p)'
  BY DEF Estate
<1>1. PICK j : Begin(w, j) /\ Asked(j)
  BY Asks
<1>2. UNCHANGED tables /\ job'[w] = j /\ \A v \in Workers \ {w} : job'[v] = job[v]
  BY <1>1, Asks, Started
<1>3. /\ \A v \in Workers : ~Clash(j, job[v], p)
      /\ upset'[p] = upset[p] /\ job[w].held = {} /\ job[w].op = "idle"
  BY <1>1, Started
<1>4. /\ plotStatus[p] = "Merged" => Live(p) = {}
      /\ \A v \in Workers : p \in job[v].held => Tale(v, p)
      /\ \A b \in Bookings : bkPlot[b] = p => Sold(b, p)
      /\ \A v \in Workers : job[v].op = "pay" /\ job[v].plot = p =>
           /\ \A x \in job[v].rows : bkStatus[x[1]] = "Cancelled" => BoughtBack(x[1])
           /\ \A u \in Workers : job[u].plot = p => job[u].op # "cancel"
  BY <1>3 DEF Estate, Unlapped
<1>5. ASSUME NEW v \in Workers, p \in job'[v].held PROVE Tale(v, p)'
  <2>1. CASE v = w
    BY <1>1, <1>2, <1>4, <1>5, <2>1, AskedTale
  <2>2. CASE v # w
    <3>1. Tale(v, p) /\ job'[v] = job[v]
      BY <1>2, <1>4, <1>5, <2>2
    <3>. QED
      BY <1>2, <3>1 DEF Tale, tables, Live, Standing
  <2>. QED
    BY <2>1, <2>2
<1>6. ASSUME NEW b \in Bookings, bkPlot'[b] = p PROVE Sold(b, p)'
  <2>1. Sold(b, p)
    BY <1>2, <1>4, <1>6 DEF tables
  <2>2. /\ Standing(b)' = Standing(b) /\ (BoughtBack(b)' <=> BoughtBack(b))
        /\ (Owes(b)' <=> Owes(b)) /\ (Planned(b)' <=> Planned(b))
    BY <1>2 DEF Standing, BoughtBack, Owes, Planned, tables
  <2>3. (\A v \in Workers : p \in job'[v].held => job'[v].op \notin {"approve", "cancel"}) =>
          \A v \in Workers : p \in job[v].held => job[v].op \notin {"approve", "cancel"}
    BY <1>2, <1>3
  <2>. QED
    BY <1>2, <1>3, <2>1, <2>2, <2>3 DEF Sold, tables, Quiet
<1>7. ASSUME NEW v \in Workers, job'[v].op = "pay", job'[v].plot = p
      PROVE  /\ \A x \in job'[v].rows : bkStatus'[x[1]] = "Cancelled" => BoughtBack(x[1])'
             /\ \A u \in Workers : job'[u].plot = p => job'[u].op # "cancel"
  <2>1. \A u \in Workers : job'[u].plot = p => job'[u].op # "cancel"
    <3>1. ASSUME NEW u \in Workers, job'[u].plot = p, job'[u].op = "cancel" PROVE FALSE
      <4>1. CASE v = w
        BY <1>2, <1>3, <1>7, <3>1, <4>1 DEF Clash
      <4>2. CASE u = w
        BY <1>2, <1>3, <1>7, <3>1, <4>2 DEF Clash
      <4>3. CASE v # w /\ u # w
        BY <1>2, <1>4, <1>7, <3>1, <4>3
      <4>. QED
        BY <4>1, <4>2, <4>3
    <3>. QED
      BY <3>1
  <2>2. ASSUME NEW x \in job'[v].rows, bkStatus[x[1]] = "Cancelled" PROVE BoughtBack(x[1])
    <3>1. CASE v = w
      <4>1. x \in Row /\ row[x] = "due" /\ bkPlot[x[1]] = p /\ x[1] \in Bookings
        BY <1>1, <1>2, <1>7, <2>2, <3>1 DEF Asked, Row
      <4>. QED
        BY <1>4, <2>2, <4>1 DEF Sold, Owes
    <3>2. CASE v # w
      BY <1>2, <1>4, <1>7, <2>2, <3>2
    <3>. QED
      BY <3>1, <3>2
  <2>. QED
    BY <1>2, <2>1, <2>2 DEF tables, BoughtBack
<1>8. plotStatus'[p] = "Merged" => Live(p)' = {}
  BY <1>2, <1>4 DEF tables, Live
<1>. QED
  BY <1>5, <1>6, <1>7, <1>8 DEF Estate

-----------------------------------------------------------------------------
(* The request that holds a plot executes its next statement *)

\* Worker w's request holds p, and no other does.
Holds(w, p) == p \in Plots /\ p \in job[w].held /\ Unlapped(p)

\* What is known of the only request on a plot.
LEMMA Holder ==
  ASSUME DeskInv, NEW w \in Workers, NEW p, Holds(w, p), Estate(p)
  PROVE  /\ job[w] \in Job /\ ShapeOf(job[w]) /\ BookingOf(job[w])
         /\ job[w].op \notin {"idle", "pay"}
         /\ job[w].op # "merge" => job[w].plot = p
         /\ job[w].op \in BookingOps => job[w].bk \in Bookings
         /\ job[w].op \in BookingOps /\ job[w].pc # "insert" =>
              bkStatus[job[w].bk] # "none" /\ bkPlot[job[w].bk] = p
         /\ \A v \in Workers : p \in job[v].held => v = w
         /\ Quiet(p) => Story(job[w], p) /\ OneBuyer(p)
         /\ plotStatus[p] = "Merged" => Live(p) = {}
         /\ Tale(w, p)
         /\ \A b \in Bookings : bkPlot[b] = p => Sold(b, p)
         /\ \A v \in Workers : job[v].op = "pay" /\ job[v].plot = p =>
              /\ \A x \in job[v].rows : bkStatus[x[1]] = "Cancelled" => BoughtBack(x[1])
              /\ \A u \in Workers : job[u].plot = p => job[u].op # "cancel"
<1>1. job[w] \in Job /\ ShapeOf(job[w]) /\ BookingOf(job[w])
  BY Own DEF DeskInv
<1>2. job[w].op \in Ops
  BY <1>1 DEF Job
<1>3. p \in Plots /\ p \in job[w].held /\ Unlapped(p)
  BY DEF Holds
<1>4. Alone(p) /\ PlotInv(p)
  BY <1>3 DEF DeskInv, TableInv, Unlapped
<1>5. job[w].op # "idle"
  BY <1>1, <1>3 DEF ShapeOf, NoJob
<1>6. /\ job[w].op # "pay"
      /\ job[w].op # "merge" => job[w].plot = p
      /\ job[w].op \in BookingOps => job[w].bk \in Bookings
  BY <1>1, <1>2, <1>3, <1>5 DEF ShapeOf, Ops, BookingOps
<1>7. Quiet(p) => Story(job[w], p) /\ OneBuyer(p)
  BY <1>3, <1>4 DEF PlotInv
<1>8. \A v \in Workers : p \in job[v].held => v = w
  BY <1>3, <1>4 DEF Alone
<1>9. job[w].op \in BookingOps /\ job[w].pc # "insert" =>
        bkStatus[job[w].bk] # "none" /\ bkPlot[job[w].bk] = p
  BY <1>1, <1>6 DEF BookingOf, BookingOps
<1>. QED
  BY <1>1, <1>3, <1>5, <1>6, <1>7, <1>8, <1>9 DEF Estate

LEMMA HolderEstate ==
  ASSUME DeskInv, NEW w \in Workers, Effects(w), NEW p, Holds(w, p), Estate(p),
         plotStatus'[p] = "Merged" => Live(p)' = {},
         p \in job'[w].held => Tale(w, p)',
         \A b \in Bookings : bkPlot'[b] = p => Sold(b, p)',
         \A v \in Workers \ {w} : job[v].op = "pay" /\ job[v].plot = p =>
           \A x \in job[v].rows : bkStatus'[x[1]] = "Cancelled" => BoughtBack(x[1])'
  PROVE  Estate(p)'
<1>1. /\ \A v \in Workers \ {w} : job'[v] = job[v]
      /\ job'[w].op \in {"pay", "cancel"} => job'[w].op = job[w].op /\ job'[w].plot = job[w].plot
  BY DEF Effects
<1>2. ASSUME NEW v \in Workers, p \in job'[v].held PROVE Tale(v, p)'
  BY <1>1, <1>2, Holder
<1>3. ASSUME NEW v \in Workers, job'[v].op = "pay", job'[v].plot = p
      PROVE  /\ \A x \in job'[v].rows : bkStatus'[x[1]] = "Cancelled" => BoughtBack(x[1])'
             /\ \A u \in Workers : job'[u].plot = p => job'[u].op # "cancel"
  <2>1. v # w /\ job'[v] = job[v]
    BY <1>1, <1>3, Holder
  <2>2. \A u \in Workers : job[u].plot = p => job[u].op # "cancel"
    BY <1>3, <2>1, Holder
  <2>. QED
    BY <1>1, <1>3, <2>1, <2>2
<1>. QED
  BY <1>2, <1>3 DEF Estate

\* The request writes the plot at most.
LEMMA PlotWorkEstate ==
  ASSUME DeskInv, NEW w \in Workers, Effects(w), NEW p, Holds(w, p), Estate(p),
         UNCHANGED <<bkStatus, bkPlot, plans, row, record>>,
         plotStatus'[p] = "Merged" => Live(p) = {},
         p \in job'[w].held => Tale(w, p)',
         \/ job[w].op \notin {"approve", "cancel"}
         \/ p \in job'[w].held /\ job'[w].op = job[w].op
         \/ ~Quiet(p)'
         \/ Quiet(p) => \A b \in Live(p) : bkStatus[b] # "Confirmed"
  PROVE  Estate(p)'
<1>1. Quiet(p)' => Quiet(p)
  BY DEF Effects, Holds, Quiet
<1>2. Live(p)' = Live(p)
  BY DEF Live
<1>3. ASSUME NEW b \in Bookings, bkPlot'[b] = p PROVE Sold(b, p)'
  <2>1. Sold(b, p)
    BY <1>3, Holder
  <2>2. /\ Standing(b)' = Standing(b) /\ (BoughtBack(b)' <=> BoughtBack(b))
        /\ (Owes(b)' <=> Owes(b)) /\ (Planned(b)' <=> Planned(b))
    BY DEF Standing, BoughtBack, Owes, Planned
  <2>3. ASSUME Quiet(p)', bkStatus[b] = "Confirmed",
               \A v \in Workers : p \in job'[v].held => job'[v].op \notin {"approve", "cancel"}
        PROVE  Planned(b)
    <3>1. b \in Live(p)
      BY <1>3, <2>3 DEF Live, Active
    <3>2. job[w].op \notin {"approve", "cancel"}
      BY <1>1, <2>3, <3>1
    <3>3. \A v \in Workers : p \in job[v].held => job[v].op \notin {"approve", "cancel"}
      BY <3>2, Holder
    <3>. QED
      BY <1>1, <1>3, <2>1, <2>3, <3>3 DEF Sold
  <2>. QED
    BY <2>1, <2>2, <2>3 DEF Sold
<1>4. \A v \in Workers : job[v].op = "pay" /\ job[v].plot = p =>
        \A x \in job[v].rows : bkStatus'[x[1]] = "Cancelled" => BoughtBack(x[1])'
  BY Holder DEF BoughtBack
<1>. QED
  BY <1>2, <1>3, <1>4, HolderEstate

LEMMA ReadingEstate ==
  ASSUME DeskInv, NEW w \in Workers, NEW p, Holds(w, p), Estate(p),
         \/ PlotUpdateRead(w) \/ AwaitApproval(w) \/ AutoApprove(w) \/ RegisterInvoice(w)
         \/ MergeRead(w) \/ WriteAudit(w) \/ StepFails(w) \/ Die(w)
  PROVE  Estate(p)'
<1>1. FormInv /\ Effects(w) /\ UNCHANGED tables
  BY StatementEffects DEF DeskInv, Statement, PlotUpdateRead, AwaitApproval, AutoApprove,
     RegisterInvoice, MergeRead, WriteAudit, StepFails, Die
<1>2. /\ UNCHANGED <<bkStatus, bkPlot, plans, row, record>> /\ Live(p)' = Live(p)
      /\ plotStatus'[p] = "Merged" => Live(p) = {}
  BY <1>1, Holder DEF tables, Live
<1>3. CASE Finish(w) /\ ~PlotUpdateRead(w) /\ ~Die(w)
  <2>1. job[w].op \notin {"approve", "cancel"}
    BY <1>3, Holder, OpOfPc DEF AwaitApproval, AutoApprove, RegisterInvoice, MergeRead, WriteAudit,
       StepFails
  <2>. QED
    BY <1>1, <1>2, <1>3, <2>1, Ended, PlotWorkEstate
<1>4. CASE PlotUpdateRead(w)
  <2>1. job[w].op \in {"approve", "cancel"} /\ Quiet(p) =>
          \A b \in Live(p) : bkStatus[b] # "Confirmed"
    <3>1. job[w].pc = "plotRead"
      BY <1>4 DEF PlotUpdateRead
    <3>. QED
      BY <3>1, Holder DEF Story, Has, OneBuyer
  <2>2. CASE Finish(w)
    BY <1>1, <1>2, <2>1, <2>2, Ended, PlotWorkEstate
  <2>3. ASSUME NEW pc \in {"plotWrite", "fail"}, Goto(w, pc), pc = "fail" => job[w].op = "buyback"
        PROVE  Estate(p)'
    <3>1. job[w].op # "merge" /\ job[w].pc = "plotRead" /\ Tale(w, p)
      BY <1>4, Holder DEF PlotUpdateRead
    <3>2. Tale(w, p)'
      BY <1>1, <1>2, <2>3, <3>1, Went DEF Tale
    <3>. QED
      BY <1>1, <1>2, <2>1, <2>3, <3>2, Went, PlotWorkEstate
  <2>. QED
    BY <1>4, <2>2, <2>3 DEF PlotUpdateRead
<1>5. CASE AutoApprove(w) /\ ~Finish(w)
  <2>. DEFINE j == Plain("approve", "plotRead", job[w].plot, job[w].bk, "Allotted")
  <2>1. job'[w] = j /\ bkStatus[job[w].bk] = "Pending" /\ job[w].op = "create"
    BY <1>1, <1>5, Holder, OpOfPc DEF AutoApprove, FormInv, TypeOK
  <2>2. j.op = "approve" /\ j.pc = "plotRead" /\ j.bk = job[w].bk
    BY PlainIs
  <2>. HIDE DEF j
  <2>3. Tale(w, p)'
    BY <1>2, <2>1, <2>2 DEF Tale
  <2>. QED
    BY <1>1, <1>2, <2>1, <2>3, PlotWorkEstate
<1>6. CASE RegisterInvoice(w) \/ StepFails(w) \/ MergeRead(w)
  <2>1. job[w].op \in {"buyback", "merge"}
    BY <1>6, Holder, OpOfPc DEF RegisterInvoice, StepFails, MergeRead
  <2>2. job[w].op = "merge" => Live(p) = {}
    BY Holder DEF Tale
  <2>3. job'[w].op = job[w].op /\ job'[w].pc \in {"plotRead", "plotWrite", "fail"}
    <3>1. ASSUME NEW pc \in {"plotRead", "plotWrite", "fail"}, Goto(w, pc)
          PROVE  job'[w].op = job[w].op /\ job'[w].pc \in {"plotRead", "plotWrite", "fail"}
      BY <1>1, <3>1, Went
    <3>2. ASSUME NEW q, job' = [job EXCEPT ![w].pc = "plotWrite", ![w].plot = q]
          PROVE  job'[w].op = job[w].op /\ job'[w].pc = "plotWrite"
      BY <1>1, <3>2, Holder DEF FormInv, TypeOK, Job
    <3>. QED
      BY <1>6, <3>1, <3>2 DEF RegisterInvoice, StepFails, MergeRead
  <2>4. Tale(w, p)'
    BY <1>2, <2>1, <2>2, <2>3 DEF Tale
  <2>. QED
    BY <1>1, <1>2, <2>1, <2>4, PlotWorkEstate
<1>7. CASE Die(w)
  <2>1. Finish(w) /\ BreakOff(w)
    BY <1>7 DEF Die
  <2>2. CASE Halfway(job[w])
    <3>1. Upset(job[w].plot, "partial") /\ job[w].plot = p
      BY <2>1, <2>2, Holder DEF BreakOff, Halfway
    <3>2. ~Quiet(p)'
      BY <1>1, <3>1 DEF Upset, Quiet, Holds, FormInv, TypeOK
    <3>. QED
      BY <1>1, <1>2, <2>1, <3>2, Ended, PlotWorkEstate
  <2>3. CASE ~Halfway(job[w])
    <3>1. /\ job[w].op # "cancel"
          /\ job[w].op = "approve" => job[w].pc \in {"plotRead", "plotWrite"}
      BY <2>3, Holder DEF Halfway, ShapeOf
    <3>2. job[w].op \in {"approve", "cancel"} /\ Quiet(p) =>
            \A b \in Live(p) : bkStatus[b] # "Confirmed"
      BY <3>1, Holder DEF Story, Has, OneBuyer
    <3>. QED
      BY <1>1, <1>2, <2>1, <3>1, <3>2, Ended, PlotWorkEstate
  <2>. QED
    BY <2>2, <2>3
<1>8. WriteAudit(w) \/ AwaitApproval(w) =>
        (Finish(w) /\ ~PlotUpdateRead(w) /\ ~Die(w)) \/ Die(w)
  BY DEF WriteAudit, AwaitApproval, PlotUpdateRead
<1>. QED
  BY <1>3, <1>4, <1>5, <1>6, <1>7, <1>8

LEMMA WritingEstate ==
  ASSUME DeskInv, NEW w \in Workers, NEW p, Holds(w, p), Estate(p),
         PlotUpdateWrite(w) \/ MergeWrite(w)
  PROVE  Estate(p)'
<1>1. FormInv /\ Effects(w) /\ UNCHANGED <<bkStatus, bkPlot, plans, row, record>>
  BY StatementEffects DEF DeskInv, Statement, PlotUpdateWrite, MergeWrite
<1>2. Live(p)' = Live(p)
  BY <1>1 DEF Live
<1>3. CASE PlotUpdateWrite(w)
  <2>1. job[w].pc = "plotWrite" /\ job[w].op # "merge" /\ SetPlot(job[w].plot, job[w].target)
    BY <1>3 DEF PlotUpdateWrite
  <2>2. job[w].target # "Merged"
    BY <2>1, Holder, TargetsAssumption DEF ShapeOf, Job, Ops
  <2>3. plotStatus'[p] = "Merged" => Live(p) = {}
    BY <1>1, <2>1, <2>2, Holder DEF SetPlot, FormInv, TypeOK, Holds
  <2>4. job[w].op \in {"approve", "cancel"} /\ Quiet(p) =>
          \A b \in Live(p) : bkStatus[b] # "Confirmed"
    BY <2>1, Holder DEF Story, Has, OneBuyer
  <2>5. CASE Finish(w)
    BY <1>1, <2>3, <2>4, <2>5, Ended, PlotWorkEstate
  <2>6. CASE ~Finish(w)
    <3>1. PICK pc \in {"settings", "confirm", "mark"} :
            /\ Goto(w, pc)
            /\ pc = "mark" => job[w].op = "buyback"
            /\ pc = "confirm" => job[w].op = "approve"
            /\ pc = "settings" => job[w].op = "create"
      BY <1>3, <2>6 DEF PlotUpdateWrite, AfterPlotWrite
    <3>2. Tale(w, p)'
      BY <1>1, <2>1, <3>1, Holder, Went DEF Tale
    <3>. QED
      BY <1>1, <2>3, <2>4, <3>1, <3>2, Went, PlotWorkEstate
  <2>. QED
    BY <2>5, <2>6
<1>4. CASE MergeWrite(w)
  <2>1. job[w].op = "merge" /\ Live(p) = {}
    BY <1>4, Holder DEF MergeWrite, Tale
  <2>2. job'[w].op = "merge" /\ job'[w].pc \in {"complete", "plotRead"}
    BY <1>1, <1>4, Holder DEF MergeWrite, FormInv, TypeOK, Job
  <2>3. Tale(w, p)'
    BY <1>2, <2>1, <2>2 DEF Tale
  <2>. QED
    BY <1>1, <2>1, <2>3, PlotWorkEstate
<1>. QED
  BY <1>3, <1>4

LEMMA RecordingEstate ==
  ASSUME DeskInv, RecordInv, NEW w \in Workers, NEW p, Holds(w, p), Estate(p),
         CreateRecord(w) \/ CompleteRecord(w) \/ FailRecord(w)
  PROVE  Estate(p)'
<1>1. /\ FormInv /\ Effects(w)
      /\ UNCHANGED <<plotStatus, bkStatus, bkPlot, bkMember, plans, row, upset>>
  BY StatementEffects DEF DeskInv, Statement, CreateRecord, CompleteRecord, FailRecord
<1>2. job[w].op \in Settling
  BY <1>1, Own, OpOfPc DEF CreateRecord, CompleteRecord, FailRecord, Settling
<1>3. /\ Live(p)' = Live(p) /\ (Quiet(p)' <=> Quiet(p))
      /\ \A b \in Bookings : (Owes(b)' <=> Owes(b)) /\ (Planned(b)' <=> Planned(b))
  BY <1>1 DEF Live, Quiet, Owes, Planned
<1>4. \A r \in Records : record'[r].kind = "buyback" /\ record'[r] # record[r] =>
        job[w].op = "buyback" /\ record'[r].bk = job[w].bk
  BY <1>1, OwnRecord DEF Statement
<1>5. \A b \in Bookings : BoughtBack(b) => BoughtBack(b)'
  <2>1. ASSUME NEW r \in Records, record[r].kind = "buyback"
        PROVE  record'[r].kind = "buyback" /\ record'[r].bk = record[r].bk
    BY <1>1, <2>1, OwnRecord DEF Statement, NoRecord
  <2>. QED
    BY <2>1 DEF BoughtBack
<1>6. ASSUME NEW b \in Bookings, bkPlot[b] = p, NEW r \in Standing(b)', NEW s \in Standing(b)'
      PROVE  r = s
  <2>1. CASE CreateRecord(w) /\ job[w].op = "buyback" /\ b = job[w].bk
    <3>1. Standing(b) = {}
      BY <2>1, Holder DEF CreateRecord, Tale
    <3>2. \A q \in Records : record'[q] = record[q] \/ q = job[w].rec
      BY <1>1 DEF Effects
    <3>. QED
      BY <3>1, <3>2 DEF Standing
  <2>2. CASE ~(CreateRecord(w) /\ job[w].op = "buyback" /\ b = job[w].bk)
    <3>1. ASSUME NEW q \in Standing(b)', q \notin Standing(b) PROVE FALSE
      <4>1. q \in Records /\ record'[q] # record[q] /\ record'[q].kind = "buyback"
            /\ record'[q].bk = b
        BY <3>1 DEF Standing
      <4>2. /\ job[w].op = "buyback" /\ b = job[w].bk /\ q = job[w].rec
            /\ record[q] = NoRecord \/ (record[q].kind = "buyback" /\ record[q].bk = b)
        BY <1>1, <4>1, OwnRecord DEF Statement
      <4>3. job[w].pc \in {"complete", "fail"}
        BY <2>2, <4>2 DEF CompleteRecord, FailRecord
      <4>4. record[q].kind = "buyback" /\ record[q].status \in {"Pending", "Completed"}
        BY <4>2, <4>3 DEF RecordInv, Filed
      <4>. QED
        BY <3>1, <4>1, <4>2, <4>4 DEF Standing, NoRecord
    <3>. QED
      BY <1>6, <3>1, Holder DEF Sold
  <2>. QED
    BY <2>1, <2>2
<1>7. ASSUME NEW b \in Bookings, bkPlot'[b] = p PROVE Sold(b, p)'
  <2>1. Sold(b, p)
    BY <1>1, <1>7, Holder
  <2>2. \A v \in Workers : p \in job[v].held => job[v].op \notin {"approve", "cancel"}
    BY <1>2, Holder DEF Settling
  <2>3. \A r, s \in Standing(b)' : r = s
    BY <1>1, <1>6, <1>7
  <2>. QED
    BY <1>1, <1>3, <1>5, <2>1, <2>2, <2>3 DEF Sold
<1>8. p \in job'[w].held => Tale(w, p)'
  <2>1. CASE Finish(w)
    BY <1>1, <2>1, Ended
  <2>2. ASSUME NEW pc \in {"invoice", "audit"}, Goto(w, pc) PROVE Tale(w, p)'
    <3>1. job'[w].op = job[w].op /\ job'[w].pc = pc /\ (job[w].op = "merge" => Live(p) = {})
      BY <1>1, <2>2, Went, Holder DEF Tale
    <3>. QED
      BY <1>2, <1>3, <2>2, <3>1 DEF Tale, Settling
  <2>. QED
    BY <2>1, <2>2 DEF CreateRecord, CompleteRecord, FailRecord
<1>9. ASSUME NEW v \in Workers, job[v].op = "pay", job[v].plot = p, NEW x \in job[v].rows,
             bkStatus'[x[1]] = "Cancelled"
      PROVE  BoughtBack(x[1])'
  <2>1. BoughtBack(x[1]) /\ x \in Row
    BY <1>1, <1>9, Holder, Own DEF Job
  <2>. QED
    BY <1>5, <2>1 DEF Row
<1>. QED
  BY <1>1, <1>3, <1>7, <1>8, <1>9, Holder, HolderEstate

LEMMA InsertEstate ==
  ASSUME DeskInv, RecordInv, RowsInv, NEW w \in Workers, NEW p, Holds(w, p), Estate(p),
         InsertBooking(w)
  PROVE  Estate(p)'
<1>. DEFINE b == job[w].bk
<1>1. /\ FormInv /\ Effects(w) /\ UNCHANGED <<plotStatus, plans, row, record, upset>>
      /\ job[w].pc = "insert"
  BY StatementEffects DEF DeskInv, Statement, InsertBooking
<1>2. /\ job[w].op = "create" /\ job[w].plot = p /\ b \in Bookings /\ bkStatus[b] = "none"
      /\ plotStatus[p] # "Merged"
  BY <1>1, Holder, OpOfPc DEF BookingOf, BookingOps, Tale
<1>3. CASE UNCHANGED <<bkStatus, bkPlot>> /\ Finish(w)
  BY <1>1, <1>2, <1>3, Ended, PlotWorkEstate
<1>4. CASE Goto(w, "plotRead") /\ bkStatus' = [bkStatus EXCEPT ![b] = "Pending"]
           /\ bkPlot' = [bkPlot EXCEPT ![b] = p]
  <2>1. /\ bkStatus'[b] = "Pending" /\ bkPlot'[b] = p
        /\ \A c \in Bookings \ {b} : bkStatus'[c] = bkStatus[c] /\ bkPlot'[c] = bkPlot[c]
    BY <1>1, <1>2, <1>4 DEF FormInv, TypeOK
  <2>2. /\ Quiet(p)' <=> Quiet(p)
        /\ \A c \in Bookings : /\ Standing(c)' = Standing(c) /\ (BoughtBack(c)' <=> BoughtBack(c))
                               /\ (Owes(c)' <=> Owes(c)) /\ (Planned(c)' <=> Planned(c))
    BY <1>1 DEF Quiet, Standing, BoughtBack, Owes, Planned
  <2>3. Standing(b) = {} /\ plans[b] = {}
    BY <1>2 DEF Standing, RecordInv, RowsInv
  <2>4. ASSUME NEW c \in Bookings, bkPlot'[c] = p PROVE Sold(c, p)'
    <3>1. CASE c = b
      BY <1>1, <2>1, <2>2, <2>3, <3>1 DEF Sold
    <3>2. CASE c # b
      <4>1. Sold(c, p) /\ \A v \in Workers : p \in job[v].held => job[v].op \notin {"approve", "cancel"}
        BY <1>2, <2>1, <2>4, <3>2, Holder
      <4>. QED
        BY <1>1, <2>1, <2>2, <3>2, <4>1 DEF Sold
    <3>. QED
      BY <3>1, <3>2
  <2>5. Tale(w, p)'
    BY <1>1, <1>2, <1>4, Went DEF Tale
  <2>6. ASSUME NEW v \in Workers, job[v].op = "pay", job[v].plot = p, NEW x \in job[v].rows,
               bkStatus'[x[1]] = "Cancelled"
        PROVE  BoughtBack(x[1])'
    <3>1. x[1] \in Bookings
      BY <1>1, <2>6, Own DEF Job, Row
    <3>2. bkStatus[x[1]] = "Cancelled"
      BY <2>1, <2>6, <3>1
    <3>. QED
      BY <2>2, <2>6, <3>1, <3>2, Holder
  <2>. QED
    BY <1>1, <1>2, <2>4, <2>5, <2>6, HolderEstate
<1>. QED
  BY <1>1, <1>2, <1>3, <1>4 DEF InsertBooking

LEMMA ConfirmEstate ==
  ASSUME DeskInv, NEW w \in Workers, NEW p, Holds(w, p), Estate(p), ConfirmBooking(w)
  PROVE  Estate(p)'
<1>. DEFINE b == job[w].bk
<1>1. /\ FormInv /\ Effects(w) /\ UNCHANGED <<plotStatus, bkPlot, plans, row, record, upset>>
      /\ job[w].pc = "confirm" /\ Goto(w, "plan")
      /\ bkStatus' = [bkStatus EXCEPT ![b] = "Confirmed"]
  BY StatementEffects DEF DeskInv, Statement, ConfirmBooking
<1>2. /\ job[w].op = "approve" /\ b \in Bookings /\ bkPlot[b] = p
      /\ bkStatus[b] = "Pending"
  BY <1>1, Holder, OpOfPc DEF BookingOps, Tale
<1>3. /\ bkStatus'[b] = "Confirmed"
      /\ \A c \in Bookings \ {b} : bkStatus'[c] = bkStatus[c]
  BY <1>1, <1>2 DEF FormInv, TypeOK
<1>4. Sold(b, p) /\ plans[b] = {}
  BY <1>2, Holder DEF Sold
<1>5. \A c \in Bookings : /\ Standing(c)' = Standing(c) /\ (BoughtBack(c)' <=> BoughtBack(c))
                          /\ (Owes(c)' <=> Owes(c))
  BY <1>1 DEF Standing, BoughtBack, Owes
<1>6. job'[w].op = "approve" /\ job'[w].held = job[w].held /\ job'[w].pc = "plan" /\ job'[w].bk = b
  BY <1>1, <1>2, Went
<1>7. ASSUME NEW c \in Bookings, bkPlot'[c] = p PROVE Sold(c, p)'
  <2>1. Sold(c, p)
    BY <1>1, <1>7, Holder
  <2>. QED
    BY <1>1, <1>3, <1>4, <1>5, <1>6, <2>1 DEF Sold, Holds
<1>8. Tale(w, p)'
  BY <1>1, <1>3, <1>4, <1>6 DEF Tale
<1>9. plotStatus[p] # "Merged"
  <2>1. b \in Live(p)
    BY <1>2 DEF Live, Active
  <2>. QED
    BY <2>1, Holder
<1>10. ASSUME NEW v \in Workers, job[v].op = "pay", job[v].plot = p, NEW x \in job[v].rows,
              bkStatus'[x[1]] = "Cancelled"
       PROVE  BoughtBack(x[1])'
  <2>1. x[1] \in Bookings
    BY <1>1, <1>10, Own DEF Job, Row
  <2>2. bkStatus[x[1]] = "Cancelled"
    BY <1>3, <1>10, <2>1
  <2>. QED
    BY <1>5, <1>10, <2>1, <2>2, Holder
<1>. QED
  BY <1>1, <1>7, <1>8, <1>9, <1>10, HolderEstate

LEMMA PlanningEstate ==
  ASSUME DeskInv, RowsInv, NEW w \in Workers, NEW p, Holds(w, p), Estate(p),
         CreatePlan(w) \/ CreateInstallment(w)
  PROVE  Estate(p)'
<1>0. PICK b : b = job[w].bk
  OBVIOUS
<1>1. /\ FormInv /\ Effects(w) /\ UNCHANGED <<plotStatus, bkStatus, bkPlot, record, upset>>
      /\ job[w].pc \in {"plan", "rows"}
  BY StatementEffects DEF DeskInv, Statement, CreatePlan, CreateInstallment
<1>2. /\ job[w].op = "approve" /\ b \in Bookings /\ bkPlot[b] = p
      /\ bkStatus[b] = "Confirmed"
  BY <1>0, <1>1, Holder, OpOfPc DEF BookingOps, Tale
<1>3. /\ Live(p)' = Live(p) /\ (Quiet(p)' <=> Quiet(p))
      /\ \A c \in Bookings : Standing(c)' = Standing(c) /\ (BoughtBack(c)' <=> BoughtBack(c))
  BY <1>1 DEF Live, Quiet, Standing, BoughtBack
<1>4. \A v \in Workers : job[v].op = "pay" /\ job[v].plot = p =>
        \A x \in job[v].rows : bkStatus'[x[1]] = "Cancelled" => BoughtBack(x[1])'
  BY <1>1, Holder DEF BoughtBack
<1>5. ASSUME NEW rs, NEW pl, plans'[b] = pl,
             \A c \in Bookings \ {b} : plans'[c] = plans[c],
             \A u, v \in pl : u = v,
             \A x \in Row : x[1] # b => row'[x] = row[x],
             p \in job'[w].held => job'[w].op = "approve" /\ Tale(w, p)',
             p \notin job'[w].held => Planned(b)'
      PROVE  Estate(p)'
  <2>1. ASSUME NEW c \in Bookings, bkPlot'[c] = p PROVE Sold(c, p)'
    <3>1. Sold(c, p)
      BY <1>1, <2>1, Holder
    <3>2. CASE c = b
      BY <1>1, <1>2, <1>3, <1>5, <3>1, <3>2 DEF Sold, Holds
    <3>3. CASE c # b
      <4>1. (Owes(c)' <=> Owes(c)) /\ plans'[c] = plans[c]
        BY <1>5, <3>3 DEF Owes
      <4>2. Quiet(p) /\ bkStatus[c] = "Confirmed" => FALSE
        <5>1. b \in Live(p) /\ (bkStatus[c] = "Confirmed" => c \in Live(p))
          BY <1>1, <1>2, <2>1 DEF Live, Active
        <5>. QED
          BY <3>3, <5>1, Holder DEF OneBuyer
      <4>. QED
        BY <1>1, <1>3, <3>1, <4>1, <4>2 DEF Sold
    <3>. QED
      BY <3>2, <3>3
  <2>. QED
    BY <1>1, <1>3, <1>4, <1>5, <2>1, Holder, HolderEstate
<1>6. CASE CreatePlan(w)
  <2>1. job[w].pc = "plan" /\ plans[b] = {}
    BY <1>0, <1>6, Holder DEF CreatePlan, Tale
  <2>2. /\ plans'[b] = {w} /\ \A c \in Bookings \ {b} : plans'[c] = plans[c]
        /\ row' = row
    BY <1>0, <1>1, <1>2, <1>6, <2>1 DEF CreatePlan, FormInv, TypeOK
  <2>3. /\ job'[w].op = "approve" /\ job'[w].pc = "rows" /\ job'[w].rows = PlanRows(b, w)
        /\ job'[w].bk = b /\ job'[w].held = job[w].held
    BY <1>0, <1>1, <1>2, <1>6, Holder DEF CreatePlan, PlanRows, FormInv, TypeOK, Job
  <2>4. Tale(w, p)'
    BY <1>1, <1>2, <2>2, <2>3 DEF Tale, PlanRows
  <2>. QED
    BY <1>5, <2>2, <2>3, <2>4 DEF Holds
<1>7. CASE CreateInstallment(w)
  <2>1. PICK x \in job[w].rows :
          /\ row' = [row EXCEPT ![x] = "due"]
          /\ IF job[w].rows = {x} THEN Finish(w)
             ELSE job' = [job EXCEPT ![w].rows = @ \ {x}]
    BY <1>7 DEF CreateInstallment
  <2>2. /\ job[w].pc = "rows" /\ plans[b] = {w} /\ plans' = plans
        /\ \A y \in PlanRows(b, w) \ job[w].rows : row[y] \in {"due", "paid"}
    BY <1>0, <1>7, Holder DEF CreateInstallment, Tale
  <2>3. /\ job[w].rows \subseteq PlanRows(b, w) /\ PlanRows(b, w) \subseteq Row
        /\ \A y \in PlanRows(b, w) : y[1] = b
    BY <1>0, <1>2, <2>2 DEF RowsInv, PlanRows, Row
  <2>4. row'[x] = "due" /\ \A y \in Row : y # x => row'[y] = row[y]
    BY <1>1, <2>1, <2>3 DEF FormInv, TypeOK
  <2>5. CASE job[w].rows = {x}
    <3>1. \A y \in PlanRows(b, w) : row'[y] \in {"due", "paid"}
      BY <2>2, <2>3, <2>4, <2>5
    <3>2. Planned(b)'
      BY <2>2, <3>1 DEF Planned, PlanRows
    <3>. QED
      BY <1>1, <1>5, <2>1, <2>2, <2>3, <2>4, <2>5, <3>2, Ended
  <2>6. CASE job[w].rows # {x}
    <3>1. /\ job'[w].op = "approve" /\ job'[w].pc = "rows" /\ job'[w].rows = job[w].rows \ {x}
          /\ job'[w].bk = b /\ job'[w].held = job[w].held
      BY <1>0, <1>1, <1>2, <2>1, <2>2, <2>6, Holder DEF FormInv, TypeOK, Job
    <3>2. \A y \in PlanRows(b, w) \ job'[w].rows : row'[y] \in {"due", "paid"}
      BY <2>2, <2>3, <2>4, <3>1
    <3>3. Tale(w, p)'
      BY <1>1, <1>2, <2>2, <3>1, <3>2 DEF Tale, PlanRows
    <3>. QED
      BY <1>5, <2>2, <2>3, <2>4, <3>1, <3>3 DEF Holds
  <2>. QED
    BY <2>5, <2>6
<1>. QED
  BY <1>6, <1>7

LEMMA VoidingEstate ==
  ASSUME DeskInv, RowsInv, NEW w \in Workers, NEW p, Holds(w, p), Estate(p), VoidInstallment(w)
  PROVE  Estate(p)'
<1>1. /\ FormInv /\ Effects(w) /\ job[w].pc = "mark"
      /\ UNCHANGED <<plotStatus, bkStatus, bkPlot, plans, record, upset>>
  BY StatementEffects DEF DeskInv, Statement, VoidInstallment
<1>2. PICK x \in job[w].rows : /\ row' = [row EXCEPT ![x] = "voided"]
                               /\ job' = [job EXCEPT ![w].rows = @ \ {x}]
  BY DEF VoidInstallment
<1>3. job[w].op = "cancel" /\ x \in Row /\ job[w].plot = p
  BY <1>1, <1>2, Holder, OpOfPc DEF RowsInv, Job
<1>4. row'[x] = "voided" /\ \A y \in Row : y # x => row'[y] = row[y]
  BY <1>1, <1>2, <1>3 DEF FormInv, TypeOK
<1>5. /\ job'[w].op = "cancel" /\ job'[w].pc = "mark" /\ job'[w].rows = job[w].rows \ {x}
      /\ job'[w].bk = job[w].bk /\ job'[w].held = job[w].held
  BY <1>1, <1>2, <1>3, Holder DEF FormInv, TypeOK, Job
<1>6. /\ bkStatus[job[w].bk] \in Active
      /\ \A y \in Row : y[1] = job[w].bk /\ row[y] = "due" => y \in job[w].rows
  BY <1>1, <1>3, Holder DEF Tale
<1>7. Tale(w, p)'
  BY <1>1, <1>4, <1>5, <1>6 DEF Tale
<1>8. ASSUME NEW b \in Bookings, bkPlot'[b] = p PROVE Sold(b, p)'
  <2>1. Sold(b, p)
    BY <1>1, <1>8, Holder
  <2>2. Owes(b)' => Owes(b)
    BY <1>4 DEF Owes
  <2>3. Standing(b)' = Standing(b) /\ (BoughtBack(b)' <=> BoughtBack(b))
    BY <1>1 DEF Standing, BoughtBack
  <2>. QED
    BY <1>1, <1>5, <2>1, <2>2, <2>3 DEF Sold, Holds
<1>9. /\ Live(p)' = Live(p)
      /\ \A v \in Workers : job[v].op = "pay" /\ job[v].plot = p =>
           \A y \in job[v].rows : bkStatus'[y[1]] = "Cancelled" => BoughtBack(y[1])'
  BY <1>1, Holder DEF BoughtBack, Live
<1>. QED
  BY <1>1, <1>7, <1>8, <1>9, Holder, HolderEstate

LEMMA CancellingEstate ==
  ASSUME DeskInv, RecordInv, RowsInv, NEW w \in Workers, NEW p, Holds(w, p), Estate(p),
         MarkCancelled(w)
  PROVE  Estate(p)'
<1>0. PICK b : b = job[w].bk
  OBVIOUS
<1>1. /\ FormInv /\ Effects(w) /\ job[w].pc = "mark" /\ job[w].rows = {}
      /\ UNCHANGED <<plotStatus, bkPlot, plans, row, record, upset>>
      /\ bkStatus' = [bkStatus EXCEPT ![b] = "Cancelled"]
  BY <1>0, StatementEffects DEF DeskInv, Statement, MarkCancelled
<1>2. PICK pc \in {"complete", "plotRead"} : Goto(w, pc)
  BY DEF MarkCancelled
<1>3. /\ job[w].op \in {"reject", "cancel", "buyback"} /\ job[w].plot = p
      /\ b \in Bookings /\ bkPlot[b] = p /\ Tale(w, p) /\ Sold(b, p)
      /\ Quiet(p) => b \in Live(p) /\ OneBuyer(p)
  <2>1. job[w].op \in {"reject", "cancel", "buyback"}
    BY <1>1, Holder, OpOfPc
  <2>. QED
    BY <1>0, <1>1, <2>1, Holder DEF BookingOps, Story
<1>4. bkStatus'[b] = "Cancelled" /\ \A c \in Bookings \ {b} : bkStatus'[c] = bkStatus[c]
  BY <1>1, <1>3 DEF FormInv, TypeOK
<1>5. \A c \in Bookings : /\ Standing(c)' = Standing(c) /\ (BoughtBack(c)' <=> BoughtBack(c))
                          /\ (Owes(c)' <=> Owes(c)) /\ (Planned(c)' <=> Planned(c))
  BY <1>1 DEF Standing, BoughtBack, Owes, Planned
<1>6. job[w].op = "buyback" => BoughtBack(b)
  <2>1. job[w].op = "buyback" => job[w].rec \in Records /\ Filed(job[w])
    BY <1>1, SettlesRecord DEF Settling, RecordInv
  <2>. QED
    BY <1>0, <1>1, <2>1 DEF Filed, BoughtBack
<1>7. job[w].op = "reject" => plans[b] = {} /\ \A x \in Row : x[1] = b => row[x] = "none"
  <2>1. job[w].op = "reject" => plans[b] = {}
    BY <1>0, <1>1, <1>3 DEF Tale, Sold
  <2>. QED
    BY <2>1 DEF RowsInv
<1>8. ~BoughtBack(b) => ~Owes(b)
  BY <1>0, <1>1, <1>3, <1>6, <1>7 DEF Tale, Owes
<1>9. ASSUME NEW c \in Bookings, bkPlot'[c] = p PROVE Sold(c, p)'
  <2>1. Sold(c, p)
    BY <1>1, <1>9, Holder
  <2>2. CASE c = b
    BY <1>1, <1>4, <1>5, <1>8, <2>1, <2>2 DEF Sold
  <2>3. CASE c # b
    <3>1. Quiet(p) => bkStatus[c] # "Confirmed"
      BY <1>1, <1>3, <1>9, <2>3 DEF Live, Active, OneBuyer
    <3>. QED
      BY <1>1, <1>4, <1>5, <2>1, <2>3, <3>1 DEF Sold, Quiet
  <2>. QED
    BY <2>2, <2>3
<1>10. Tale(w, p)'
  BY <1>1, <1>2, <1>3, Went DEF Tale
<1>11. ASSUME NEW v \in Workers, job[v].op = "pay", job[v].plot = p, NEW x \in job[v].rows,
              bkStatus'[x[1]] = "Cancelled"
       PROVE  BoughtBack(x[1])'
  <2>1. x \in Row /\ x[1] \in Bookings /\ row[x] # "none"
    BY <1>1, <1>11, Own DEF Job, Row, RowsInv
  <2>2. job[w].op # "cancel"
    BY <1>3, <1>11, Holder
  <2>3. x[1] = b => BoughtBack(b)
    BY <1>3, <1>6, <1>7, <2>1, <2>2
  <2>4. x[1] # b => BoughtBack(x[1])
    BY <1>4, <1>11, <2>1, Holder
  <2>. QED
    BY <1>5, <2>1, <2>3, <2>4
<1>12. plotStatus'[p] = "Merged" => Live(p)' = {}
  <2>1. Live(p)' \subseteq Live(p)
    BY <1>1, <1>4 DEF Live, Active
  <2>. QED
    BY <1>1, <2>1, Holder
<1>. QED
  BY <1>1, <1>9, <1>10, <1>11, <1>12, HolderEstate

LEMMA HeldEstate ==
  ASSUME DeskInv, RecordInv, RowsInv, NEW w \in Workers, Statement(w) \/ Die(w),
         NEW p \in Plots, p \in job[w].held, Estate(p)
  PROVE  Estate(p)'
<1>. SUFFICES ASSUME Unlapped(p)' PROVE Estate(p)'
  BY DEF Estate
<1>1. Holds(w, p)
  BY StatementEffects DEF Holds, Effects, Unlapped, DeskInv
<1>2. ~LandPayment(w) /\ ~CompletePayment(w) /\ ~RollbackPayment(w)
  BY <1>1, Holder, OpOfPc DEF LandPayment, CompletePayment, RollbackPayment
<1>. QED
  BY <1>1, <1>2, ReadingEstate, WritingEstate, RecordingEstate, InsertEstate, ConfirmEstate,
     PlanningEstate, VoidingEstate, CancellingEstate DEF Statement

-----------------------------------------------------------------------------
(* A payment holds no plot *)

LEMMA PayingEstate ==
  ASSUME DeskInv, RowsInv, NEW w \in Workers, Statement(w) \/ Die(w), NEW p \in Plots,
         job[w].op = "pay", job[w].plot = p, Estate(p)
  PROVE  Estate(p)'
<1>. SUFFICES ASSUME Unlapped(p)' PROVE Estate(p)'
  BY DEF Estate
<1>1. /\ FormInv /\ Effects(w) /\ job[w] \in Job /\ ShapeOf(job[w])
      /\ job[w].pc \in {"land", "receipt"} /\ job[w].held = {} /\ job[w].rows \subseteq Row
  BY StatementEffects, Own DEF DeskInv, ShapeOf, Job
<1>2. /\ Unlapped(p) /\ (Quiet(p)' => Quiet(p))
  BY <1>1 DEF Effects, Unlapped, Quiet
<1>3. LandPayment(w) \/ CompletePayment(w) \/ RollbackPayment(w) \/ Die(w)
  BY <1>1 DEF Statement, PlotUpdateRead, PlotUpdateWrite, InsertBooking, AwaitApproval,
     AutoApprove, ConfirmBooking, CreatePlan, CreateInstallment, VoidInstallment, MarkCancelled,
     CreateRecord, RegisterInvoice, MergeRead, MergeWrite, CompleteRecord, WriteAudit,
     StepFails, FailRecord
<1>4. UNCHANGED <<plotStatus, bkStatus, bkPlot, plans, record>>
  BY <1>3 DEF LandPayment, CompletePayment, RollbackPayment, Die, tables
<1>5. \A x \in Row : row'[x] = row[x] \/ (x \in job[w].rows /\ row'[x] \in {"due", "paid"})
  BY <1>1, <1>3 DEF LandPayment, CompletePayment, RollbackPayment, Die, tables, FormInv, TypeOK
<1>6. /\ plotStatus[p] = "Merged" => Live(p) = {}
      /\ \A v \in Workers : p \in job[v].held => Tale(v, p)
      /\ \A b \in Bookings : bkPlot[b] = p => Sold(b, p)
      /\ \A v \in Workers : job[v].op = "pay" /\ job[v].plot = p =>
           \A x \in job[v].rows : bkStatus[x[1]] = "Cancelled" => BoughtBack(x[1])
      /\ \A v \in Workers : job[v].plot = p => job[v].op # "cancel"
  BY <1>2 DEF Estate
<1>7. Live(p)' = Live(p) /\ \A b \in Bookings : /\ Standing(b)' = Standing(b)
                                                /\ (BoughtBack(b)' <=> BoughtBack(b))
  BY <1>4 DEF Live, Standing, BoughtBack
<1>8. ASSUME NEW v \in Workers, p \in job'[v].held PROVE Tale(v, p)'
  <2>1. v # w /\ job'[v] = job[v] /\ Tale(v, p) /\ job[v] \in Job /\ ShapeOf(job[v])
    BY <1>1, <1>6, <1>8, Own DEF Effects
  <2>2. job[v].op # "cancel"
    BY <1>6, <1>8, <2>1 DEF ShapeOf, BookingOps
  <2>3. job[v].pc = "rows" => PlanRows(job[v].bk, v) \subseteq Row
    BY <2>1, OpOfPc DEF ShapeOf, BookingOps, PlanRows, Row
  <2>4. job[v].pc = "rows" =>
          \A x \in PlanRows(job[v].bk, v) \ job[v].rows : row'[x] \in {"due", "paid"}
    BY <1>5, <2>1, <2>3 DEF Tale
  <2>5. Standing(job[v].bk)' = Standing(job[v].bk)
    BY <1>4, <2>1 DEF Standing
  <2>. QED
    BY <1>4, <1>7, <2>1, <2>2, <2>4, <2>5 DEF Tale, PlanRows
<1>9. ASSUME NEW b \in Bookings, bkPlot'[b] = p PROVE Sold(b, p)'
  <2>1. Sold(b, p)
    BY <1>4, <1>6, <1>9
  <2>2. bkStatus[b] = "Cancelled" /\ ~BoughtBack(b) => ~Owes(b)'
    <3>1. ASSUME bkStatus[b] = "Cancelled", ~BoughtBack(b), NEW x \in Row, x[1] = b
          PROVE  row'[x] = row[x]
      BY <1>5, <1>6, <3>1
    <3>. QED
      BY <2>1, <3>1 DEF Sold, Owes
  <2>3. Planned(b) => Planned(b)'
    <3>1. \A v \in Workers : PlanRows(b, v) \subseteq Row
      BY DEF PlanRows, Row
    <3>. QED
      BY <1>4, <1>5, <3>1 DEF Planned, PlanRows
  <2>4. (\A v \in Workers : p \in job'[v].held => job'[v].op \notin {"approve", "cancel"}) =>
          \A v \in Workers : p \in job[v].held => job[v].op \notin {"approve", "cancel"}
    BY <1>1 DEF Effects
  <2>. QED
    BY <1>2, <1>4, <1>7, <2>1, <2>2, <2>3, <2>4 DEF Sold
<1>10. ASSUME NEW v \in Workers, job'[v].op = "pay", job'[v].plot = p
       PROVE  /\ \A x \in job'[v].rows : bkStatus'[x[1]] = "Cancelled" => BoughtBack(x[1])'
              /\ \A u \in Workers : job'[u].plot = p => job'[u].op # "cancel"
  <2>1. \A u \in Workers : job'[u].plot = p => job'[u].op # "cancel"
    BY <1>1, <1>6 DEF Effects
  <2>2. job'[v].rows \subseteq job[v].rows /\ job[v].op = "pay" /\ job[v].plot = p
    <3>1. CASE v = w
      <4>1. Finish(w) \/ \E pc : Goto(w, pc)
        BY <1>3 DEF LandPayment, CompletePayment, RollbackPayment, Die
      <4>. QED
        BY <1>1, <1>10, <3>1, <4>1, Went, Ended
    <3>2. CASE v # w
      BY <1>1, <1>10, <3>2 DEF Effects
    <3>. QED
      BY <3>1, <3>2
  <2>. QED
    BY <1>4, <1>6, <2>1, <2>2 DEF BoughtBack
<1>. QED
  BY <1>4, <1>6, <1>7, <1>8, <1>9, <1>10 DEF Estate

-----------------------------------------------------------------------------
(* All steps together *)

LEMMA SaleStep ==
  ASSUME DeskInv, DeskInv', [Next]_vars, RecordInv, SaleInv
  PROVE  SaleInv'
<1>1. FormInv /\ FormInv' /\ RowsInv
  BY DEF DeskInv, SaleInv
<1>2. RowsInv'
  BY <1>1, RowsStep
<1>3. ASSUME NEW p \in Plots PROVE Estate(p)'
  <2>0. Estate(p)
    BY DEF SaleInv
  <2>1. ASSUME NEW w \in Workers, Statement(w) \/ Die(w) PROVE Estate(p)'
    BY <1>1, <2>0, <2>1, HeldEstate, PayingEstate, ElsewhereEstate
  <2>2. CASE UNCHANGED vars
    BY <2>0, <2>2 DEF vars, Estate, Unlapped, Live, Tale, Sold, Standing, BoughtBack, Owes,
       Planned, Quiet, PlanRows
  <2>. QED
    BY <1>1, <2>0, <2>1, <2>2, BeginEstate, AddedEstate DEF Next
<1>. QED
  BY <1>2, <1>3 DEF SaleInv

LEMMA SaleInit == Init => SaleInv
<1>. SUFFICES ASSUME Init PROVE SaleInv
  OBVIOUS
<1>1. \A w \in Workers : job[w].op = "idle" /\ job[w].pc = "idle" /\ job[w].held = {}
                         /\ job[w].rows = {}
  BY DEF Init, NoJob
<1>2. RowsInv
  BY <1>1 DEF Init, RowsInv
<1>3. ASSUME NEW p \in Plots PROVE Estate(p)
  <2>1. \A b \in Bookings : bkPlot[b] # p
    BY NoneAssumption DEF Init
  <2>. QED
    BY <1>1, <2>1 DEF Init, Estate
<1>. QED
  BY <1>2, <1>3 DEF SaleInv

LEMMA SalesCorrect == Spec => [](RecordInv /\ SaleInv)
<1>1. DeskInv /\ DeskInv' /\ RecordInv /\ SaleInv /\ [Next]_vars => (RecordInv /\ SaleInv)'
  BY RecordsStep, SaleStep
<1>. QED
  BY <1>1, RecordsInit, SaleInit, DeskCorrect, PTL DEF Spec

\* A plot merged into another one has no live booking, unless requests on it overlapped.
THEOREM MergedUnsold == Spec => []MergedPlotUnsold
<1>1. SaleInv => MergedPlotUnsold
  BY DEF SaleInv, Estate, Unlapped, MergedPlotUnsold
<1>. QED
  BY <1>1, SalesCorrect, PTL

\* No booking is settled twice.
THEOREM SettledOnce == Spec => []OneBuyback
<1>1. SaleInv => OneBuyback
  BY DEF SaleInv, Estate, Unlapped, Sold, OneBuyback
<1>. QED
  BY <1>1, SalesCorrect, PTL

\* A confirmed booking at rest has exactly one plan, whole and with nothing voided.
THEOREM PlansCorrect == Spec => []ConfirmedHasPlan
<1>1. ASSUME DeskInv, SaleInv, NEW b \in Bookings, bkStatus[b] = "Confirmed",
             Quiet(bkPlot[b]), ~Held(bkPlot[b])
      PROVE  Planned(b)
  <2>1. bkPlot[b] \in Plots
    BY <1>1 DEF DeskInv, FormInv, Located
  <2>2. Unlapped(bkPlot[b]) /\ Estate(bkPlot[b])
    BY <1>1, <2>1 DEF SaleInv, Quiet, Unlapped
  <2>. QED
    BY <1>1, <2>1, <2>2 DEF Estate, Sold, Held
<1>2. DeskInv /\ SaleInv => ConfirmedHasPlan
  BY <1>1 DEF ConfirmedHasPlan, Planned
<1>. QED
  BY <1>2, SalesCorrect, DeskCorrect, PTL

\* A cancelled booking that was not bought back has nothing left to pay.
THEOREM CancelledCorrect == Spec => []CancelledOwesNothing
<1>1. ASSUME DeskInv, SaleInv, NEW b \in Bookings, bkStatus[b] = "Cancelled",
             "overlap" \notin upset[bkPlot[b]], ~BoughtBack(b)
      PROVE  ~Owes(b)
  <2>1. bkPlot[b] \in Plots
    BY <1>1 DEF DeskInv, FormInv, Located
  <2>2. Unlapped(bkPlot[b]) /\ Estate(bkPlot[b])
    BY <1>1, <2>1 DEF SaleInv, Unlapped
  <2>. QED
    BY <1>1, <2>1, <2>2 DEF Estate, Sold
<1>2. DeskInv /\ SaleInv => CancelledOwesNothing
  BY <1>1 DEF CancelledOwesNothing
<1>. QED
  BY <1>2, SalesCorrect, DeskCorrect, PTL

-----------------------------------------------------------------------------
(* Completed buybacks *)

\* Booking b is over, unless requests on its plot overlapped.
Over(b) == Unlapped(bkPlot[b]) => bkStatus[b] = "Cancelled"

\* A buyback that is about to complete its record, or has, ended its booking.
BuybackInv ==
  /\ \A w \in Workers : job[w].op = "buyback" /\ job[w].pc = "complete" => Over(job[w].bk)
  /\ \A r \in Records :
       record[r].kind = "buyback" /\ record[r].status = "Completed" => Over(record[r].bk)

\* A booking that is over stays so: an approval would have found it pending.
LEMMA OverStays ==
  ASSUME DeskInv, SaleInv, [Next]_vars, NEW b \in Bookings, bkStatus[b] # "none", Over(b)
  PROVE  Over(b)'
<1>1. FormInv /\ bkPlot'[b] = bkPlot[b] /\ bkPlot[b] \in Plots
  BY BookingStays DEF DeskInv, FormInv, Located
<1>2. ASSUME NEW w \in Workers, InsertBooking(w) PROVE Over(b)'
  <2>1. job[w].bk # b
    BY <1>1, <1>2, Own DEF InsertBooking, BookingOf
  <2>2. bkStatus'[b] = bkStatus[b] /\ upset' = upset
    BY <1>1, <1>2, <2>1 DEF InsertBooking, FormInv, TypeOK
  <2>. QED
    BY <1>1, <2>2 DEF Over, Unlapped
<1>3. ASSUME NEW w \in Workers, ConfirmBooking(w) PROVE Over(b)'
  <2>1. job[w].op = "approve" /\ upset' = upset /\ bkPlot' = bkPlot
    BY <1>1, <1>3, Own, OpOfPc DEF ConfirmBooking
  <2>2. CASE job[w].bk = b /\ Unlapped(bkPlot[b])
    <3>1. Holds(w, bkPlot[b]) /\ Estate(bkPlot[b])
      BY <1>1, <1>3, <2>1, <2>2, Own
         DEF Holds, SaleInv, ShapeOf, BookingOf, BookingOps, ConfirmBooking
    <3>2. bkStatus[b] = "Pending"
      BY <1>3, <2>1, <2>2, <3>1 DEF Estate, Holds, Tale, ConfirmBooking
    <3>. QED
      BY <2>2, <3>2 DEF Over
  <2>3. CASE job[w].bk # b
    BY <1>3, <2>1, <2>3 DEF ConfirmBooking, Over, Unlapped
  <2>. QED
    BY <2>1, <2>2, <2>3 DEF Over, Unlapped
<1>4. ASSUME NEW w \in Workers, MarkCancelled(w) PROVE Over(b)'
  BY <1>4 DEF MarkCancelled, Over, Unlapped, DeskInv, FormInv, TypeOK
<1>5. CASE \A w \in Workers : ~InsertBooking(w) /\ ~ConfirmBooking(w) /\ ~MarkCancelled(w)
  BY <1>1, <1>5, DisturbStep DEF Over, Unlapped
<1>. QED
  BY <1>2, <1>3, <1>4, <1>5

\* A buyback comes before the writing of its record by ending its booking only.
LEMMA CompletesByEnding ==
  ASSUME FormInv, NEW w \in Workers, Statement(w) \/ Die(w),
         job'[w].op = "buyback", job'[w].pc = "complete"
  PROVE  MarkCancelled(w) /\ job'[w].bk = job[w].bk
<1>1. job[w] \in Job /\ ShapeOf(job[w])
  BY Own
<1>2. ~Finish(w)
  BY Ended
<1>3. ASSUME NEW pc, Goto(w, pc) PROVE pc = "complete" /\ job'[w].bk = job[w].bk
  BY <1>3, Went
<1>4. CASE PlotUpdateWrite(w)
  <2>1. Goto(w, AfterPlotWrite(job[w].op)) /\ AfterPlotWrite(job[w].op) # "complete"
    BY <1>2, <1>4 DEF PlotUpdateWrite, AfterPlotWrite
  <2>. QED
    BY <1>3, <2>1
<1>5. CASE MergeRead(w) \/ MergeWrite(w)
  <2>1. job[w].op = "merge"
    BY <1>5 DEF MergeRead, MergeWrite
  <2>2. job'[w].op = "merge"
    BY <1>1, <1>5, <2>1, Went DEF MergeRead, MergeWrite, FormInv, TypeOK, Job
  <2>. QED
    BY <2>2
<1>6. CASE AutoApprove(w)
  BY <1>2, <1>6, PlainIs DEF AutoApprove, FormInv, TypeOK
<1>7. CASE CreatePlan(w) \/ CreateInstallment(w) \/ VoidInstallment(w)
  <2>1. job[w].pc \in {"plan", "rows", "mark"} /\ job'[w].pc \in {"rows", job[w].pc}
    BY <1>1, <1>2, <1>7 DEF CreatePlan, CreateInstallment, VoidInstallment, FormInv, TypeOK, Job
  <2>. QED
    BY <2>1
<1>8. CASE MarkCancelled(w)
  BY <1>3, <1>8 DEF MarkCancelled
<1>9. CASE \/ PlotUpdateRead(w) \/ InsertBooking(w) \/ AwaitApproval(w) \/ ConfirmBooking(w)
           \/ CreateRecord(w) \/ RegisterInvoice(w) \/ CompleteRecord(w) \/ WriteAudit(w)
           \/ StepFails(w) \/ FailRecord(w) \/ LandPayment(w) \/ CompletePayment(w)
           \/ RollbackPayment(w) \/ Die(w)
  BY <1>2, <1>3, <1>9 DEF PlotUpdateRead, InsertBooking, AwaitApproval, ConfirmBooking,
     CreateRecord, RegisterInvoice, CompleteRecord, WriteAudit, StepFails, FailRecord,
     LandPayment, CompletePayment, RollbackPayment, Die
<1>. QED
  BY <1>4, <1>5, <1>6, <1>7, <1>8, <1>9 DEF Statement

\* A buyback comes to its last write by the write that ends its booking.
LEMMA CompletesOver ==
  ASSUME DeskInv, SaleInv, [Next]_vars, BuybackInv,
         NEW w \in Workers, job'[w].op = "buyback", job'[w].pc = "complete"
  PROVE  Over(job[w].bk)' /\ job'[w].bk = job[w].bk
<1>1. FormInv
  BY DEF DeskInv
<1>2. CASE job'[w] = job[w]
  <2>1. job[w].bk \in Bookings /\ bkStatus[job[w].bk] # "none"
    BY <1>1, <1>2, Own DEF ShapeOf, BookingOf, BookingOps
  <2>2. Over(job[w].bk)
    BY <1>2 DEF BuybackInv
  <2>3. ASSUME NEW b \in Bookings, b = job[w].bk PROVE Over(b)'
    BY <2>1, <2>2, <2>3, OverStays DEF Over
  <2>. QED
    BY <1>2, <2>1, <2>3 DEF Over
<1>3. ASSUME NEW v \in Workers, Request(v), job'[w] # job[w] PROVE FALSE
  <2>1. PICK j : Begin(v, j) /\ Asked(j)
    BY <1>3, Asks
  <2>2. job'[w] = j
    BY <1>1, <1>3, <2>1, Started
  <2>. QED
    BY <2>1, <2>2 DEF Asked
<1>4. ASSUME Statement(w) \/ Die(w)
      PROVE  Over(job[w].bk)' /\ job'[w].bk = job[w].bk
  <2>1. MarkCancelled(w) /\ job'[w].bk = job[w].bk
    BY <1>1, <1>4, CompletesByEnding
  <2>2. job[w].op \in {"reject", "cancel", "buyback"}
    BY <1>1, <2>1, Own, OpOfPc DEF MarkCancelled
  <2>3. job[w].bk \in Bookings
    BY <1>1, <2>2, Own DEF ShapeOf, BookingOps
  <2>. QED
    BY <1>1, <2>1, <2>3 DEF MarkCancelled, Over, FormInv, TypeOK
<1>5. \/ \E v \in Workers : Request(v)
      \/ Statement(w) \/ Die(w)
      \/ job'[w] = job[w]
  <2>1. ASSUME NEW v \in Workers, v # w, Statement(v) \/ Die(v) PROVE job'[w] = job[w]
    BY <1>1, <2>1, StatementEffects DEF Effects
  <2>. QED
    BY <2>1 DEF Next, vars, AddPlot, RemovePlot
<1>. QED
  BY <1>2, <1>3, <1>4, <1>5

\* No step completes a record whose booking lives, or revives one that was ended.
LEMMA BuybackStep ==
  ASSUME DeskInv, DeskInv', RecordInv, SaleInv, [Next]_vars, BuybackInv
  PROVE  BuybackInv'
<1>1. FormInv /\ FormInv'
  BY DEF DeskInv
<1>2. ASSUME NEW w \in Workers, job'[w].op = "buyback", job'[w].pc = "complete"
      PROVE  Over(job[w].bk)'
  BY <1>2, CompletesOver
<1>3. ASSUME NEW r \in Records, record'[r].kind = "buyback", record'[r].status = "Completed",
             NEW b \in Bookings, b = record'[r].bk
      PROVE  Over(b)'
  <2>1. CASE record'[r] = record[r]
    <3>1. bkStatus[b] # "none" /\ Over(b)
      BY <1>3, <2>1 DEF RecordInv, BuybackInv
    <3>. QED
      BY <3>1, OverStays
  <2>2. CASE record'[r] # record[r]
    <3>1. PICK w \in Workers : Statement(w) \/ Die(w)
      BY <2>2, Asks DEF Next, vars, tables, AddPlot, RemovePlot
    <3>2. job[w].op = "buyback" /\ r = job[w].rec /\ record'[r].bk = job[w].bk
      BY <1>1, <1>3, <2>2, <3>1, OwnRecord
    <3>3. job[w].pc = "complete"
      <4>1. CreateRecord(w) \/ CompleteRecord(w) \/ FailRecord(w)
        BY <2>2, <3>1 DEF Statement, Die, tables, PlotUpdateRead, PlotUpdateWrite,
           InsertBooking, AwaitApproval, AutoApprove, ConfirmBooking, CreatePlan,
           CreateInstallment, VoidInstallment, MarkCancelled, RegisterInvoice, MergeRead,
           MergeWrite, WriteAudit, StepFails, LandPayment, CompletePayment, RollbackPayment
      <4>2. ~CreateRecord(w) /\ ~FailRecord(w)
        BY <1>1, <1>3, <3>2 DEF CreateRecord, FailRecord, SetRecord, FormInv, TypeOK, Record
      <4>. QED
        BY <4>1, <4>2 DEF CompleteRecord
    <3>4. bkStatus[b] # "none" /\ Over(b)
      BY <1>1, <1>3, <3>2, <3>3, Own DEF BuybackInv, BookingOf, BookingOps
    <3>. QED
      BY <3>4, OverStays
  <2>. QED
    BY <2>1, <2>2
<1>5. RecordInv'
  BY RecordsStep
<1>6. ASSUME NEW r \in Records, record'[r].kind = "buyback", record'[r].status = "Completed"
      PROVE  Over(record[r].bk)'
  <2>1. record'[r].bk \in Bookings
    BY <1>5, <1>6 DEF RecordInv
  <2>. QED
    BY <1>3, <1>6, <2>1 DEF Over
<1>. QED
  BY <1>2, <1>6 DEF BuybackInv

\* A buyback recorded as completed has ended its booking, whatever failed or was
\* tried again, unless requests about the plot overlapped.
THEOREM BuybacksTrue == Spec => []BuybackRecordTrue
<1>1. Init => BuybackInv
  BY DEF Init, BuybackInv, NoJob, NoRecord
<1>2. DeskInv /\ DeskInv' /\ RecordInv /\ SaleInv /\ [Next]_vars /\ BuybackInv => BuybackInv'
  BY BuybackStep
<1>3. BuybackInv => BuybackRecordTrue
  BY DEF BuybackInv, Over, Unlapped, BuybackRecordTrue
<1>. QED
  BY <1>1, <1>2, <1>3, SalesCorrect, DeskCorrect, PTL DEF Spec

=============================================================================
