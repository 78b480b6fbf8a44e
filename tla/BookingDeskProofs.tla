------------------------- MODULE BookingDeskProofs --------------------------
(***************************************************************************)
(* Proofs about the booking desk, for any sets of plots, bookings,         *)
(* members, records, workers and installments.                             *)
(*                                                                         *)
(* The inductive invariant is per plot: a plot that has not been disturbed *)
(* is held by at most one request, and the point that request has reached  *)
(* (Story) says how the plot and its bookings differ from what they are    *)
(* between requests (Agrees).                                              *)
(***************************************************************************)
EXTENDS BookingDeskProperties, TLAPS

BookingOps == {"create", "approve", "reject", "cancel", "buyback"}

\* Which fields a request has set, by what it does and where it is.
ShapeOf(j) ==
  /\ j.op = "idle" => j = NoJob
  /\ j.op \in BookingOps => /\ j.plot \in Plots /\ j.held = {j.plot}
                            /\ j.bk \in Bookings
  /\ j.op \in {"edit", "advance"} => j.plot \in Plots /\ j.held = {j.plot}
  /\ j.op = "create"  => /\ j.pc \in {"insert", "plotRead", "plotWrite", "settings"}
                         /\ j.target = "Booked"
  /\ j.op = "approve" => /\ j.pc \in {"plotRead", "plotWrite", "confirm", "plan", "rows"}
                         /\ j.target = "Allotted"
  /\ j.op \in {"reject", "cancel"} => /\ j.pc \in {"mark", "plotRead", "plotWrite"}
                                      /\ j.target = "Available"
  /\ j.op = "buyback" => /\ j.pc \in {"record", "invoice", "plotRead", "plotWrite",
                                      "mark", "complete", "audit", "fail"}
                         /\ j.target \in {"Available", "Cancelled"}
                         /\ j.rec \in Records
  /\ j.op = "merge"   => /\ j.pc \in {"record", "invoice", "plotRead", "plotWrite",
                                      "complete", "audit", "fail"}
                         /\ j.target = "Merged"
                         /\ j.rec \in Records
                         /\ j.plot \in j.held /\ j.todo \subseteq j.held
                         /\ j.bk = None
  /\ j.op = "edit"    => /\ j.pc \in {"plotRead", "plotWrite"}
                         /\ j.target \in Edits /\ j.bk = None
  /\ j.op = "advance" => j.pc = "plotWrite" /\ j.target \in Advances /\ j.bk = None
  /\ j.op = "pay"     => j.pc \in {"land", "receipt"} /\ j.held = {} /\ j.bk = None

\* A booking's request works on the booking's plot; an id reserved for a new
\* booking is reserved once and not yet in the table.
BookingOf(j) ==
  /\ j.op \in BookingOps /\ j.pc # "insert" =>
       bkStatus[j.bk] # "none" /\ bkPlot[j.bk] = j.plot
  /\ j.pc = "insert" => bkStatus[j.bk] = "none"

Located == \A b \in Bookings : bkStatus[b] # "none" => bkPlot[b] \in Plots

Reserved == \A v, w \in Workers :
  v # w /\ job[v].pc = "insert" => job[w].bk # job[v].bk

FormInv ==
  /\ TypeOK
  /\ \A w \in Workers : ShapeOf(job[w]) /\ BookingOf(job[w])
  /\ Located
  /\ Reserved

\* No two requests hold p, and a checked status write is still allowed.
Alone(p) == \A v, w \in Workers : p \in job[v].held /\ p \in job[w].held => v = w
Checked(p) == \A w \in Workers :
  job[w].pc = "plotWrite" /\ job[w].plot = p =>
    /\ plotStatus[p] # "Absent"
    /\ Exists(p) => canTransition(plotStatus[p], job[w].target)

TableInv(p) == "overlap" \notin upset[p] => Alone(p) /\ Checked(p)

Has(p, b, s) == b \in Live(p) /\ bkStatus[b] = s

\* How plot p and its bookings stand while request j holds p.
Story(j, p) ==
  /\ j.op = "create" /\ j.pc = "insert" =>
       Live(p) = {} /\ (Exists(p) => plotStatus[p] = "Available")
  /\ j.op = "create" /\ j.pc \in {"plotRead", "plotWrite"} =>
       Has(p, j.bk, "Pending") /\ plotStatus[p] = "Available"
  /\ j.op = "create" /\ j.pc = "settings" =>
       Has(p, j.bk, "Pending") /\ plotStatus[p] = "Booked"
  /\ j.op = "approve" /\ j.pc \in {"plotRead", "plotWrite"} =>
       Has(p, j.bk, "Pending") /\ plotStatus[p] = "Booked"
  /\ j.op = "approve" /\ j.pc = "confirm" =>
       Has(p, j.bk, "Pending") /\ plotStatus[p] = "Allotted"
  /\ j.op = "approve" /\ j.pc \in {"plan", "rows"} =>
       Has(p, j.bk, "Confirmed") /\ plotStatus[p] = "Allotted"
  /\ j.op \in {"reject", "cancel"} /\ j.pc = "mark" =>
       j.bk \in Live(p) /\ Agrees(p, plotStatus[p])
  /\ j.op \in {"reject", "cancel"} /\ j.pc \in {"plotRead", "plotWrite"} =>
       Live(p) = {}
  /\ j.op = "buyback" /\ j.pc \in {"record", "invoice", "plotRead", "plotWrite"} =>
       j.bk \in Live(p) /\ Agrees(p, plotStatus[p])
  /\ j.op = "buyback" /\ j.pc = "mark" =>
       j.bk \in Live(p) /\ plotStatus[p] \in {"Available", "Cancelled"}
  /\ j.op = "buyback" /\ j.pc \in {"complete", "audit", "fail"} =>
       Agrees(p, plotStatus[p])
  /\ j.op = "merge" => Live(p) = {} /\ Agrees(p, plotStatus[p])
  /\ j.op \in {"edit", "advance"} => Agrees(p, plotStatus[p])

OneBuyer(p) == \A b, c \in Live(p) : b = c

PlotInv(p) ==
  Quiet(p) =>
    /\ OneBuyer(p)
    /\ \A w \in Workers : p \in job[w].held => Story(job[w], p)
    /\ ~Held(p) => Agrees(p, plotStatus[p])

DeskInv == FormInv /\ \A p \in Plots : TableInv(p) /\ PlotInv(p)

-----------------------------------------------------------------------------
(* The form of the state *)

LEMMA InsertIsCreate ==
  ASSUME NEW j \in Job, ShapeOf(j), j.pc = "insert"
  PROVE  j.op = "create"
BY DEF Job, Ops, ShapeOf, NoJob

LEMMA NoneApart ==
  ASSUME NEW j \in Job, ShapeOf(j), j.pc = "insert"
  PROVE  j.bk # None
BY InsertIsCreate, NoneAssumption DEF ShapeOf, BookingOps

\* A request begins.
LEMMA BeginForm ==
  ASSUME FormInv, NEW w \in Workers, NEW j \in Job, Begin(w, j), UNCHANGED tables,
         ShapeOf(j), BookingOf(j), j.bk = None \/ j.op \in BookingOps,
         j.pc = "insert" => j.bk \in FreshBookings
  PROVE  FormInv'
<1>1. TypeOK'
  BY DEF FormInv, TypeOK, Begin, tables, Causes
<1>2. \A v \in Workers : ShapeOf(job'[v])
  BY DEF FormInv, TypeOK, Begin
<1>3. \A v \in Workers : BookingOf(job[v])'
  BY DEF FormInv, TypeOK, Begin, BookingOf, tables
<1>4. Located'
  BY DEF FormInv, TypeOK, Begin, Located, tables
<1>5. Reserved'
  <2>1. SUFFICES ASSUME NEW v \in Workers, v # w
                 PROVE  /\ job[v].pc = "insert" => j.bk # job[v].bk
                        /\ j.pc = "insert" => job[v].bk # j.bk
    BY DEF FormInv, TypeOK, Begin, Reserved
  <2>2. job[v] \in Job /\ ShapeOf(job[v]) /\ BookingOf(job[v])
    BY DEF FormInv, TypeOK
  <2>3. j.pc = "insert" => job[v].bk # j.bk
    BY DEF FreshBookings
  <2>4. ASSUME job[v].pc = "insert", j.bk = job[v].bk PROVE FALSE
    BY <2>2, <2>4, <2>3, NoneApart DEF BookingOf
  <2>. QED
    BY <2>3, <2>4
<1>. QED
  BY <1>1, <1>2, <1>3, <1>4, <1>5 DEF FormInv

\* A request executes its next statement.
LEMMA StatementForm ==
  ASSUME FormInv, TypeOK', NEW w \in Workers,
         \A v \in Workers \ {w} : job'[v] = job[v],
         ShapeOf(job'[w]), BookingOf(job[w])',
         job'[w].pc # "insert", job'[w].bk \in {job[w].bk, None},
         \/ bkStatus' = bkStatus /\ bkPlot' = bkPlot
         \/ /\ job[w].op \in BookingOps
            /\ \A b \in Bookings \ {job[w].bk} : bkStatus'[b] = bkStatus[b] /\ bkPlot'[b] = bkPlot[b]
            /\ bkStatus'[job[w].bk] # "none" /\ bkPlot'[job[w].bk] = job[w].plot
  PROVE  FormInv'
<1>1. \A v \in Workers : ShapeOf(job'[v])
  BY DEF FormInv, TypeOK
<1>2. \A v \in Workers \ {w} : BookingOf(job[v])'
  <2>. SUFFICES ASSUME NEW v \in Workers \ {w}, ~ BookingOf(job[v])'
                PROVE  FALSE
    OBVIOUS
  <2>1. /\ job'[v] = job[v] /\ job[v] \in Job
        /\ ShapeOf(job[v]) /\ BookingOf(job[v]) /\ BookingOf(job[w])
    BY DEF FormInv, TypeOK
  <2>2. job[v].bk \in Bookings
    BY <2>1, InsertIsCreate DEF ShapeOf, BookingOps, BookingOf
  <2>3. /\ job[w].op \in BookingOps /\ job[v].bk = job[w].bk
        /\ bkStatus'[job[w].bk] # "none" /\ bkPlot'[job[w].bk] = job[w].plot
    BY <2>1, <2>2 DEF BookingOf
  <2>4. job[v].pc # "insert" /\ (job[w].pc # "insert" \/ job[v].op \notin BookingOps)
    BY <2>1, <2>3 DEF FormInv, Reserved, BookingOf
  <2>. QED
    BY <2>1, <2>3, <2>4 DEF BookingOf
<1>3. Located'
  <2>1. job[w].op \in BookingOps => job[w].plot \in Plots
    BY DEF FormInv, ShapeOf
  <2>. QED
    BY <2>1 DEF FormInv, TypeOK, Located
<1>4. Reserved'
  BY NoneApart DEF FormInv, TypeOK, Reserved
<1>. QED
  BY <1>1, <1>2, <1>3, <1>4 DEF FormInv

LEMMA ActiveLocated ==
  ASSUME FormInv, NEW b \in Bookings, bkStatus[b] # "none"
  PROVE  bkPlot[b] \in Plots
BY DEF FormInv, Located

LEMMA RequestForm ==
  ASSUME FormInv, NEW w \in Workers, Request(w)
  PROVE  FormInv'
<1>. USE DEF BookingOps
<1>1. CASE \E p \in Plots, b \in Bookings : CreateBooking(w, p, b)
  <2>. PICK p \in Plots, b \in Bookings : CreateBooking(w, p, b)
    BY <1>1
  <2>. DEFINE j == Plain("create", "insert", p, b, "Booked")
  <2>1. j \in Job /\ ShapeOf(j) /\ BookingOf(j) /\ j.op = "create" /\ j.bk = b
    BY DEF Plain, NoJob, Job, Ops, PCs, STATUS, ShapeOf, BookingOf, CreateBooking, FreshBookings
  <2>. HIDE DEF j
  <2>. QED
    BY <2>1, BeginForm DEF CreateBooking, j
<1>2. CASE \E b \in Bookings : ApproveBooking(w, b)
  <2>. PICK b \in Bookings : ApproveBooking(w, b)
    BY <1>2
  <2>. DEFINE j == Plain("approve", "plotRead", bkPlot[b], b, "Allotted")
  <2>1. bkPlot[b] \in Plots /\ bkStatus[b] # "none"
    BY ActiveLocated DEF ApproveBooking
  <2>2. j \in Job /\ ShapeOf(j) /\ BookingOf(j) /\ j.op = "approve" /\ j.pc = "plotRead"
    BY <2>1 DEF Plain, NoJob, Job, Ops, PCs, STATUS, ShapeOf, BookingOf
  <2>. HIDE DEF j
  <2>. QED
    BY <2>2, BeginForm DEF ApproveBooking, j
<1>3. CASE \E b \in Bookings : RejectBooking(w, b)
  <2>. PICK b \in Bookings : RejectBooking(w, b)
    BY <1>3
  <2>. DEFINE j == Plain("reject", "mark", bkPlot[b], b, "Available")
  <2>1. bkPlot[b] \in Plots /\ bkStatus[b] # "none"
    BY ActiveLocated DEF RejectBooking
  <2>2. j \in Job /\ ShapeOf(j) /\ BookingOf(j) /\ j.op = "reject" /\ j.pc = "mark"
    BY <2>1 DEF Plain, NoJob, Job, Ops, PCs, STATUS, ShapeOf, BookingOf
  <2>. QED
    BY <2>2, BeginForm DEF RejectBooking
<1>4. CASE \E b \in Bookings : CancelBooking(w, b)
  <2>. PICK b \in Bookings : CancelBooking(w, b)
    BY <1>4
  <2>. PICK rs \in ToVoid(b) :
         Begin(w, [Plain("cancel", "mark", bkPlot[b], b, "Available") EXCEPT !.rows = rs])
    BY DEF CancelBooking
  <2>. DEFINE i == Plain("cancel", "mark", bkPlot[b], b, "Available")
              j == [i EXCEPT !.rows = rs]
  <2>1. bkPlot[b] \in Plots /\ bkStatus[b] # "none"
    BY ActiveLocated DEF CancelBooking, Active
  <2>2. rs \subseteq Row
    BY DEF ToVoid, Unpaid, FallbackRows, PlanRows, Row, FormInv, TypeOK
  <2>3. /\ i \in Job /\ i.op = "cancel" /\ i.pc = "mark" /\ i.plot = bkPlot[b] /\ i.bk = b
        /\ i.held = {bkPlot[b]} /\ i.target = "Available"
    BY <2>1 DEF Plain, NoJob, Job, Ops, PCs, STATUS
  <2>. HIDE DEF i
  <2>4. j \in Job /\ ShapeOf(j) /\ BookingOf(j) /\ j.op = "cancel" /\ j.pc = "mark"
    BY <2>1, <2>2, <2>3 DEF ShapeOf, BookingOf, Job
  <2>. QED
    BY <2>4, BeginForm DEF CancelBooking, i
<1>5. CASE \E b \in Bookings, r \in Records, s \in {"Available", "Cancelled"} : BuyBack(w, b, r, s)
  <2>. PICK b \in Bookings, r \in Records, s \in {"Available", "Cancelled"} : BuyBack(w, b, r, s)
    BY <1>5
  <2>. DEFINE i == Plain("buyback", "record", bkPlot[b], b, s)
              j == [i EXCEPT !.rec = r]
  <2>1. bkPlot[b] \in Plots /\ bkStatus[b] # "none"
    BY ActiveLocated DEF BuyBack, Active
  <2>2. /\ i \in Job /\ i.op = "buyback" /\ i.pc = "record" /\ i.plot = bkPlot[b] /\ i.bk = b
        /\ i.held = {bkPlot[b]} /\ i.target = s
    BY <2>1 DEF Plain, NoJob, Job, Ops, PCs, STATUS
  <2>. HIDE DEF i
  <2>3. j \in Job /\ ShapeOf(j) /\ BookingOf(j) /\ j.op = "buyback" /\ j.pc = "record"
    BY <2>1, <2>2 DEF ShapeOf, BookingOf, Job
  <2>. QED
    BY <2>3, BeginForm DEF BuyBack, i
<1>6. CASE \E S \in SUBSET Plots, res \in Plots, r \in Records : MergePlots(w, S, res, r)
  <2>. PICK S \in SUBSET Plots, res \in Plots, r \in Records : MergePlots(w, S, res, r)
    BY <1>6
  <2>. DEFINE j == [NoJob EXCEPT !.op = "merge", !.pc = "record", !.plot = res, !.held = S,
                                 !.target = "Merged", !.todo = S \ {res}, !.rec = r]
  <2>1. j \in Job /\ ShapeOf(j) /\ BookingOf(j) /\ j.pc = "record" /\ j.bk = None
    BY DEF NoJob, Job, Ops, PCs, STATUS, ShapeOf, BookingOf, MergePlots
  <2>. HIDE DEF j
  <2>. QED
    BY <2>1, BeginForm DEF MergePlots, j
<1>7. CASE \E p \in Plots, s \in Edits : EditPlot(w, p, s)
  <2>. PICK p \in Plots, s \in Edits : EditPlot(w, p, s)
    BY <1>7
  <2>. DEFINE j == Plain("edit", "plotRead", p, None, s)
  <2>1. j \in Job /\ ShapeOf(j) /\ BookingOf(j) /\ j.pc = "plotRead" /\ j.bk = None
    BY TargetsAssumption DEF Plain, NoJob, Job, Ops, PCs, STATUS, ShapeOf, BookingOf
  <2>. QED
    BY <2>1, BeginForm DEF EditPlot
<1>8. CASE \E p \in Plots, s \in Advances : AdvancePlot(w, p, s)
  <2>. PICK p \in Plots, s \in Advances : AdvancePlot(w, p, s)
    BY <1>8
  <2>. DEFINE j == Plain("advance", "plotWrite", p, None, s)
  <2>1. j \in Job /\ ShapeOf(j) /\ BookingOf(j) /\ j.pc = "plotWrite" /\ j.bk = None
    BY TargetsAssumption DEF Plain, NoJob, Job, Ops, PCs, STATUS, ShapeOf, BookingOf
  <2>. QED
    BY <2>1, BeginForm DEF AdvancePlot
<1>9. CASE \E x \in Row : PayInstallment(w, x)
  <2>. PICK x \in Row : PayInstallment(w, x)
    BY <1>9
  <2>. DEFINE i == Plain("pay", "land", bkPlot[x[1]], None, None)
              j == [i EXCEPT !.held = {}, !.rows = {x}]
  <2>1. bkPlot[x[1]] \in Plots \cup {None}
    BY DEF FormInv, TypeOK, Row
  <2>2. j \in Job /\ ShapeOf(j) /\ BookingOf(j) /\ j.pc = "land" /\ j.bk = None
    BY <2>1 DEF Plain, NoJob, Job, Ops, PCs, STATUS, ShapeOf, BookingOf
  <2>. HIDE DEF j
  <2>. QED
    BY <2>2, BeginForm DEF PayInstallment, j
<1>. QED
  BY <1>1, <1>2, <1>3, <1>4, <1>5, <1>6, <1>7, <1>8, <1>9 DEF Request

LEMMA OpOfPc ==
  ASSUME NEW j \in Job, ShapeOf(j)
  PROVE  /\ j.pc = "idle" => j.op = "idle"
         /\ j.pc \in {"insert", "settings"} => j.op = "create"
         /\ j.pc \in {"confirm", "plan", "rows"} => j.op = "approve"
         /\ j.pc = "mark" => j.op \in {"reject", "cancel", "buyback"}
         /\ j.pc \in {"record", "invoice", "complete", "audit", "fail"} =>
              j.op \in {"buyback", "merge"}
         /\ j.pc = "plotRead" =>
              j.op \in {"create", "approve", "reject", "cancel", "buyback", "merge", "edit"}
         /\ j.pc = "plotWrite" => j.op \notin {"idle", "pay"}
         /\ j.pc \in {"land", "receipt"} => j.op = "pay"
BY DEF Job, Ops, ShapeOf, NoJob

LEMMA Own ==
  ASSUME FormInv, NEW w \in Workers
  PROVE  job[w] \in Job /\ ShapeOf(job[w]) /\ BookingOf(job[w])
BY DEF FormInv, TypeOK

LEMMA NoJobForm == NoJob \in Job /\ ShapeOf(NoJob) /\ BookingOf(NoJob)'
BY DEF NoJob, Job, Ops, PCs, ShapeOf, BookingOf, BookingOps

\* A request ends, and nothing of its booking changes with it.
LEMMA FinishForm ==
  ASSUME FormInv, NEW w \in Workers, Finish(w),
         bkStatus' = bkStatus, bkPlot' = bkPlot, bkMember' = bkMember, plans' = plans,
         plotStatus' \in [Plots -> PlotCell],
         row' \in [Row -> {"none", "due", "paid", "voided"}],
         record' \in [Records -> Record],
         upset' \in [Plots -> SUBSET Causes]
  PROVE  FormInv'
<1>1. job'[w] = NoJob /\ \A v \in Workers \ {w} : job'[v] = job[v]
  BY DEF FormInv, TypeOK, Finish
<1>2. TypeOK'
  BY NoJobForm DEF FormInv, TypeOK, Finish
<1>3. ShapeOf(job'[w]) /\ BookingOf(job[w])' /\ job'[w].pc # "insert" /\ job'[w].bk = None
  BY <1>1, NoJobForm DEF NoJob, BookingOf, BookingOps
<1>. QED
  BY <1>1, <1>2, <1>3, StatementForm

\* A request goes on to j without touching bookings.
LEMMA MoveForm ==
  ASSUME FormInv, NEW w \in Workers, NEW j \in Job, job' = [job EXCEPT ![w] = j],
         bkStatus' = bkStatus, bkPlot' = bkPlot, bkMember' = bkMember,
         plans' \in [Bookings -> SUBSET Workers],
         plotStatus' \in [Plots -> PlotCell],
         row' \in [Row -> {"none", "due", "paid", "voided"}],
         record' \in [Records -> Record],
         upset' \in [Plots -> SUBSET Causes],
         ShapeOf(j), BookingOf(j), j.pc # "insert", j.bk = job[w].bk
  PROVE  FormInv'
<1>1. job'[w] = j /\ \A v \in Workers \ {w} : job'[v] = job[v]
  BY DEF FormInv, TypeOK
<1>2. TypeOK'
  BY DEF FormInv, TypeOK
<1>3. BookingOf(job[w])'
  BY <1>1 DEF BookingOf
<1>. QED
  BY <1>1, <1>2, <1>3, StatementForm

LEMMA UpsetType ==
  ASSUME FormInv, NEW p, NEW c \in Causes
  PROVE  /\ upset \in [Plots -> SUBSET Causes]
         /\ Upset(p, c) => upset' \in [Plots -> SUBSET Causes]
BY DEF FormInv, TypeOK, Upset

LEMMA BreakOffType ==
  ASSUME FormInv, NEW w \in Workers, BreakOff(w)
  PROVE  upset' \in [Plots -> SUBSET Causes]
BY UpsetType DEF BreakOff, Causes

LEMMA PlotReadForm ==
  ASSUME FormInv, NEW w \in Workers, PlotUpdateRead(w)
  PROVE  FormInv'
<1>. DEFINE j == job[w]
<1>1. /\ j \in Job /\ ShapeOf(j) /\ BookingOf(j) /\ j.pc = "plotRead"
      /\ j.op \in {"create", "approve", "reject", "cancel", "buyback", "edit"}
  BY Own, OpOfPc DEF PlotUpdateRead
<1>2. UNCHANGED tables /\ upset' \in [Plots -> SUBSET Causes]
  BY UpsetType DEF PlotUpdateRead, Causes
<1>3. CASE Goto(w, "plotWrite")
  <2>. DEFINE k == [j EXCEPT !.pc = "plotWrite"]
  <2>1. k \in Job /\ ShapeOf(k) /\ BookingOf(k) /\ k.pc # "insert" /\ k.bk = j.bk
    BY <1>1 DEF Job, PCs, ShapeOf, BookingOf, BookingOps
  <2>. QED
    BY <1>2, <1>3, <2>1, MoveForm DEF Goto, tables, FormInv, TypeOK
<1>4. CASE j.op = "buyback" /\ Goto(w, "fail")
  <2>. DEFINE k == [j EXCEPT !.pc = "fail"]
  <2>1. k \in Job /\ ShapeOf(k) /\ BookingOf(k) /\ k.pc # "insert" /\ k.bk = j.bk
    BY <1>1, <1>4 DEF Job, PCs, ShapeOf, BookingOf, BookingOps
  <2>. QED
    BY <1>2, <1>4, <2>1, MoveForm DEF Goto, tables, FormInv, TypeOK
<1>5. CASE Finish(w)
  BY <1>2, <1>5, FinishForm DEF tables, FormInv, TypeOK
<1>. QED
  BY <1>3, <1>4, <1>5 DEF PlotUpdateRead

LEMMA PlotWriteForm ==
  ASSUME FormInv, NEW w \in Workers, PlotUpdateWrite(w)
  PROVE  FormInv'
<1>. DEFINE j == job[w]
<1>1. /\ j \in Job /\ ShapeOf(j) /\ BookingOf(j) /\ j.pc = "plotWrite"
      /\ j.op \notin {"idle", "pay", "merge"}
  BY Own, OpOfPc DEF PlotUpdateWrite
<1>2. upset' \in [Plots -> SUBSET Causes]
  BY UpsetType DEF PlotUpdateWrite, Causes
<1>3. j.target \in STATUS
  BY <1>1, TargetsAssumption DEF ShapeOf, STATUS, Job, Ops
<1>4. plotStatus' \in [Plots -> PlotCell]
  BY <1>3 DEF PlotUpdateWrite, SetPlot, PlotCell, FormInv, TypeOK
<1>5. CASE AfterPlotWrite(j.op) = "idle"
  BY <1>2, <1>4, <1>5, FinishForm DEF PlotUpdateWrite, FormInv, TypeOK
<1>6. CASE AfterPlotWrite(j.op) # "idle"
  <2>. DEFINE k == [j EXCEPT !.pc = AfterPlotWrite(j.op)]
  <2>1. /\ job' = [job EXCEPT ![w] = k]
        /\ j.op \in {"create", "approve", "buyback"}
    BY <1>6 DEF PlotUpdateWrite, Goto, AfterPlotWrite
  <2>2. k \in Job /\ ShapeOf(k) /\ BookingOf(k) /\ k.pc # "insert" /\ k.bk = j.bk
    BY <1>1, <2>1 DEF Job, PCs, ShapeOf, BookingOf, BookingOps, AfterPlotWrite
  <2>. HIDE DEF k
  <2>. QED
    BY <1>2, <1>4, <2>1, <2>2, MoveForm DEF PlotUpdateWrite, FormInv, TypeOK
<1>. QED
  BY <1>5, <1>6

LEMMA CreateForm ==
  ASSUME FormInv, NEW w \in Workers, InsertBooking(w) \/ AwaitApproval(w) \/ AutoApprove(w)
  PROVE  FormInv'
<1>. DEFINE j == job[w]
<1>1. j \in Job /\ ShapeOf(j) /\ BookingOf(j) /\ j.op = "create" /\ j.plot \in Plots /\ j.bk \in Bookings
  BY Own, OpOfPc DEF InsertBooking, AwaitApproval, AutoApprove, ShapeOf, BookingOps
<1>2. CASE InsertBooking(w) /\ Exists(j.plot)
  <2>. DEFINE k == [j EXCEPT !.pc = "plotRead"]
  <2>1. k \in Job /\ ShapeOf(k) /\ k.pc = "plotRead" /\ k.bk = j.bk /\ k.plot = j.plot
    BY <1>1 DEF Job, PCs, ShapeOf, BookingOps
  <2>2. /\ job' = [job EXCEPT ![w] = k]
        /\ bkStatus' = [bkStatus EXCEPT ![j.bk] = "Pending"]
        /\ bkPlot' = [bkPlot EXCEPT ![j.bk] = j.plot]
        /\ bkMember' \in [Bookings -> Members \cup {None}]
        /\ UNCHANGED <<plotStatus, plans, row, record, upset>>
    BY <1>1, <1>2 DEF InsertBooking, Goto, FormInv, TypeOK
  <2>. HIDE DEF k
  <2>3. job'[w] = k /\ \A v \in Workers \ {w} : job'[v] = job[v]
    BY <2>2 DEF FormInv, TypeOK
  <2>4. /\ bkStatus'[j.bk] = "Pending" /\ bkPlot'[j.bk] = j.plot
        /\ \A b \in Bookings \ {j.bk} : bkStatus'[b] = bkStatus[b] /\ bkPlot'[b] = bkPlot[b]
    BY <1>1, <2>2 DEF FormInv, TypeOK
  <2>5. TypeOK'
    BY <1>1, <2>1, <2>2 DEF FormInv, TypeOK, BkStatus
  <2>6. BookingOf(job[w])'
    BY <2>1, <2>3, <2>4 DEF BookingOf
  <2>. QED
    BY <1>1, <2>1, <2>3, <2>4, <2>5, <2>6, StatementForm DEF BookingOps
<1>3. CASE Finish(w) /\ UNCHANGED <<tables, upset>>
  BY <1>3, FinishForm DEF tables, FormInv, TypeOK
<1>4. CASE AutoApprove(w) /\ bkStatus[j.bk] = "Pending"
  <2>. DEFINE k == Plain("approve", "plotRead", j.plot, j.bk, "Allotted")
  <2>1. /\ k \in Job /\ ShapeOf(k) /\ BookingOf(k) /\ k.pc # "insert" /\ k.bk = j.bk
        /\ job' = [job EXCEPT ![w] = k]
    BY <1>1, <1>4, ZenonT(60) DEF AutoApprove, Plain, NoJob, Job, Ops, PCs, STATUS, ShapeOf, BookingOf, BookingOps
  <2>. HIDE DEF k
  <2>. QED
    BY <1>4, <2>1, MoveForm DEF AutoApprove, tables, FormInv, TypeOK
<1>. QED
  BY <1>2, <1>3, <1>4 DEF InsertBooking, AwaitApproval, AutoApprove, tables

LEMMA ApproveForm ==
  ASSUME FormInv, NEW w \in Workers, ConfirmBooking(w) \/ CreatePlan(w) \/ CreateInstallment(w)
  PROVE  FormInv'
<1>. DEFINE j == job[w]
<1>1. j \in Job /\ ShapeOf(j) /\ BookingOf(j) /\ j.op = "approve" /\ j.bk \in Bookings /\ j.plot \in Plots
  BY Own, OpOfPc DEF ConfirmBooking, CreatePlan, CreateInstallment, ShapeOf, BookingOps
<1>2. CASE ConfirmBooking(w)
  <2>. DEFINE k == [j EXCEPT !.pc = "plan"]
  <2>1. /\ k \in Job /\ ShapeOf(k) /\ k.pc = "plan" /\ k.bk = j.bk /\ k.plot = j.plot
        /\ job' = [job EXCEPT ![w] = k]
    BY <1>1, <1>2 DEF ConfirmBooking, Goto, Job, PCs, ShapeOf, BookingOps
  <2>. HIDE DEF k
  <2>2. job'[w] = k /\ \A v \in Workers \ {w} : job'[v] = job[v]
    BY <2>1 DEF FormInv, TypeOK
  <2>3. /\ bkStatus'[j.bk] = "Confirmed" /\ bkPlot' = bkPlot /\ bkPlot[j.bk] = j.plot
        /\ \A b \in Bookings \ {j.bk} : bkStatus'[b] = bkStatus[b]
    BY <1>1, <1>2 DEF ConfirmBooking, FormInv, TypeOK, BookingOf, BookingOps
  <2>4. TypeOK'
    BY <1>1, <1>2, <2>1 DEF ConfirmBooking, FormInv, TypeOK, BkStatus
  <2>5. BookingOf(job[w])'
    BY <2>1, <2>2, <2>3 DEF BookingOf
  <2>. QED
    BY <1>1, <2>1, <2>2, <2>3, <2>4, <2>5, StatementForm DEF BookingOps
<1>3. CASE CreatePlan(w)
  <2>. DEFINE k == [j EXCEPT !.pc = "rows", !.rows = {j.bk} \X {w} \X Installments]
  <2>1. /\ k \in Job /\ ShapeOf(k) /\ BookingOf(k) /\ k.pc # "insert" /\ k.bk = j.bk
        /\ job' = [job EXCEPT ![w] = k]
    BY <1>1, <1>3, ZenonT(60) DEF CreatePlan, Job, PCs, Row, ShapeOf, BookingOf, BookingOps
  <2>. HIDE DEF k
  <2>2. plans' \in [Bookings -> SUBSET Workers]
    BY <1>1, <1>3 DEF CreatePlan, FormInv, TypeOK
  <2>. QED
    BY <1>3, <2>1, <2>2, MoveForm DEF CreatePlan, FormInv, TypeOK
<1>4. CASE CreateInstallment(w)
  <2>1. PICK x \in j.rows :
          /\ row' = [row EXCEPT ![x] = "due"]
          /\ IF j.rows = {x} THEN Finish(w)
             ELSE job' = [job EXCEPT ![w].rows = @ \ {x}]
    BY <1>4 DEF CreateInstallment
  <2>2. row' \in [Row -> {"none", "due", "paid", "voided"}]
    BY <2>1 DEF FormInv, TypeOK
  <2>3. CASE Finish(w)
    BY <1>4, <2>2, <2>3, FinishForm DEF CreateInstallment, FormInv, TypeOK
  <2>4. CASE job' = [job EXCEPT ![w].rows = @ \ {x}]
    <3>. DEFINE k == [j EXCEPT !.rows = @ \ {x}]
    <3>1. /\ k \in Job /\ ShapeOf(k) /\ BookingOf(k) /\ k.pc # "insert" /\ k.bk = j.bk
          /\ job' = [job EXCEPT ![w] = k]
      BY <1>1, <1>4, <2>4 DEF CreateInstallment, Job, ShapeOf, BookingOf, BookingOps
    <3>. HIDE DEF k
    <3>. QED
      BY <1>4, <2>2, <3>1, MoveForm DEF CreateInstallment, FormInv, TypeOK
  <2>. QED
    BY <2>1, <2>3, <2>4
<1>. QED
  BY <1>2, <1>3, <1>4

LEMMA CancelForm ==
  ASSUME FormInv, NEW w \in Workers, VoidInstallment(w) \/ MarkCancelled(w)
  PROVE  FormInv'
<1>. DEFINE j == job[w]
<1>1. /\ j \in Job /\ ShapeOf(j) /\ BookingOf(j) /\ j.op \in {"reject", "cancel", "buyback"}
      /\ j.pc = "mark" /\ j.bk \in Bookings /\ j.plot \in Plots
  BY Own, OpOfPc DEF VoidInstallment, MarkCancelled, ShapeOf, BookingOps
<1>2. CASE VoidInstallment(w)
  <2>1. PICK x \in j.rows :
          /\ row' = [row EXCEPT ![x] = "voided"]
          /\ job' = [job EXCEPT ![w].rows = @ \ {x}]
    BY <1>2 DEF VoidInstallment
  <2>2. row' \in [Row -> {"none", "due", "paid", "voided"}]
    BY <2>1 DEF FormInv, TypeOK
  <2>. DEFINE k == [j EXCEPT !.rows = @ \ {x}]
  <2>3. /\ k \in Job /\ ShapeOf(k) /\ BookingOf(k) /\ k.pc # "insert" /\ k.bk = j.bk
        /\ job' = [job EXCEPT ![w] = k]
    BY <1>1, <2>1 DEF Job, ShapeOf, BookingOf, BookingOps
  <2>. HIDE DEF k
  <2>. QED
    BY <1>2, <2>2, <2>3, MoveForm DEF VoidInstallment, FormInv, TypeOK
<1>3. CASE MarkCancelled(w)
  <2>. DEFINE k == [j EXCEPT !.pc = IF j.op = "buyback" THEN "complete" ELSE "plotRead"]
  <2>1. /\ k \in Job /\ ShapeOf(k) /\ k.pc \in {"complete", "plotRead"}
        /\ k.bk = j.bk /\ k.plot = j.plot /\ job' = [job EXCEPT ![w] = k]
    BY <1>1, <1>3 DEF MarkCancelled, Goto, Job, PCs, ShapeOf, BookingOps
  <2>. HIDE DEF k
  <2>2. job'[w] = k /\ \A v \in Workers \ {w} : job'[v] = job[v]
    BY <2>1 DEF FormInv, TypeOK
  <2>3. /\ bkStatus'[j.bk] = "Cancelled" /\ bkPlot' = bkPlot /\ bkPlot[j.bk] = j.plot
        /\ \A b \in Bookings \ {j.bk} : bkStatus'[b] = bkStatus[b]
    BY <1>1, <1>3 DEF MarkCancelled, FormInv, TypeOK, BookingOf, BookingOps
  <2>4. TypeOK'
    BY <1>1, <1>3, <2>1 DEF MarkCancelled, FormInv, TypeOK, BkStatus
  <2>5. BookingOf(job[w])'
    BY <2>1, <2>2, <2>3 DEF BookingOf
  <2>. QED
    BY <1>1, <2>1, <2>2, <2>3, <2>4, <2>5, StatementForm DEF BookingOps
<1>. QED
  BY <1>2, <1>3

LEMMA RecordForm ==
  ASSUME FormInv, NEW w \in Workers,
         \/ CreateRecord(w) \/ RegisterInvoice(w) \/ CompleteRecord(w)
         \/ WriteAudit(w) \/ StepFails(w) \/ FailRecord(w)
  PROVE  FormInv'
<1>. DEFINE j == job[w]
<1>1. /\ j \in Job /\ ShapeOf(j) /\ BookingOf(j) /\ j.op \in {"buyback", "merge"}
      /\ j.rec \in Records /\ (j.op = "buyback" => j.bk \in Bookings /\ j.plot \in Plots)
      /\ (j.op = "merge" => j.bk = None)
  BY Own, OpOfPc DEF CreateRecord, RegisterInvoice, CompleteRecord, WriteAudit, StepFails,
                     FailRecord, ShapeOf, BookingOps
<1>2. \A pc \in {"invoice", "plotRead", "audit", "fail"} :
        Goto(w, pc) /\ (j.pc # "insert") =>
          \E k \in Job : /\ job' = [job EXCEPT ![w] = k] /\ ShapeOf(k) /\ BookingOf(k)
                         /\ k.pc # "insert" /\ k.bk = j.bk
  <2>. SUFFICES ASSUME NEW pc \in {"invoice", "plotRead", "audit", "fail"},
                       Goto(w, pc), j.pc # "insert"
                PROVE  \E k \in Job : /\ job' = [job EXCEPT ![w] = k] /\ ShapeOf(k)
                                      /\ BookingOf(k) /\ k.pc # "insert" /\ k.bk = j.bk
    OBVIOUS
  <2>. DEFINE k == [j EXCEPT !.pc = pc]
  <2>1. /\ k \in Job /\ ShapeOf(k) /\ BookingOf(k) /\ k.pc # "insert" /\ k.bk = j.bk
        /\ job' = [job EXCEPT ![w] = k]
    BY <1>1 DEF Goto, Job, PCs, ShapeOf, BookingOf, BookingOps
  <2>. HIDE DEF k
  <2>. QED
    BY <2>1
<1>3. record' \in [Records -> Record]
  <2>1. \A s \in {"Completed", "Failed"} : SetRecord(w, s) => record' \in [Records -> Record]
    <3>1. record[j.rec] \in Record
      BY <1>1 DEF FormInv, TypeOK
    <3>2. \A s \in {"Completed", "Failed"} : [record[j.rec] EXCEPT !.status = s] \in Record
      BY <3>1 DEF Record
    <3>. QED
      BY <1>1, <3>2 DEF SetRecord, FormInv, TypeOK
  <2>2. CreateRecord(w) => record' \in [Records -> Record]
    BY <1>1 DEF CreateRecord, Record, FormInv, TypeOK, Job
  <2>. QED
    BY <2>1, <2>2 DEF RegisterInvoice, CompleteRecord, WriteAudit, StepFails, FailRecord,
                      tables, FormInv, TypeOK
<1>4. /\ bkStatus' = bkStatus /\ bkPlot' = bkPlot /\ bkMember' = bkMember /\ plans' = plans
      /\ plotStatus' = plotStatus /\ row' = row /\ upset' \in [Plots -> SUBSET Causes]
  BY BreakOffType DEF CreateRecord, RegisterInvoice, CompleteRecord, WriteAudit, StepFails,
                      FailRecord, tables, FormInv, TypeOK
<1>5. CASE Finish(w)
  BY <1>3, <1>4, <1>5, FinishForm DEF FormInv, TypeOK
<1>6. CASE \E pc \in {"invoice", "plotRead", "audit", "fail"} : Goto(w, pc)
  <2>1. j.pc # "insert"
    BY <1>1, InsertIsCreate
  <2>2. PICK k \in Job : /\ job' = [job EXCEPT ![w] = k] /\ ShapeOf(k) /\ BookingOf(k)
                         /\ k.pc # "insert" /\ k.bk = j.bk
    BY <1>2, <1>6, <2>1
  <2>. QED
    BY <1>3, <1>4, <2>2, MoveForm DEF FormInv, TypeOK
<1>. QED
  BY <1>5, <1>6 DEF CreateRecord, RegisterInvoice, CompleteRecord, WriteAudit, StepFails, FailRecord

LEMMA MergeForm ==
  ASSUME FormInv, NEW w \in Workers, MergeRead(w) \/ MergeWrite(w)
  PROVE  FormInv'
<1>. DEFINE j == job[w]
<1>1. j \in Job /\ ShapeOf(j) /\ j.op = "merge" /\ j.bk = None /\ j.todo \subseteq j.held
  BY Own DEF MergeRead, MergeWrite, ShapeOf
<1>2. CASE MergeRead(w)
  <2>1. PICK q \in j.todo :
          \/ job' = [job EXCEPT ![w].pc = "plotWrite", ![w].plot = q]
          \/ Goto(w, "fail")
    BY <1>2 DEF MergeRead
  <2>2. q \in Plots /\ q \in j.held
    BY <1>1 DEF Job
  <2>3. CASE job' = [job EXCEPT ![w].pc = "plotWrite", ![w].plot = q]
    <3>. DEFINE k == [j EXCEPT !.pc = "plotWrite", !.plot = q]
    <3>1. job' = [job EXCEPT ![w] = k]
      BY <2>3 DEF FormInv, TypeOK
    <3>2. k \in Job /\ k.pc = "plotWrite" /\ k.bk = j.bk
      BY <1>1, <2>2 DEF Job, PCs
    <3>3. ShapeOf(k) /\ BookingOf(k)
      BY <1>1, <2>2 DEF Job, ShapeOf, BookingOf, BookingOps
    <3>. HIDE DEF k
    <3>. QED
      BY <1>2, <3>1, <3>2, <3>3, MoveForm DEF MergeRead, tables, FormInv, TypeOK
  <2>4. CASE Goto(w, "fail")
    <3>. DEFINE k == [j EXCEPT !.pc = "fail"]
    <3>1. /\ k \in Job /\ ShapeOf(k) /\ BookingOf(k) /\ k.pc # "insert" /\ k.bk = j.bk
          /\ job' = [job EXCEPT ![w] = k]
      BY <1>1, <2>4 DEF Goto, Job, PCs, ShapeOf, BookingOf, BookingOps
    <3>. HIDE DEF k
    <3>. QED
      BY <1>2, <3>1, MoveForm DEF MergeRead, tables, FormInv, TypeOK
  <2>. QED
    BY <2>1, <2>3, <2>4
<1>3. CASE MergeWrite(w)
  <2>. DEFINE c == IF j.todo = {j.plot} THEN "complete" ELSE "plotRead"
              t == j.todo \ {j.plot}
              k == [j EXCEPT !.pc = c, !.todo = t]
  <2>1. job' = [job EXCEPT ![w] = k]
    BY <1>3 DEF MergeWrite, FormInv, TypeOK
  <2>5. c \in {"complete", "plotRead"} /\ t \in SUBSET Plots
    BY <1>1 DEF Job
  <2>3. k \in Job /\ k.pc \in {"complete", "plotRead"} /\ k.bk = j.bk
    <3>. HIDE DEF c, t
    <3>. QED
      BY <1>1, <2>5 DEF Job, PCs
  <2>4. ShapeOf(k) /\ BookingOf(k)
    BY <1>1 DEF Job, ShapeOf, BookingOf, BookingOps
  <2>. HIDE DEF k
  <2>2. plotStatus' \in [Plots -> PlotCell]
    BY <1>3 DEF MergeWrite, SetPlot, PlotCell, STATUS, FormInv, TypeOK
  <2>. QED
    BY <1>3, <2>1, <2>2, <2>3, <2>4, MoveForm DEF MergeWrite, FormInv, TypeOK
<1>. QED
  BY <1>2, <1>3

LEMMA EndForm ==
  ASSUME FormInv, NEW w \in Workers,
         LandPayment(w) \/ CompletePayment(w) \/ RollbackPayment(w) \/ Die(w)
  PROVE  FormInv'
<1>. DEFINE j == job[w]
<1>0. j \in Job /\ ShapeOf(j)
  BY Own
<1>1. CASE LandPayment(w)
  <2>1. row' \in [Row -> {"none", "due", "paid", "voided"}]
    BY <1>1 DEF LandPayment, FormInv, TypeOK
  <2>. DEFINE k == [j EXCEPT !.pc = "receipt"]
  <2>2. /\ k \in Job /\ ShapeOf(k) /\ BookingOf(k) /\ k.pc # "insert" /\ k.bk = j.bk
        /\ job' = [job EXCEPT ![w] = k]
    BY <1>0, <1>1, OpOfPc DEF LandPayment, Goto, Job, PCs, ShapeOf, BookingOf, BookingOps
  <2>. HIDE DEF k
  <2>. QED
    BY <1>1, <2>1, <2>2, MoveForm DEF LandPayment, FormInv, TypeOK
<1>2. CASE CompletePayment(w) \/ RollbackPayment(w)
  <2>1. row' \in [Row -> {"none", "due", "paid", "voided"}]
    BY <1>2 DEF CompletePayment, RollbackPayment, tables, FormInv, TypeOK
  <2>. QED
    BY <1>2, <2>1, FinishForm
       DEF CompletePayment, RollbackPayment, tables, FormInv, TypeOK
<1>3. CASE Die(w)
  BY <1>3, BreakOffType, FinishForm DEF Die, tables, FormInv, TypeOK
<1>. QED
  BY <1>1, <1>2, <1>3

LEMMA PlotForm ==
  ASSUME FormInv, NEW p \in Plots, AddPlot(p) \/ RemovePlot(p)
  PROVE  FormInv'
<1>1. TypeOK'
  BY DEF AddPlot, RemovePlot, FormInv, TypeOK, PlotCell, STATUS
<1>2. \A w \in Workers : ShapeOf(job[w])' /\ BookingOf(job[w])'
  BY DEF AddPlot, RemovePlot, FormInv, ShapeOf, BookingOf
<1>3. Located' /\ Reserved'
  BY DEF AddPlot, RemovePlot, FormInv, Located, Reserved
<1>. QED
  BY <1>1, <1>2, <1>3 DEF FormInv, ShapeOf

LEMMA FormStep ==
  ASSUME FormInv, [Next]_vars
  PROVE  FormInv'
<1>1. ASSUME NEW w \in Workers, Statement(w) PROVE FormInv'
  BY <1>1, PlotReadForm, PlotWriteForm, CreateForm, ApproveForm, CancelForm, RecordForm,
     MergeForm, EndForm DEF Statement
<1>2. CASE UNCHANGED vars
  <2>1. TypeOK'
    BY <1>2 DEF vars, FormInv, TypeOK
  <2>2. \A w \in Workers : ShapeOf(job'[w]) /\ BookingOf(job[w])'
    BY <1>2 DEF vars, FormInv, BookingOf
  <2>3. Located' /\ Reserved'
    BY <1>2 DEF vars, FormInv, Located, Reserved
  <2>. QED
    BY <2>1, <2>2, <2>3 DEF FormInv
<1>. QED
  BY <1>1, <1>2, RequestForm, EndForm, PlotForm DEF Next

LEMMA FormInit == Init => FormInv
<1>. SUFFICES ASSUME Init PROVE FormInv
  OBVIOUS
<1>1. TypeOK
  BY NoJobForm DEF Init, TypeOK, PlotCell, BkStatus, Record, NoRecord
<1>2. \A w \in Workers : ShapeOf(job[w]) /\ BookingOf(job[w])
  BY NoJobForm DEF Init, NoJob, BookingOf, BookingOps
<1>3. Located /\ Reserved
  BY DEF Init, Located, Reserved, NoJob
<1>. QED
  BY <1>1, <1>2, <1>3 DEF FormInv

\* Every reachable state has its columns and requests well formed; requests
\* work on the plot of their booking, and ids are handed out once.
THEOREM FormCorrect == Spec => []FormInv
BY FormInit, FormStep, PTL DEF Spec

\* The type invariant of the desk.
THEOREM TypeCorrect == Spec => []TypeOK
<1>1. FormInv => TypeOK
  BY DEF FormInv
<1>. QED
  BY <1>1, FormCorrect, PTL

-----------------------------------------------------------------------------
(* The plots *)

Both(p) == TableInv(p) /\ PlotInv(p)

\* What does not touch plot p, its live bookings or its requests keeps both.
LEMMA PlotLocal ==
  ASSUME NEW p \in Plots, Both(p),
         upset[p] \subseteq upset'[p], plotStatus'[p] = plotStatus[p],
         Live(p)' = Live(p), \A b \in Live(p) : bkStatus'[b] = bkStatus[b],
         \A v \in Workers : \/ job'[v] = job[v]
                            \/ /\ p \notin job[v].held /\ p \notin job'[v].held
                               /\ job'[v].pc = "plotWrite" => job'[v].plot # p
  PROVE  Both(p)'
<1>1. TableInv(p)'
  BY DEF Both, TableInv, Alone, Checked, Exists
<1>2. ASSUME Quiet(p)' PROVE Quiet(p)
  BY <1>2 DEF Quiet
<1>3. \A s : Agrees(p, s)' <=> Agrees(p, s)
  BY DEF Agrees
<1>4. \A j : Story(j, p)' <=> Story(j, p)
  BY <1>3 DEF Story, Has, Exists
<1>5. ASSUME Quiet(p)' PROVE OneBuyer(p)'
  BY <1>2, <1>5 DEF Both, PlotInv, OneBuyer
<1>6. ASSUME Quiet(p)', NEW w \in Workers, p \in job'[w].held PROVE Story(job[w], p)'
  BY <1>2, <1>4, <1>6 DEF Both, PlotInv, Story
<1>7. ASSUME Quiet(p)', ~Held(p)' PROVE Agrees(p, plotStatus[p])'
  BY <1>2, <1>3, <1>7 DEF Both, PlotInv, Held
<1>. QED
  BY <1>1, <1>5, <1>6, <1>7 DEF Both, PlotInv

\* Plots and bookings stay, and with them what is said of plot p.
LEMMA TablesSame ==
  ASSUME UNCHANGED <<plotStatus, bkStatus, bkPlot>>, NEW p
  PROVE  /\ plotStatus' = plotStatus /\ Live(p)' = Live(p)
         /\ \A b : bkStatus'[b] = bkStatus[b]
         /\ \A s : Agrees(p, s)' <=> Agrees(p, s)
         /\ \A j : Story(j, p)' <=> Story(j, p)
         /\ OneBuyer(p)' <=> OneBuyer(p)
<1>1. plotStatus' = plotStatus /\ bkStatus' = bkStatus /\ bkPlot' = bkPlot
  OBVIOUS
<1>2. Live(p)' = Live(p)
  BY <1>1 DEF Live
<1>3. \A s : Agrees(p, s)' <=> Agrees(p, s)
  BY <1>1, <1>2 DEF Agrees
<1>. QED
  BY <1>1, <1>2, <1>3 DEF Story, Has, Exists, OneBuyer

\* A request begins on plots where nobody works, or it upsets them.
LEMMA BeginPlot ==
  ASSUME FormInv, NEW w \in Workers, NEW j \in Job, Begin(w, j), UNCHANGED tables,
         NEW p \in Plots, Both(p),
         p \in j.held /\ Agrees(p, plotStatus[p]) => Story(j, p),
         j.pc = "plotWrite" => j.plot \in j.held,
         j.pc = "plotWrite" /\ j.plot = p =>
           Exists(p) /\ canTransition(plotStatus[p], j.target)
  PROVE  Both(p)'
<1>1. /\ job[w] = NoJob /\ job'[w] = j /\ \A v \in Workers \ {w} : job'[v] = job[v]
      /\ job[w].held = {}
  BY DEF Begin, FormInv, TypeOK, NoJob
<1>2. upset[p] \subseteq upset'[p]
  BY DEF Begin, FormInv, TypeOK
<1>3. plotStatus' = plotStatus /\ Live(p)' = Live(p) /\ \A b : bkStatus'[b] = bkStatus[b]
  BY TablesSame DEF tables
<1>4. CASE p \notin j.held
  BY <1>1, <1>2, <1>3, <1>4, PlotLocal
<1>5. CASE p \in j.held
  <2>1. ASSUME NEW v \in Workers, p \in job[v].held
        PROVE  "overlap" \in upset'[p]
    BY <1>5, <2>1 DEF Begin, Clash, FormInv, TypeOK
  <2>2. TableInv(p)'
    <3>. SUFFICES ASSUME "overlap" \notin upset'[p]
                  PROVE  Alone(p)' /\ Checked(p)'
      BY DEF TableInv
    <3>1. \A v \in Workers : p \notin job[v].held
      BY <2>1
    <3>2. Alone(p)'
      BY <1>1, <3>1 DEF Alone
    <3>3. Checked(p)
      BY <1>2 DEF Both, TableInv
    <3>4. Exists(p)' <=> Exists(p)
      BY <1>3 DEF Exists
    <3>5. Checked(p)'
      BY <1>1, <1>3, <3>3, <3>4 DEF Checked, Exists, STATUS
    <3>. QED
      BY <3>2, <3>5
  <2>3. PlotInv(p)'
    <3>. SUFFICES ASSUME Quiet(p)'
                  PROVE  /\ OneBuyer(p)' /\ Held(p)'
                         /\ \A v \in Workers : p \in job'[v].held => Story(job[v], p)'
      BY DEF PlotInv
    <3>1. Quiet(p) /\ \A v \in Workers : p \notin job[v].held
      BY <1>2, <2>1 DEF Quiet
    <3>2. OneBuyer(p) /\ Agrees(p, plotStatus[p])
      BY <3>1 DEF Both, PlotInv, Held
    <3>3. Story(j, p)
      BY <1>5, <3>2
    <3>4. Story(job[w], p)'
      BY <1>1, <3>3, TablesSame DEF Story, tables
    <3>. QED
      BY <1>1, <1>5, <3>1, <3>2, <3>4, TablesSame DEF Held, tables
  <2>. QED
    BY <2>2, <2>3 DEF Both
<1>. QED
  BY <1>4, <1>5

\* The one request on plot p takes a step; nobody else is there while it is quiet.
LEMMA StepPlot ==
  ASSUME FormInv, NEW w \in Workers, NEW p \in Plots, Both(p), p \in job[w].held,
         \A v \in Workers \ {w} : job'[v] = job[v], NEW j, job'[w] = j,
         NEW s, plotStatus'[p] = s,
         upset[p] \subseteq upset'[p], j.held \subseteq job[w].held,
         j.pc = "plotWrite" /\ j.plot = p =>
           /\ s # "Absent"
           /\ s \in STATUS => canTransition(s, j.target),
         s = plotStatus[p] \/ (plotStatus[p] \in STATUS /\ s \in STATUS),
         Quiet(p)' /\ Quiet(p) /\ OneBuyer(p) /\ Story(job[w], p) =>
           /\ OneBuyer(p)'
           /\ p \in j.held => Story(j, p)'
           /\ p \notin j.held => Agrees(p, s)'
  PROVE  Both(p)'
<1>1. TableInv(p)'
  <2>. SUFFICES ASSUME "overlap" \notin upset'[p] PROVE Alone(p)' /\ Checked(p)'
    BY DEF TableInv
  <2>1. Alone(p) /\ Checked(p)
    BY DEF Both, TableInv
  <2>2. Alone(p)'
    BY <2>1 DEF Alone
  <2>3. \A v \in Workers \ {w} : job[v].pc = "plotWrite" => job[v].plot # p
    <3>. SUFFICES ASSUME NEW v \in Workers \ {w}, job[v].pc = "plotWrite" PROVE job[v].plot # p
      OBVIOUS
    <3>1. job[v] \in Job /\ ShapeOf(job[v])
      BY Own
    <3>2. job[v].plot \in job[v].held
      BY <3>1, OpOfPc DEF ShapeOf, BookingOps, Job, Ops
    <3>. QED
      BY <2>1, <3>2 DEF Alone
  <2>4. Checked(p)'
    BY <2>3 DEF Checked, Exists
  <2>. QED
    BY <2>2, <2>4
<1>2. PlotInv(p)'
  <2>. SUFFICES ASSUME Quiet(p)'
                PROVE  /\ OneBuyer(p)'
                       /\ \A v \in Workers : p \in job'[v].held => Story(job[v], p)'
                       /\ ~Held(p)' => Agrees(p, plotStatus[p])'
    BY DEF PlotInv
  <2>1. Quiet(p) /\ Alone(p)
    BY DEF Quiet, Both, TableInv
  <2>2. OneBuyer(p) /\ Story(job[w], p)
    BY <2>1 DEF Both, PlotInv
  <2>3. \A v \in Workers \ {w} : p \notin job'[v].held
    BY <2>1 DEF Alone
  <2>4. Story(j, p)' => Story(job[w], p)'
    BY DEF Story
  <2>5. Agrees(p, s)' => Agrees(p, plotStatus[p])'
    BY DEF Agrees
  <2>. QED
    BY <2>1, <2>2, <2>3, <2>4, <2>5 DEF Held
<1>. QED
  BY <1>1, <1>2 DEF Both

LEMMA RequestPlot ==
  ASSUME FormInv, NEW w \in Workers, Request(w), NEW p \in Plots, Both(p)
  PROVE  Both(p)'
<1>1. CASE \E q \in Plots, b \in Bookings : CreateBooking(w, q, b)
  <2>. PICK q \in Plots, b \in Bookings : CreateBooking(w, q, b)
    BY <1>1
  <2>. DEFINE j == Plain("create", "insert", q, b, "Booked")
  <2>1. j \in Job /\ j.op = "create" /\ j.pc = "insert" /\ j.held = {q}
    BY DEF Plain, NoJob, Job, Ops, PCs, STATUS
  <2>. HIDE DEF j
  <2>2. p \in j.held /\ Agrees(p, plotStatus[p]) => Story(j, p)
    BY <2>1 DEF CreateBooking, Agrees, Story, AllottedOrLater
  <2>. QED
    BY <2>1, <2>2, BeginPlot DEF CreateBooking, j
<1>2. CASE \E b \in Bookings : ApproveBooking(w, b)
  <2>. PICK b \in Bookings : ApproveBooking(w, b)
    BY <1>2
  <2>. DEFINE j == Plain("approve", "plotRead", bkPlot[b], b, "Allotted")
  <2>0. bkPlot[b] \in Plots
    BY ActiveLocated DEF ApproveBooking
  <2>1. j \in Job /\ j.op = "approve" /\ j.pc = "plotRead" /\ j.held = {bkPlot[b]} /\ j.bk = b
    BY <2>0 DEF Plain, NoJob, Job, Ops, PCs, STATUS
  <2>. HIDE DEF j
  <2>2. p \in j.held /\ Agrees(p, plotStatus[p]) => Story(j, p)
    BY <2>1 DEF ApproveBooking, Agrees, Story, Has, Live, Active
  <2>. QED
    BY <2>1, <2>2, BeginPlot DEF ApproveBooking, j
<1>3. CASE \E b \in Bookings : RejectBooking(w, b)
  <2>. PICK b \in Bookings : RejectBooking(w, b)
    BY <1>3
  <2>. DEFINE j == Plain("reject", "mark", bkPlot[b], b, "Available")
  <2>0. bkPlot[b] \in Plots
    BY ActiveLocated DEF RejectBooking
  <2>1. j \in Job /\ j.op = "reject" /\ j.pc = "mark" /\ j.held = {bkPlot[b]} /\ j.bk = b
    BY <2>0 DEF Plain, NoJob, Job, Ops, PCs, STATUS
  <2>. HIDE DEF j
  <2>2. p \in j.held /\ Agrees(p, plotStatus[p]) => Story(j, p)
    BY <2>1 DEF RejectBooking, Story, Live, Active
  <2>. QED
    BY <2>1, <2>2, BeginPlot DEF RejectBooking, j
<1>4. CASE \E b \in Bookings : CancelBooking(w, b)
  <2>. PICK b \in Bookings : CancelBooking(w, b)
    BY <1>4
  <2>. PICK rs \in ToVoid(b) :
         Begin(w, [Plain("cancel", "mark", bkPlot[b], b, "Available") EXCEPT !.rows = rs])
    BY DEF CancelBooking
  <2>. DEFINE j == [Plain("cancel", "mark", bkPlot[b], b, "Available") EXCEPT !.rows = rs]
  <2>0. bkPlot[b] \in Plots
    BY ActiveLocated DEF CancelBooking, Active
  <2>1. rs \subseteq Row
    BY DEF ToVoid, Unpaid, FallbackRows, PlanRows, Row, FormInv, TypeOK
  <2>2. j \in Job /\ j.op = "cancel" /\ j.pc = "mark" /\ j.held = {bkPlot[b]} /\ j.bk = b
    BY <2>0, <2>1 DEF Plain, NoJob, Job, Ops, PCs, STATUS
  <2>. HIDE DEF j
  <2>3. p \in j.held /\ Agrees(p, plotStatus[p]) => Story(j, p)
    BY <2>2 DEF CancelBooking, Story, Live, Active
  <2>. QED
    BY <2>2, <2>3, BeginPlot DEF CancelBooking, j
<1>5. CASE \E b \in Bookings, r \in Records, s \in {"Available", "Cancelled"} : BuyBack(w, b, r, s)
  <2>. PICK b \in Bookings, r \in Records, s \in {"Available", "Cancelled"} : BuyBack(w, b, r, s)
    BY <1>5
  <2>. DEFINE j == [Plain("buyback", "record", bkPlot[b], b, s) EXCEPT !.rec = r]
  <2>0. bkPlot[b] \in Plots
    BY ActiveLocated DEF BuyBack, Active
  <2>1. j \in Job /\ j.op = "buyback" /\ j.pc = "record" /\ j.held = {bkPlot[b]} /\ j.bk = b
    BY <2>0 DEF Plain, NoJob, Job, Ops, PCs, STATUS
  <2>. HIDE DEF j
  <2>2. p \in j.held /\ Agrees(p, plotStatus[p]) => Story(j, p)
    BY <2>1 DEF BuyBack, Story, Live, Active
  <2>. QED
    BY <2>1, <2>2, BeginPlot DEF BuyBack, j
<1>6. CASE \E S \in SUBSET Plots, res \in Plots, r \in Records : MergePlots(w, S, res, r)
  <2>. PICK S \in SUBSET Plots, res \in Plots, r \in Records : MergePlots(w, S, res, r)
    BY <1>6
  <2>. DEFINE j == [NoJob EXCEPT !.op = "merge", !.pc = "record", !.plot = res, !.held = S,
                                 !.target = "Merged", !.todo = S \ {res}, !.rec = r]
  <2>1. j \in Job /\ j.op = "merge" /\ j.pc = "record" /\ j.held = S
    BY DEF NoJob, Job, Ops, PCs, STATUS
  <2>. HIDE DEF j
  <2>2. p \in j.held /\ Agrees(p, plotStatus[p]) => Story(j, p)
    BY <2>1 DEF MergePlots, Story
  <2>. QED
    BY <2>1, <2>2, BeginPlot DEF MergePlots, j
<1>7. CASE \E q \in Plots, s \in Edits : EditPlot(w, q, s)
  <2>. PICK q \in Plots, s \in Edits : EditPlot(w, q, s)
    BY <1>7
  <2>. DEFINE j == Plain("edit", "plotRead", q, None, s)
  <2>1. j \in Job /\ j.op = "edit" /\ j.pc = "plotRead" /\ j.held = {q}
    BY TargetsAssumption DEF Plain, NoJob, Job, Ops, PCs, STATUS
  <2>. HIDE DEF j
  <2>2. p \in j.held /\ Agrees(p, plotStatus[p]) => Story(j, p)
    BY <2>1 DEF Story
  <2>. QED
    BY <2>1, <2>2, BeginPlot DEF EditPlot, j
<1>8. CASE \E q \in Plots, s \in Advances : AdvancePlot(w, q, s)
  <2>. PICK q \in Plots, s \in Advances : AdvancePlot(w, q, s)
    BY <1>8
  <2>. DEFINE j == Plain("advance", "plotWrite", q, None, s)
  <2>1. /\ j \in Job /\ j.op = "advance" /\ j.pc = "plotWrite" /\ j.held = {q}
        /\ j.plot = q /\ j.target = s
    BY TargetsAssumption DEF Plain, NoJob, Job, Ops, PCs, STATUS
  <2>. HIDE DEF j
  <2>2. p \in j.held /\ Agrees(p, plotStatus[p]) => Story(j, p)
    BY <2>1 DEF Story
  <2>. QED
    BY <2>1, <2>2, BeginPlot DEF AdvancePlot, j
<1>9. CASE \E x \in Row : PayInstallment(w, x)
  <2>. PICK x \in Row : PayInstallment(w, x)
    BY <1>9
  <2>. DEFINE j == [Plain("pay", "land", bkPlot[x[1]], None, None) EXCEPT !.held = {}, !.rows = {x}]
  <2>1. bkPlot[x[1]] \in Plots \cup {None}
    BY DEF FormInv, TypeOK, Row
  <2>2. j \in Job /\ j.op = "pay" /\ j.pc = "land" /\ j.held = {}
    BY <2>1 DEF Plain, NoJob, Job, Ops, PCs, STATUS
  <2>. HIDE DEF j
  <2>. QED
    BY <2>2, BeginPlot DEF PayInstallment, j
<1>. QED
  BY <1>1, <1>2, <1>3, <1>4, <1>5, <1>6, <1>7, <1>8, <1>9 DEF Request

\* What a statement of a request can change: its own booking and its own plots.
Works(w) ==
  /\ \A v \in Workers \ {w} : job'[v] = job[v]
  /\ job'[w].held \subseteq job[w].held
  /\ \A q \in Plots : upset[q] \subseteq upset'[q]
  /\ \A q \in Plots \ job[w].held : plotStatus'[q] = plotStatus[q]
  /\ \/ bkStatus' = bkStatus /\ bkPlot' = bkPlot
     \/ /\ job[w].op \in BookingOps
        /\ \A b \in Bookings \ {job[w].bk} : bkStatus'[b] = bkStatus[b] /\ bkPlot'[b] = bkPlot[b]
        /\ bkPlot'[job[w].bk] = job[w].plot

LEMMA UpsetGrows ==
  ASSUME FormInv, NEW w \in Workers, NEW p, NEW c, NEW q \in Plots
  PROVE  /\ Upset(p, c) => upset[q] \subseteq upset'[q]
         /\ BreakOff(w) => upset[q] \subseteq upset'[q]
<1>1. \A r, d : Upset(r, d) => upset[q] \subseteq upset'[q]
  BY DEF Upset, FormInv, TypeOK
<1>. QED
  BY <1>1 DEF BreakOff

\* A plot the request does not hold keeps what is said of it.
LEMMA ElsewherePlot ==
  ASSUME FormInv, FormInv', NEW w \in Workers, Works(w), NEW p \in Plots, Both(p),
         p \notin job[w].held
  PROVE  Both(p)'
<1>1. job[w] \in Job /\ ShapeOf(job[w]) /\ BookingOf(job[w])
  BY Own
<1>2. job'[w] \in Job /\ ShapeOf(job'[w])
  BY DEF FormInv, TypeOK
<1>3. job'[w].pc = "plotWrite" => job'[w].plot \in job'[w].held
  BY <1>2, OpOfPc DEF ShapeOf, BookingOps, Job, Ops
<1>4. job[w].op \in BookingOps => job[w].plot # p /\ job[w].bk \notin Live(p)
  BY <1>1 DEF ShapeOf, BookingOf, Live, Active
<1>5. Live(p)' = Live(p) /\ \A b \in Live(p) : bkStatus'[b] = bkStatus[b]
  BY <1>4 DEF Works, Live
<1>. QED
  BY <1>3, <1>5, PlotLocal DEF Works

\* A statement that leaves plots and bookings alone only moves the story on.
LEMMA TellPlot ==
  ASSUME FormInv, FormInv', NEW w \in Workers, Works(w),
         UNCHANGED <<plotStatus, bkStatus, bkPlot>>,
         NEW p \in Plots, Both(p),
         p \in job[w].held /\ job'[w].pc = "plotWrite" /\ job'[w].plot = p =>
           /\ plotStatus[p] # "Absent"
           /\ Exists(p) => canTransition(plotStatus[p], job'[w].target),
         p \in job[w].held /\ Quiet(p)' /\ Story(job[w], p) =>
           IF p \in job'[w].held THEN Story(job'[w], p) ELSE Agrees(p, plotStatus[p])
  PROVE  Both(p)'
<1>1. CASE p \notin job[w].held
  BY <1>1, ElsewherePlot
<1>2. CASE p \in job[w].held
  <2>. PICK j, s : j = job'[w] /\ s = plotStatus[p]
    OBVIOUS
  <2>1. /\ upset[p] \subseteq upset'[p] /\ j.held \subseteq job[w].held
        /\ \A v \in Workers \ {w} : job'[v] = job[v]
    BY DEF Works
  <2>2. j.pc = "plotWrite" /\ j.plot = p =>
          /\ plotStatus[p] # "Absent"
          /\ plotStatus[p] \in STATUS => canTransition(plotStatus[p], j.target)
    BY <1>2 DEF Exists
  <2>3. Quiet(p)' /\ Quiet(p) /\ OneBuyer(p) /\ Story(job[w], p) =>
          /\ OneBuyer(p)'
          /\ p \in j.held => Story(j, p)'
          /\ p \notin j.held => Agrees(p, s)'
    BY <1>2, TablesSame
  <2>. QED
    BY <1>2, <2>1, <2>2, <2>3, StepPlot
<1>. QED
  BY <1>1, <1>2

LEMMA PlotReadPlot ==
  ASSUME FormInv, FormInv', NEW w \in Workers, PlotUpdateRead(w), NEW p \in Plots, Both(p)
  PROVE  Both(p)'
<1>. DEFINE j == job[w]
<1>1. /\ j \in Job /\ ShapeOf(j) /\ BookingOf(j) /\ j.pc = "plotRead"
      /\ j.op \in {"create", "approve", "reject", "cancel", "buyback", "edit"}
      /\ j.held = {j.plot} /\ j.plot \in Plots
  BY Own, OpOfPc DEF PlotUpdateRead, ShapeOf, BookingOps
<1>2. UNCHANGED <<plotStatus, bkStatus, bkPlot>>
  BY DEF PlotUpdateRead, tables
<1>3. CASE Goto(w, "plotWrite") /\ Exists(j.plot) /\ canTransition(plotStatus[j.plot], j.target)
           /\ UNCHANGED upset
  <2>1. job'[w] = [j EXCEPT !.pc = "plotWrite"] /\ \A v \in Workers \ {w} : job'[v] = job[v]
    BY <1>3 DEF Goto, FormInv, TypeOK
  <2>2. /\ job'[w].pc = "plotWrite" /\ job'[w].plot = j.plot /\ job'[w].held = j.held
        /\ job'[w].target = j.target /\ job'[w].op = j.op /\ job'[w].bk = j.bk
    BY <1>1, <2>1 DEF Job
  <2>3. Works(w)
    BY <1>2, <1>3, <2>1, <2>2 DEF Works
  <2>4. Story(j, p) => Story(job'[w], p)
    BY <1>1, <2>2 DEF Story
  <2>. QED
    BY <1>1, <1>2, <1>3, <2>2, <2>3, <2>4, TellPlot DEF Exists, STATUS
<1>4. CASE j.op = "buyback" /\ Goto(w, "fail") /\ UNCHANGED upset
  <2>1. job'[w] = [j EXCEPT !.pc = "fail"] /\ \A v \in Workers \ {w} : job'[v] = job[v]
    BY <1>4 DEF Goto, FormInv, TypeOK
  <2>2. job'[w].pc = "fail" /\ job'[w].held = j.held /\ job'[w].op = j.op
    BY <1>1, <2>1 DEF Job
  <2>3. Works(w)
    BY <1>2, <1>4, <2>1, <2>2 DEF Works
  <2>4. Story(j, p) => Story(job'[w], p)
    BY <1>1, <1>4, <2>2 DEF Story
  <2>. QED
    BY <1>1, <1>2, <2>2, <2>3, <2>4, TellPlot
<1>5. CASE /\ Finish(w) /\ ~(Exists(j.plot) /\ canTransition(plotStatus[j.plot], j.target))
           /\ j.op # "buyback"
           /\ IF j.op = "create" THEN Upset(j.plot, "partial") ELSE UNCHANGED upset
  <2>1. job'[w] = NoJob /\ \A v \in Workers \ {w} : job'[v] = job[v]
    BY <1>5 DEF Finish, FormInv, TypeOK
  <2>2. job'[w].pc = "idle" /\ job'[w].held = {}
    BY <2>1 DEF NoJob
  <2>3. Works(w)
    BY <1>2, <1>5, <2>1, <2>2, UpsetGrows DEF Works
  <2>4. ASSUME p \in j.held, Quiet(p)', Story(j, p) PROVE Agrees(p, plotStatus[p])
    <3>0. p = j.plot
      BY <1>1, <2>4
    <3>1. p = j.plot /\ j.op # "create"
      <4>1. Upset(p, "partial") => "partial" \in upset'[p]
        BY DEF Upset, FormInv, TypeOK
      <4>. QED
        BY <1>5, <2>4, <3>0, <4>1 DEF Quiet
    <3>2. CASE j.op = "approve"
      BY <1>1, <1>5, <2>4, <3>1, <3>2 DEF Story, Exists, ShapeOf, canTransition, STATUS_TRANSITIONS, STATUS
    <3>3. CASE j.op \in {"reject", "cancel"}
      <4>1. Live(p) = {} /\ j.target = "Available"
        BY <1>1, <2>4, <3>3 DEF Story, ShapeOf
      <4>2. plotStatus[p] \notin {"Booked", "Allotted"}
        BY <1>5, <3>1, <4>1 DEF Exists, canTransition, STATUS_TRANSITIONS, STATUS
      <4>. QED
        BY <4>1, <4>2 DEF Agrees
    <3>4. CASE j.op = "edit"
      BY <2>4, <3>4 DEF Story
    <3>. QED
      BY <1>1, <1>5, <3>1, <3>2, <3>3, <3>4
  <2>. QED
    BY <1>1, <1>2, <2>2, <2>3, <2>4, TellPlot
<1>. QED
  BY <1>3, <1>4, <1>5 DEF PlotUpdateRead

\* A request that ends leaves the plot to nobody.
LEMMA FinishWorks ==
  ASSUME FormInv, NEW w \in Workers, Finish(w), UNCHANGED <<plotStatus, bkStatus, bkPlot>>,
         \A q \in Plots : upset[q] \subseteq upset'[q]
  PROVE  Works(w) /\ job'[w] = NoJob /\ job'[w].held = {} /\ job'[w].pc = "idle"
BY DEF Finish, NoJob, FormInv, TypeOK, Works

\* A request that only goes on keeps what it holds.
LEMMA GotoWorks ==
  ASSUME FormInv, NEW w \in Workers, NEW pc, Goto(w, pc),
         UNCHANGED <<plotStatus, bkStatus, bkPlot>>,
         \A q \in Plots : upset[q] \subseteq upset'[q]
  PROVE  /\ Works(w)
         /\ job'[w] = [job[w] EXCEPT !.pc = pc]
         /\ job'[w].pc = pc /\ job'[w].op = job[w].op /\ job'[w].held = job[w].held
         /\ job'[w].plot = job[w].plot /\ job'[w].bk = job[w].bk
         /\ job'[w].target = job[w].target
<1>1. job'[w] = [job[w] EXCEPT !.pc = pc] /\ \A v \in Workers \ {w} : job'[v] = job[v]
  BY DEF Goto, FormInv, TypeOK
<1>2. job[w] \in Job
  BY Own
<1>3. /\ job'[w].pc = pc /\ job'[w].op = job[w].op /\ job'[w].held = job[w].held
      /\ job'[w].plot = job[w].plot /\ job'[w].bk = job[w].bk
      /\ job'[w].target = job[w].target
  BY <1>1, <1>2 DEF Job
<1>. QED
  BY <1>1, <1>3 DEF Works

LEMMA CreatePlot ==
  ASSUME FormInv, FormInv', NEW w \in Workers, NEW p \in Plots, Both(p),
         InsertBooking(w) \/ AwaitApproval(w) \/ AutoApprove(w)
  PROVE  Both(p)'
<1>. DEFINE j == job[w]
<1>1. /\ j \in Job /\ ShapeOf(j) /\ BookingOf(j) /\ j.op = "create" /\ j.plot \in Plots
      /\ j.bk \in Bookings /\ j.held = {j.plot}
  BY Own, OpOfPc DEF InsertBooking, AwaitApproval, AutoApprove, ShapeOf, BookingOps
<1>2. CASE InsertBooking(w) /\ Exists(j.plot)
  <2>1. /\ bkStatus' = [bkStatus EXCEPT ![j.bk] = "Pending"]
        /\ bkPlot' = [bkPlot EXCEPT ![j.bk] = j.plot]
        /\ job' = [job EXCEPT ![w].pc = "plotRead"]
        /\ plotStatus' = plotStatus /\ upset' = upset /\ j.pc = "insert"
    BY <1>2 DEF InsertBooking, Goto
  <2>2. job'[w] = [j EXCEPT !.pc = "plotRead"] /\ \A v \in Workers \ {w} : job'[v] = job[v]
    BY <2>1 DEF FormInv, TypeOK
  <2>3. /\ job'[w].pc = "plotRead" /\ job'[w].op = "create" /\ job'[w].held = j.held
        /\ job'[w].plot = j.plot /\ job'[w].bk = j.bk
    BY <1>1, <2>2 DEF Job
  <2>4. /\ bkStatus'[j.bk] = "Pending" /\ bkPlot'[j.bk] = j.plot
        /\ \A b \in Bookings \ {j.bk} : bkStatus'[b] = bkStatus[b] /\ bkPlot'[b] = bkPlot[b]
    BY <1>1, <2>1 DEF FormInv, TypeOK
  <2>5. Works(w)
    BY <1>1, <2>1, <2>2, <2>3, <2>4 DEF Works, BookingOps
  <2>6. CASE p = j.plot
    <3>1. ASSUME Story(j, p) PROVE /\ Live(p)' = {j.bk} /\ plotStatus[p] = "Available"
      <4>1. Live(p) = {} /\ plotStatus[p] = "Available"
        BY <1>1, <1>2, <2>1, <2>6, <3>1 DEF Story
      <4>2. Live(p)' = {j.bk}
        BY <1>1, <2>4, <2>6, <4>1 DEF Live, Active
      <4>. QED
        BY <4>1, <4>2
    <3>. PICK k : k = job'[w]
      OBVIOUS
    <3>2. ASSUME Story(j, p) PROVE OneBuyer(p)' /\ Story(k, p)'
      BY <2>1, <2>3, <2>4, <3>1, <3>2 DEF OneBuyer, Story, Has
    <3>. QED
      BY <1>1, <2>1, <2>2, <2>3, <2>6, <3>2, StepPlot, ZenonT(60)
  <2>7. CASE p # j.plot
    BY <1>1, <2>5, <2>7, ElsewherePlot
  <2>. QED
    BY <2>6, <2>7
<1>3. CASE InsertBooking(w) /\ ~Exists(j.plot)
  <2>1. j.pc = "insert" /\ Finish(w) /\ UNCHANGED <<plotStatus, bkStatus, bkPlot, upset>>
    BY <1>3 DEF InsertBooking
  <2>2. ASSUME p \in j.held, Story(j, p) PROVE Agrees(p, plotStatus[p])
    BY <1>1, <1>3, <2>1, <2>2 DEF Story, Agrees, Exists, STATUS
  <2>. QED
    BY <2>1, <2>2, FinishWorks, TellPlot
<1>4. CASE (AwaitApproval(w) \/ AutoApprove(w)) /\ Finish(w)
  <2>1. j.pc = "settings" /\ UNCHANGED <<plotStatus, bkStatus, bkPlot, upset>>
    BY <1>4 DEF AwaitApproval, AutoApprove, tables
  <2>2. ASSUME p \in j.held, Quiet(p)', Story(j, p) PROVE Agrees(p, plotStatus[p])
    <3>1. Quiet(p) /\ OneBuyer(p)
      BY <2>1, <2>2 DEF Quiet, Both, PlotInv
    <3>. QED
      BY <1>1, <2>1, <2>2, <3>1 DEF Story, Has, OneBuyer, Agrees
  <2>. QED
    BY <1>4, <2>1, <2>2, FinishWorks, TellPlot
<1>5. CASE AutoApprove(w) /\ bkStatus[j.bk] = "Pending"
  <2>1. /\ job' = [job EXCEPT ![w] = Plain("approve", "plotRead", j.plot, j.bk, "Allotted")]
        /\ j.pc = "settings" /\ UNCHANGED <<plotStatus, bkStatus, bkPlot, upset>>
    BY <1>5 DEF AutoApprove, tables
  <2>2. /\ job'[w] = Plain("approve", "plotRead", j.plot, j.bk, "Allotted")
        /\ \A v \in Workers \ {w} : job'[v] = job[v]
    BY <2>1 DEF FormInv, TypeOK
  <2>3. /\ job'[w].pc = "plotRead" /\ job'[w].op = "approve" /\ job'[w].held = j.held
        /\ job'[w].plot = j.plot /\ job'[w].bk = j.bk
    BY <1>1, <2>2 DEF Plain, NoJob
  <2>4. Works(w)
    BY <2>1, <2>2, <2>3 DEF Works
  <2>5. ASSUME Story(j, p), p \in j.held PROVE Story(job'[w], p)
    BY <1>1, <2>1, <2>3, <2>5 DEF Story
  <2>. QED
    BY <2>1, <2>3, <2>4, <2>5, TellPlot
<1>. QED
  BY <1>2, <1>3, <1>4, <1>5 DEF InsertBooking, AwaitApproval, AutoApprove

LEMMA ApprovePlot ==
  ASSUME FormInv, FormInv', NEW w \in Workers, NEW p \in Plots, Both(p),
         ConfirmBooking(w) \/ CreatePlan(w) \/ CreateInstallment(w)
  PROVE  Both(p)'
<1>. DEFINE j == job[w]
<1>1. /\ j \in Job /\ ShapeOf(j) /\ BookingOf(j) /\ j.op = "approve" /\ j.plot \in Plots
      /\ j.bk \in Bookings /\ j.held = {j.plot}
  BY Own, OpOfPc DEF ConfirmBooking, CreatePlan, CreateInstallment, ShapeOf, BookingOps
<1>2. CASE ConfirmBooking(w)
  <2>1. /\ bkStatus' = [bkStatus EXCEPT ![j.bk] = "Confirmed"]
        /\ job' = [job EXCEPT ![w].pc = "plan"] /\ j.pc = "confirm"
        /\ UNCHANGED <<plotStatus, bkPlot, upset>>
    BY <1>2 DEF ConfirmBooking, Goto
  <2>2. job'[w] = [j EXCEPT !.pc = "plan"] /\ \A v \in Workers \ {w} : job'[v] = job[v]
    BY <2>1 DEF FormInv, TypeOK
  <2>3. /\ job'[w].pc = "plan" /\ job'[w].op = "approve" /\ job'[w].held = j.held
        /\ job'[w].plot = j.plot /\ job'[w].bk = j.bk
    BY <1>1, <2>2 DEF Job
  <2>4. /\ bkStatus'[j.bk] = "Confirmed" /\ bkPlot'[j.bk] = j.plot
        /\ \A b \in Bookings \ {j.bk} : bkStatus'[b] = bkStatus[b] /\ bkPlot'[b] = bkPlot[b]
    BY <1>1, <2>1 DEF FormInv, TypeOK, BookingOf, BookingOps
  <2>5. Works(w)
    BY <1>1, <2>1, <2>2, <2>3, <2>4 DEF Works, BookingOps
  <2>6. CASE p = j.plot
    <3>1. ASSUME OneBuyer(p), Story(j, p) PROVE Live(p)' = {j.bk} /\ plotStatus[p] = "Allotted"
      <4>1. Live(p) = {j.bk} /\ plotStatus[p] = "Allotted"
        BY <1>1, <2>1, <3>1 DEF Story, Has, OneBuyer
      <4>2. Live(p)' = {j.bk}
        BY <1>1, <2>4, <2>6, <4>1 DEF Live, Active
      <4>. QED
        BY <4>1, <4>2
    <3>. PICK k : k = job'[w]
      OBVIOUS
    <3>2. ASSUME OneBuyer(p), Story(j, p) PROVE OneBuyer(p)' /\ Story(k, p)'
      BY <2>1, <2>3, <2>4, <3>1, <3>2 DEF OneBuyer, Story, Has
    <3>. QED
      BY <1>1, <2>1, <2>2, <2>3, <2>6, <3>2, StepPlot, ZenonT(60)
  <2>7. CASE p # j.plot
    BY <1>1, <2>5, <2>7, ElsewherePlot
  <2>. QED
    BY <2>6, <2>7
<1>3. CASE (CreatePlan(w) \/ CreateInstallment(w)) /\ ~Finish(w)
  <2>1. /\ j.pc \in {"plan", "rows"} /\ UNCHANGED <<plotStatus, bkStatus, bkPlot, upset>>
        /\ \A v \in Workers \ {w} : job'[v] = job[v]
        /\ job'[w].op = j.op /\ job'[w].held = j.held /\ job'[w].plot = j.plot
        /\ job'[w].bk = j.bk /\ job'[w].pc = "rows"
    BY <1>1, <1>3, SMTT(60) DEF CreatePlan, CreateInstallment, FormInv, TypeOK, Job
  <2>2. Works(w)
    BY <2>1 DEF Works
  <2>3. ASSUME Story(j, p), p \in j.held PROVE Story(job'[w], p)
    BY <1>1, <2>1, <2>3 DEF Story
  <2>. QED
    BY <2>1, <2>2, <2>3, TellPlot
<1>4. CASE CreateInstallment(w) /\ Finish(w)
  <2>1. j.pc = "rows" /\ UNCHANGED <<plotStatus, bkStatus, bkPlot, upset>>
    BY <1>4 DEF CreateInstallment
  <2>2. ASSUME p \in j.held, Quiet(p)', Story(j, p) PROVE Agrees(p, plotStatus[p])
    <3>1. Quiet(p) /\ OneBuyer(p)
      BY <2>1, <2>2 DEF Quiet, Both, PlotInv
    <3>. QED
      BY <1>1, <2>1, <2>2, <3>1 DEF Story, Has, OneBuyer, Agrees, AllottedOrLater
  <2>. QED
    BY <1>4, <2>1, <2>2, FinishWorks, TellPlot
<1>5. CreatePlan(w) => ~Finish(w)
  BY <1>1 DEF CreatePlan, Finish, NoJob, FormInv, TypeOK, Job
<1>. QED
  BY <1>2, <1>3, <1>4, <1>5

LEMMA CancelPlot ==
  ASSUME FormInv, FormInv', NEW w \in Workers, NEW p \in Plots, Both(p),
         VoidInstallment(w) \/ MarkCancelled(w)
  PROVE  Both(p)'
<1>. DEFINE j == job[w]
<1>1. /\ j \in Job /\ ShapeOf(j) /\ BookingOf(j) /\ j.op \in {"reject", "cancel", "buyback"}
      /\ j.pc = "mark" /\ j.plot \in Plots /\ j.bk \in Bookings /\ j.held = {j.plot}
  BY Own, OpOfPc DEF VoidInstallment, MarkCancelled, ShapeOf, BookingOps
<1>2. CASE VoidInstallment(w)
  <2>1. /\ UNCHANGED <<plotStatus, bkStatus, bkPlot, upset>>
        /\ \A v \in Workers \ {w} : job'[v] = job[v]
        /\ job'[w].op = j.op /\ job'[w].held = j.held /\ job'[w].plot = j.plot
        /\ job'[w].bk = j.bk /\ job'[w].pc = "mark"
    BY <1>1, <1>2 DEF VoidInstallment, FormInv, TypeOK, Job
  <2>2. Works(w)
    BY <2>1 DEF Works
  <2>3. ASSUME Story(j, p), p \in j.held PROVE Story(job'[w], p)
    BY <1>1, <2>1, <2>3 DEF Story
  <2>. QED
    BY <2>1, <2>2, <2>3, TellPlot
<1>3. CASE MarkCancelled(w)
  <2>. DEFINE pc == IF j.op = "buyback" THEN "complete" ELSE "plotRead"
  <2>1. /\ bkStatus' = [bkStatus EXCEPT ![j.bk] = "Cancelled"]
        /\ job' = [job EXCEPT ![w].pc = pc]
        /\ UNCHANGED <<plotStatus, bkPlot, upset>>
    BY <1>3 DEF MarkCancelled, Goto
  <2>2. job'[w] = [j EXCEPT !.pc = pc] /\ \A v \in Workers \ {w} : job'[v] = job[v]
    BY <2>1 DEF FormInv, TypeOK
  <2>3. /\ job'[w].pc = pc /\ job'[w].op = j.op /\ job'[w].held = j.held
        /\ job'[w].plot = j.plot /\ job'[w].bk = j.bk
    BY <1>1, <2>2 DEF Job
  <2>4. /\ bkStatus'[j.bk] = "Cancelled" /\ bkPlot'[j.bk] = j.plot
        /\ \A b \in Bookings \ {j.bk} : bkStatus'[b] = bkStatus[b] /\ bkPlot'[b] = bkPlot[b]
    BY <1>1, <2>1 DEF FormInv, TypeOK, BookingOf, BookingOps
  <2>5. Works(w)
    BY <1>1, <2>1, <2>2, <2>3, <2>4 DEF Works, BookingOps
  <2>6. CASE p = j.plot
    <3>. PICK k : k = job'[w]
      OBVIOUS
    <3>1. ASSUME OneBuyer(p), Story(j, p) PROVE OneBuyer(p)' /\ Story(k, p)'
      <4>1. Live(p)' = {}
        <5>1. j.bk \in Live(p)
          BY <1>1, <3>1 DEF Story, Has
        <5>. QED
          BY <1>1, <2>4, <3>1, <5>1 DEF Live, Active, OneBuyer
      <4>2. j.op = "buyback" => plotStatus[p] \in {"Available", "Cancelled"}
        BY <1>1, <3>1 DEF Story
      <4>3. j.op = "buyback" => Agrees(p, plotStatus[p])'
        BY <2>1, <4>1, <4>2 DEF Agrees
      <4>. QED
        BY <1>1, <2>3, <4>1, <4>3 DEF OneBuyer, Story, Agrees
    <3>2. k.pc # "plotWrite" /\ k.held = {p} /\ p \in j.held
      BY <1>1, <2>3, <2>6
    <3>3. \A v \in Workers \ {w} : job'[v] = job[v]
      BY <2>2
    <3>4. upset' = upset /\ plotStatus'[p] = plotStatus[p]
      BY <2>1
    <3>. HIDE DEF pc
    <3>. QED
      BY <3>1, <3>2, <3>3, <3>4, StepPlot
  <2>7. CASE p # j.plot
    BY <1>1, <2>5, <2>7, ElsewherePlot
  <2>. QED
    BY <2>6, <2>7
<1>. QED
  BY <1>2, <1>3

LEMMA RecordPlot ==
  ASSUME FormInv, FormInv', NEW w \in Workers, NEW p \in Plots, Both(p),
         \/ CreateRecord(w) \/ RegisterInvoice(w) \/ CompleteRecord(w)
         \/ WriteAudit(w) \/ StepFails(w) \/ FailRecord(w)
  PROVE  Both(p)'
<1>. DEFINE j == job[w]
<1>1. /\ j \in Job /\ ShapeOf(j) /\ j.op \in {"buyback", "merge"}
      /\ (j.op = "buyback" => j.held = {j.plot} /\ j.plot \in Plots)
  BY Own, OpOfPc DEF CreateRecord, RegisterInvoice, CompleteRecord, WriteAudit, StepFails,
                     FailRecord, ShapeOf, BookingOps
<1>2. /\ UNCHANGED <<plotStatus, bkStatus, bkPlot>>
      /\ \A q \in Plots : upset[q] \subseteq upset'[q]
  BY UpsetGrows DEF CreateRecord, RegisterInvoice, CompleteRecord, WriteAudit, StepFails,
                    FailRecord, tables
<1>3. CASE CreateRecord(w) \/ RegisterInvoice(w) \/ CompleteRecord(w)
  <2>1. \/ j.pc = "record" /\ Goto(w, "invoice")
        \/ j.pc = "invoice" /\ Goto(w, "plotRead")
        \/ j.pc = "complete" /\ Goto(w, "audit")
    BY <1>3 DEF CreateRecord, RegisterInvoice, CompleteRecord
  <2>2. /\ Works(w) /\ job'[w].pc \in {"invoice", "plotRead", "audit"}
        /\ (j.pc = "complete" <=> job'[w].pc = "audit")
        /\ job'[w].op = j.op /\ job'[w].held = j.held /\ job'[w].bk = j.bk
    <3>1. \E pc \in {"invoice", "plotRead", "audit"} :
            Goto(w, pc) /\ (j.pc = "complete" <=> pc = "audit")
      BY <2>1
    <3>. QED
      BY <1>2, <3>1, GotoWorks
  <2>3. ASSUME Story(j, p), p \in j.held PROVE Story(job'[w], p)
    BY <1>1, <2>1, <2>2, <2>3 DEF Story
  <2>. QED
    BY <1>2, <2>2, <2>3, TellPlot
<1>4. CASE StepFails(w)
  <2>1. /\ Works(w) /\ job'[w].pc = "fail" /\ job'[w].op = j.op /\ job'[w].held = j.held
        /\ j.pc \notin {"record", "fail"} /\ BreakOff(w)
    BY <1>2, <1>4, GotoWorks DEF StepFails
  <2>2. ASSUME Story(j, p), p \in j.held, Quiet(p)' PROVE Story(job'[w], p)
    <3>1. j.op = "buyback" => j.pc # "mark"
      <4>1. p \in Plots /\ Upset(p, "partial") => "partial" \in upset'[p]
        BY DEF Upset, FormInv, TypeOK
      <4>. QED
        BY <1>1, <2>1, <2>2, <4>1 DEF BreakOff, Halfway, Quiet
    <3>. QED
      BY <1>1, <2>1, <2>2, <3>1 DEF Story, ShapeOf
  <2>. QED
    BY <1>2, <2>1, <2>2, TellPlot
<1>5. CASE WriteAudit(w) \/ FailRecord(w)
  <2>1. Finish(w) /\ j.pc \in {"audit", "fail"}
    BY <1>5 DEF WriteAudit, FailRecord
  <2>2. ASSUME Story(j, p) PROVE Agrees(p, plotStatus[p])
    BY <1>1, <2>1, <2>2 DEF Story
  <2>. QED
    BY <1>2, <2>1, <2>2, FinishWorks, TellPlot
<1>. QED
  BY <1>3, <1>4, <1>5

LEMMA PlotWritePlot ==
  ASSUME FormInv, FormInv', NEW w \in Workers, PlotUpdateWrite(w), NEW p \in Plots, Both(p)
  PROVE  Both(p)'
<1>. DEFINE j == job[w]
<1>1. /\ j \in Job /\ ShapeOf(j) /\ j.pc = "plotWrite"
      /\ j.op \in {"create", "approve", "reject", "cancel", "buyback", "edit", "advance"}
      /\ j.held = {j.plot} /\ j.plot \in Plots /\ j.target \in STATUS
  BY Own, OpOfPc, TargetsAssumption DEF PlotUpdateWrite, ShapeOf, BookingOps, Job, Ops, STATUS
<1>2. /\ UNCHANGED <<bkStatus, bkPlot>> /\ SetPlot(j.plot, j.target)
      /\ \/ upset' = upset
         \/ j.op = "edit" /\ Upset(j.plot, "edit")
  BY DEF PlotUpdateWrite
<1>3. /\ \A q \in Plots : upset[q] \subseteq upset'[q]
      /\ \A q \in Plots \ {j.plot} : plotStatus'[q] = plotStatus[q]
  BY <1>2, UpsetGrows DEF SetPlot, FormInv, TypeOK
<1>4. PICK k : k = job'[w]
  OBVIOUS
<1>5. /\ \A v \in Workers \ {w} : job'[v] = job[v]
      /\ k.pc # "plotWrite"
      /\ \/ k.held = {} /\ j.op \in {"reject", "cancel", "edit", "advance"}
         \/ /\ k.op = j.op /\ k.bk = j.bk /\ k.held = j.held
            /\ \/ j.op = "create" /\ k.pc = "settings"
               \/ j.op = "approve" /\ k.pc = "confirm"
               \/ j.op = "buyback" /\ k.pc = "mark"
  <2>1. CASE j.op \in {"reject", "cancel", "edit", "advance"}
    <3>1. Finish(w)
      BY <2>1 DEF PlotUpdateWrite, AfterPlotWrite
    <3>. QED
      BY <1>4, <2>1, <3>1 DEF Finish, NoJob, FormInv, TypeOK
  <2>2. CASE j.op \in {"create", "approve", "buyback"}
    <3>. PICK pc : pc = AfterPlotWrite(j.op)
      OBVIOUS
    <3>1. /\ \/ j.op = "create" /\ pc = "settings"
             \/ j.op = "approve" /\ pc = "confirm"
             \/ j.op = "buyback" /\ pc = "mark"
          /\ Goto(w, pc)
      BY <2>2 DEF PlotUpdateWrite, AfterPlotWrite
    <3>2. k = [j EXCEPT !.pc = pc] /\ \A v \in Workers \ {w} : job'[v] = job[v]
      BY <1>4, <3>1 DEF Goto, FormInv, TypeOK
    <3>3. k.pc = pc /\ k.op = j.op /\ k.bk = j.bk /\ k.held = j.held
      BY <1>1, <3>2 DEF Job
    <3>. QED
      BY <3>1, <3>2, <3>3
  <2>. QED
    BY <1>1, <2>1, <2>2
<1>6. CASE p # j.plot
  <2>1. Works(w)
    BY <1>1, <1>2, <1>3, <1>4, <1>5 DEF Works
  <2>. QED
    BY <1>1, <1>6, <2>1, ElsewherePlot
<1>7. CASE p = j.plot
  <2>. PICK s : s = plotStatus'[p]
    OBVIOUS
  <2>1. IF Exists(p) THEN s = j.target ELSE s = plotStatus[p]
    BY <1>2, <1>7 DEF SetPlot, FormInv, TypeOK
  <2>2. \/ s = plotStatus[p]
        \/ plotStatus[p] \in STATUS /\ s \in STATUS
    BY <1>1, <2>1 DEF Exists
  <2>3. /\ Live(p)' = Live(p)
        /\ \A t : Agrees(p, t)' <=> Agrees(p, t)
        /\ OneBuyer(p)' <=> OneBuyer(p)
    BY <1>2 DEF Live, Agrees, OneBuyer
  <2>4. ASSUME j.op \in {"create", "approve", "buyback"}, Story(j, p) PROVE Story(k, p)'
    <3>1. Exists(p)
      BY <1>1, <2>4 DEF Story, Has, Agrees, AllottedOrLater, STATUS, Exists
    <3>2. plotStatus'[p] = j.target /\ bkStatus' = bkStatus
      BY <1>2, <2>1, <3>1
    <3>3. CASE j.op = "create"
      BY <1>1, <1>5, <2>3, <2>4, <3>2, <3>3 DEF Story, Has, ShapeOf
    <3>4. CASE j.op = "approve"
      BY <1>1, <1>5, <2>3, <2>4, <3>2, <3>4 DEF Story, Has, ShapeOf
    <3>5. CASE j.op = "buyback"
      BY <1>1, <1>5, <2>3, <2>4, <3>2, <3>5 DEF Story, ShapeOf
    <3>. QED
      BY <2>4, <3>3, <3>4, <3>5
  <2>5. ASSUME j.op \in {"reject", "cancel"}, Story(j, p) PROVE Agrees(p, s)
    BY <1>1, <2>1, <2>5 DEF Story, ShapeOf, Agrees, Exists, STATUS
  <2>6. ASSUME j.op = "edit", Story(j, p), Quiet(p)' PROVE Agrees(p, s)
    <3>1. Upset(p, "edit") => "edit" \in upset'[p]
      BY DEF Upset, FormInv, TypeOK
    <3>2. ~Upset(p, "edit")
      BY <2>6, <3>1 DEF Quiet
    <3>3. Exists(p) => Agrees(p, j.target)
      BY <1>7, <2>6, <3>2 DEF PlotUpdateWrite
    <3>. QED
      BY <2>1, <2>6, <3>3 DEF Story
  <2>7. ASSUME j.op = "advance", Story(j, p), Quiet(p) PROVE Agrees(p, s)
    <3>1. Agrees(p, plotStatus[p]) /\ j.target \in AllottedOrLater \ {"Allotted"}
      BY <1>1, <2>7, TargetsAssumption DEF Story, ShapeOf, AllottedOrLater
    <3>2. Exists(p) => canTransition(plotStatus[p], j.target)
      BY <1>1, <1>7, <2>7 DEF Both, TableInv, Checked, Quiet
    <3>3. Exists(p) => plotStatus[p] # "Booked"
      BY <3>1, <3>2 DEF canTransition, STATUS_TRANSITIONS, STATUS, AllottedOrLater
    <3>4. Exists(p) => Agrees(p, j.target)
      BY <3>1, <3>3 DEF Agrees, AllottedOrLater
    <3>. QED
      BY <2>1, <3>1, <3>4
  <2>8. Quiet(p)' /\ Quiet(p) /\ OneBuyer(p) /\ Story(j, p) =>
          /\ OneBuyer(p)'
          /\ p \in k.held => Story(k, p)'
          /\ p \notin k.held => Agrees(p, s)'
    BY <1>1, <1>5, <1>7, <2>3, <2>4, <2>5, <2>6, <2>7
  <2>9. /\ p \in j.held /\ k.held \subseteq j.held /\ upset[p] \subseteq upset'[p]
        /\ \A v \in Workers \ {w} : job'[v] = job[v]
        /\ k.pc # "plotWrite"
    BY <1>1, <1>3, <1>5, <1>7
  <2>. QED
    BY <1>4, <2>2, <2>8, <2>9, StepPlot
<1>. QED
  BY <1>6, <1>7

LEMMA MergePlot ==
  ASSUME FormInv, FormInv', NEW w \in Workers, NEW p \in Plots, Both(p),
         MergeRead(w) \/ MergeWrite(w)
  PROVE  Both(p)'
<1>. DEFINE j == job[w]
<1>1. /\ j \in Job /\ ShapeOf(j) /\ j.op = "merge" /\ j.todo \subseteq j.held
      /\ j.plot \in j.held /\ j.target = "Merged"
  BY Own DEF MergeRead, MergeWrite, ShapeOf
<1>2. /\ UNCHANGED <<bkStatus, bkPlot, upset>>
      /\ \A v \in Workers \ {w} : job'[v] = job[v]
  BY DEF MergeRead, MergeWrite, Goto, FormInv, TypeOK, tables
<1>3. CASE MergeRead(w)
  <2>0. UNCHANGED <<plotStatus, bkStatus, bkPlot>>
    BY <1>3 DEF MergeRead, tables
  <2>1. PICK q \in j.todo :
          IF Exists(q) /\ canTransition(plotStatus[q], "Merged")
          THEN job' = [job EXCEPT ![w].pc = "plotWrite", ![w].plot = q]
          ELSE Goto(w, "fail")
    BY <1>3 DEF MergeRead
  <2>2. /\ job'[w].op = j.op /\ job'[w].held = j.held /\ job'[w].target = j.target
        /\ \/ /\ Exists(q) /\ canTransition(plotStatus[q], "Merged")
              /\ job'[w].pc = "plotWrite" /\ job'[w].plot = q
           \/ job'[w].pc = "fail"
    BY <1>1, <2>1 DEF Goto, FormInv, TypeOK, Job
  <2>3. Works(w)
    BY <1>2, <2>0, <2>2 DEF Works
  <2>4. Story(j, p) => Story(job'[w], p)
    BY <1>1, <2>2 DEF Story
  <2>. QED
    BY <1>1, <2>0, <2>2, <2>3, <2>4, TellPlot, ZenonT(30) DEF Exists, STATUS
<1>4. CASE MergeWrite(w)
  <2>. PICK k, s : k = job'[w] /\ s = plotStatus'[p]
    OBVIOUS
  <2>1. k.op = j.op /\ k.held = j.held /\ k.pc \in {"complete", "plotRead"}
    BY <1>1, <1>4 DEF MergeWrite, FormInv, TypeOK, Job
  <2>2. /\ s = plotStatus[p] \/ (plotStatus[p] \in STATUS /\ s = "Merged")
        /\ \A q \in Plots \ j.held : plotStatus'[q] = plotStatus[q]
    BY <1>1, <1>4 DEF MergeWrite, SetPlot, Exists, FormInv, TypeOK
  <2>3. CASE p \notin j.held
    <3>1. Works(w)
      BY <1>2, <2>1, <2>2 DEF Works
    <3>. QED
      BY <2>3, <3>1, ElsewherePlot
  <2>4. CASE p \in j.held
    <3>1. /\ Live(p)' = Live(p)
          /\ \A t : Agrees(p, t)' <=> Agrees(p, t)
          /\ OneBuyer(p)' <=> OneBuyer(p)
      BY <1>2 DEF Live, Agrees, OneBuyer
    <3>2. ASSUME Story(j, p) PROVE Story(k, p)'
      <4>1. Live(p) = {} /\ Agrees(p, plotStatus[p])
        BY <1>1, <3>2 DEF Story
      <4>2. Agrees(p, s)
        BY <2>2, <4>1 DEF Agrees
      <4>3. Agrees(p, plotStatus[p])'
        BY <3>1, <4>2 DEF Agrees
      <4>. QED
        BY <1>1, <2>1, <3>1, <4>1, <4>3 DEF Story
    <3>3. upset' = upset /\ "Merged" \in STATUS
      BY <1>2 DEF STATUS
    <3>. QED
      BY <1>2, <2>1, <2>2, <2>4, <3>1, <3>2, <3>3, StepPlot
  <2>. QED
    BY <2>3, <2>4
<1>. QED
  BY <1>3, <1>4

LEMMA EndPlot ==
  ASSUME FormInv, FormInv', NEW w \in Workers, NEW p \in Plots, Both(p),
         LandPayment(w) \/ CompletePayment(w) \/ RollbackPayment(w) \/ Die(w)
  PROVE  Both(p)'
<1>. DEFINE j == job[w]
<1>1. j \in Job /\ ShapeOf(j)
  BY Own
<1>0. CASE LandPayment(w)
  <2>1. /\ Goto(w, "receipt") /\ UNCHANGED <<plotStatus, bkStatus, bkPlot, upset>>
        /\ j.held = {}
    BY <1>0, <1>1, OpOfPc DEF LandPayment, ShapeOf
  <2>2. Works(w)
    BY <2>1, GotoWorks
  <2>. QED
    BY <2>1, <2>2, ElsewherePlot
<1>. SUFFICES ASSUME ~LandPayment(w) PROVE Both(p)'
  BY <1>0
<1>2. /\ Finish(w) /\ UNCHANGED <<plotStatus, bkStatus, bkPlot>>
      /\ \A q \in Plots : upset[q] \subseteq upset'[q]
      /\ j.op = "pay" \/ BreakOff(w)
  BY <1>1, OpOfPc, UpsetGrows DEF CompletePayment, RollbackPayment, Die, tables
<1>3. ASSUME p \in j.held, Quiet(p)', Story(j, p) PROVE Agrees(p, plotStatus[p])
  <2>1. Quiet(p) /\ OneBuyer(p)
    BY <1>2, <1>3 DEF Quiet, Both, PlotInv
  <2>2. j.op # "pay"
    BY <1>1, <1>3 DEF ShapeOf
  <2>3. ~(Halfway(j) /\ p = j.plot)
    <3>1. Upset(p, "partial") => "partial" \in upset'[p]
      BY DEF Upset, FormInv, TypeOK
    <3>. QED
      BY <1>2, <1>3, <2>2, <3>1 DEF BreakOff, Quiet
  <2>4. CASE j.op = "create"
    BY <1>1, <1>3, <2>1, <2>3, <2>4
       DEF ShapeOf, BookingOps, Halfway, Story, Has, OneBuyer, Agrees, Exists, STATUS
  <2>5. CASE j.op = "approve"
    BY <1>1, <1>3, <2>1, <2>3, <2>5
       DEF ShapeOf, BookingOps, Halfway, Story, Has, OneBuyer, Agrees
  <2>6. CASE j.op \in {"reject", "cancel", "buyback"}
    BY <1>1, <1>3, <2>3, <2>6 DEF ShapeOf, BookingOps, Halfway, Story
  <2>7. CASE j.op \in {"merge", "edit", "advance"}
    BY <1>3, <2>7 DEF Story
  <2>. QED
    BY <1>1, <1>3, <2>2, <2>4, <2>5, <2>6, <2>7 DEF Job, Ops, ShapeOf, NoJob
<1>. QED
  BY <1>2, <1>3, FinishWorks, TellPlot

LEMMA PlotPlot ==
  ASSUME FormInv, NEW q \in Plots, AddPlot(q) \/ RemovePlot(q), NEW p \in Plots, Both(p)
  PROVE  Both(p)'
<1>1. UNCHANGED <<bkStatus, bkPlot, job, upset>>
  BY DEF AddPlot, RemovePlot
<1>2. CASE p # q
  <2>1. plotStatus'[p] = plotStatus[p] /\ Live(p)' = Live(p)
    BY <1>1, <1>2 DEF AddPlot, RemovePlot, Live, FormInv, TypeOK
  <2>. QED
    BY <1>1, <2>1, PlotLocal
<1>3. CASE p = q
  <2>1. TableInv(p)'
    BY <1>1, <1>3 DEF AddPlot, RemovePlot, Both, TableInv, Alone, Checked, Exists, STATUS,
                      FormInv, TypeOK
  <2>2. /\ Live(p)' = Live(p)
        /\ \/ plotStatus[p] = "Absent" /\ plotStatus'[p] = "Available"
           \/ Live(p) = {} /\ plotStatus'[p] = "Deleted"
    BY <1>1, <1>3 DEF AddPlot, RemovePlot, Live, FormInv, TypeOK
  <2>3. ASSUME Quiet(p)'
        PROVE  /\ OneBuyer(p)'
               /\ \A w \in Workers : p \in job'[w].held => Story(job[w], p)'
               /\ ~Held(p)' => Agrees(p, plotStatus[p])'
    <3>0. Quiet(p) /\ OneBuyer(p)
      BY <1>1, <2>3 DEF Quiet, Both, PlotInv
    <3>1. OneBuyer(p)'
      BY <1>1, <2>2, <3>0 DEF OneBuyer
    <3>2. Agrees(p, plotStatus[p]) => Agrees(p, plotStatus[p])' /\ Live(p) = {}
      BY <1>1, <2>2 DEF Agrees, AllottedOrLater
    <3>3. ASSUME NEW w \in Workers, p \in job[w].held, Story(job[w], p)
          PROVE  Story(job[w], p)'
      <4>. DEFINE j == job[w]
      <4>1. j \in Job /\ ShapeOf(j)
        BY Own
      <4>2. \/ j.op = "create" /\ j.pc = "insert"
            \/ j.op \in {"reject", "cancel"} /\ j.pc \in {"plotRead", "plotWrite"}
            \/ j.op = "merge" \/ j.op \in {"edit", "advance"}
            \/ j.op = "buyback" /\ j.pc \in {"complete", "audit", "fail"}
        BY <1>1, <2>2, <3>2, <3>3, <4>1
           DEF Story, Has, ShapeOf, BookingOps, NoJob, Job, Ops
      <4>3. Story(j, p)'
        BY <1>1, <2>2, <3>2, <3>3, <4>2 DEF Story, Exists, STATUS
      <4>. QED
        BY <4>3
    <3>. QED
      BY <1>1, <3>0, <3>1, <3>2, <3>3 DEF Both, PlotInv, Held
  <2>. QED
    BY <2>1, <2>3 DEF Both, PlotInv
<1>. QED
  BY <1>2, <1>3

LEMMA DeskInit == Init => DeskInv
<1>. SUFFICES ASSUME Init, NEW p \in Plots PROVE FormInv /\ TableInv(p) /\ PlotInv(p)
  BY FormInit DEF DeskInv
<1>1. /\ \A w \in Workers : job[w] = NoJob /\ job[w].held = {} /\ job[w].pc = "idle"
      /\ plotStatus[p] = "Absent" /\ Live(p) = {}
  BY DEF Init, NoJob, Live, Active
<1>2. TableInv(p)
  BY <1>1 DEF TableInv, Alone, Checked
<1>3. PlotInv(p)
  BY <1>1 DEF PlotInv, OneBuyer, Agrees
<1>. QED
  BY <1>2, <1>3, FormInit

LEMMA DeskStep ==
  ASSUME DeskInv, [Next]_vars
  PROVE  DeskInv'
<1>1. FormInv /\ FormInv'
  BY FormStep DEF DeskInv
<1>. SUFFICES ASSUME NEW p \in Plots PROVE Both(p)'
  BY <1>1 DEF DeskInv, Both
<1>2. Both(p)
  BY DEF DeskInv, Both
<1>3. ASSUME NEW w \in Workers, Statement(w) PROVE Both(p)'
  BY <1>1, <1>2, <1>3, PlotReadPlot, PlotWritePlot, CreatePlot, ApprovePlot, CancelPlot,
     RecordPlot, MergePlot, EndPlot DEF Statement
<1>4. CASE UNCHANGED vars
  BY <1>2, <1>4, PlotLocal DEF vars, Live
<1>. QED
  BY <1>1, <1>2, <1>3, <1>4, RequestPlot, EndPlot, PlotPlot DEF Next

\* The inductive invariant of the desk.
THEOREM DeskCorrect == Spec => []DeskInv
BY DeskInit, DeskStep, PTL DEF Spec

\* A plot nobody has upset never has two live bookings.
THEOREM BuyersCorrect == Spec => []OneBuyerPerPlot
<1>1. DeskInv => OneBuyerPerPlot
  BY DEF DeskInv, PlotInv, OneBuyer, OneBuyerPerPlot
<1>. QED
  BY <1>1, DeskCorrect, PTL

\* Between requests the status of such a plot agrees with its bookings.
THEOREM PlotsCorrect == Spec => []PlotTellsOfBooking
<1>1. DeskInv => PlotTellsOfBooking
  BY DEF DeskInv, PlotInv, PlotTellsOfBooking
<1>. QED
  BY <1>1, DeskCorrect, PTL

-----------------------------------------------------------------------------
(* Steps *)

\* Every checked status write of a plot without overlap follows the table.
LEMMA StatusStep ==
  ASSUME DeskInv, [Next]_vars, NEW p \in Plots, plotStatus'[p] # plotStatus[p],
         "overlap" \notin upset[p], plotStatus[p] # "Absent", plotStatus'[p] # "Deleted"
  PROVE  Exists(p) /\ canTransition(plotStatus[p], plotStatus'[p])
<1>1. FormInv /\ Checked(p)
  BY DEF DeskInv, TableInv
<1>2. PICK w \in Workers : PlotUpdateWrite(w) \/ MergeWrite(w)
  <2>1. ASSUME NEW w \in Workers, Request(w) \/ Die(w) PROVE plotStatus' = plotStatus
    BY <2>1 DEF Request, Die, tables, CreateBooking, ApproveBooking, RejectBooking,
                CancelBooking, BuyBack, MergePlots, EditPlot, AdvancePlot, PayInstallment
  <2>2. ASSUME NEW w \in Workers, Statement(w), ~PlotUpdateWrite(w), ~MergeWrite(w)
        PROVE  plotStatus' = plotStatus
    BY <2>2 DEF Statement, tables, PlotUpdateRead, InsertBooking, AwaitApproval, AutoApprove,
                ConfirmBooking, CreatePlan, CreateInstallment, VoidInstallment, MarkCancelled,
                CreateRecord, RegisterInvoice, MergeRead, CompleteRecord, WriteAudit,
                StepFails, FailRecord, LandPayment, CompletePayment, RollbackPayment
  <2>3. ASSUME NEW q \in Plots, AddPlot(q) \/ RemovePlot(q) PROVE FALSE
    BY <1>1, <2>3 DEF AddPlot, RemovePlot, FormInv, TypeOK
  <2>. QED
    BY <2>1, <2>2, <2>3 DEF Next, vars
<1>3. /\ job[w].pc = "plotWrite" /\ job[w].plot = p /\ Exists(p)
      /\ plotStatus'[p] = job[w].target
  <2>1. job[w] \in Job /\ ShapeOf(job[w])
    BY <1>1, Own
  <2>2. job[w].pc = "plotWrite" /\ SetPlot(job[w].plot, job[w].target)
    BY <1>2, <2>1 DEF PlotUpdateWrite, MergeWrite, ShapeOf
  <2>. QED
    BY <1>1, <2>2 DEF SetPlot, FormInv, TypeOK
<1>. QED
  BY <1>1, <1>3 DEF Checked

\* The status of a plot moves along the table unless requests have overlapped.
THEOREM TableCorrect == Spec => PlotFollowsTable
<1>1. ASSUME DeskInv, [Next]_vars
      PROVE  [\A p \in Plots :
                \/ plotStatus'[p] = plotStatus[p]
                \/ "overlap" \in upset[p]
                \/ plotStatus[p] = "Absent" \/ plotStatus'[p] = "Deleted"
                \/ canTransition(plotStatus[p], plotStatus'[p])]_vars
  BY <1>1, StatusStep
<1>. QED
  BY <1>1, DeskCorrect, PTL DEF Spec, PlotFollowsTable

-----------------------------------------------------------------------------
(* The desk keeps the register *)

Disturbed == {p \in Plots : ~Quiet(p)}

\* Every step but three leaves the bookings alone, and no step calms a plot.
LEMMA DisturbStep ==
  ASSUME FormInv, [Next]_vars,
         \A w \in Workers : ~InsertBooking(w) /\ ~ConfirmBooking(w) /\ ~MarkCancelled(w)
  PROVE  /\ UNCHANGED <<bkStatus, bkPlot>>
         /\ \A q \in Plots : upset[q] \subseteq upset'[q]
<1>1. ASSUME NEW w \in Workers, NEW j, Begin(w, j)
      PROVE  \A q \in Plots : upset[q] \subseteq upset'[q]
  BY <1>1 DEF Begin, FormInv, TypeOK
<1>2. ASSUME NEW w \in Workers, Request(w)
      PROVE  UNCHANGED tables /\ \E j : Begin(w, j)
  BY <1>2 DEF Request, CreateBooking, ApproveBooking, RejectBooking,
              CancelBooking, BuyBack, MergePlots, EditPlot, AdvancePlot, PayInstallment
<1>3. ASSUME NEW w \in Workers, Statement(w) \/ Die(w)
      PROVE  /\ UNCHANGED <<bkStatus, bkPlot>>
             /\ UNCHANGED upset \/ BreakOff(w) \/ \E p, c : Upset(p, c)
  BY <1>3 DEF Statement, Die, tables, PlotUpdateRead, PlotUpdateWrite, AwaitApproval,
              AutoApprove, CreatePlan, CreateInstallment, VoidInstallment, CreateRecord,
              RegisterInvoice, MergeRead, MergeWrite, CompleteRecord, WriteAudit,
              StepFails, FailRecord, LandPayment, CompletePayment, RollbackPayment
<1>4. ASSUME NEW w \in Workers, BreakOff(w) \/ \E p, c : Upset(p, c)
      PROVE  \A q \in Plots : upset[q] \subseteq upset'[q]
  BY <1>4, UpsetGrows
<1>. QED
  BY <1>1, <1>2, <1>3, <1>4 DEF Next, vars, tables, AddPlot, RemovePlot

\* What a request that writes its booking finds, when nothing has upset the plot.
LEMMA OwnStory ==
  ASSUME DeskInv, NEW w \in Workers, job[w].op \in BookingOps
  PROVE  /\ job[w].plot \in Plots /\ job[w].bk \in Bookings
         /\ BookingOf(job[w])
         /\ Quiet(job[w].plot) => Story(job[w], job[w].plot)
<1>1. job[w] \in Job /\ ShapeOf(job[w]) /\ BookingOf(job[w])
  BY Own DEF DeskInv
<1>2. job[w].plot \in Plots /\ job[w].bk \in Bookings /\ job[w].plot \in job[w].held
  BY <1>1 DEF ShapeOf
<1>. QED
  BY <1>1, <1>2 DEF DeskInv, PlotInv

LEMMA RegisterStep ==
  ASSUME DeskInv, [Next]_vars
  PROVE  [Register!Next]_(Register!vars)
<1>0. FormInv
  BY DEF DeskInv
<1>1. ASSUME NEW w \in Workers, InsertBooking(w) PROVE [Register!Next]_(Register!vars)
  <2>1. job[w].op = "create" /\ job[w].pc = "insert"
    BY <1>0, <1>1, Own, OpOfPc DEF InsertBooking
  <2>2. job[w].plot \in Plots /\ job[w].bk \in Bookings /\ bkStatus[job[w].bk] = "none"
    BY <2>1, OwnStory DEF BookingOps, BookingOf
  <2>3. job[w].plot \in Disturbed \/ Live(job[w].plot) = {}
    BY <2>1, <2>2, OwnStory DEF BookingOps, Disturbed, Story
  <2>4. CASE Exists(job[w].plot)
    <3>1. Register!Book(job[w].bk, job[w].plot)
      BY <1>1, <2>2, <2>3, <2>4
         DEF InsertBooking, Register!Book, Register!Active, Live, Active, Disturbed, Quiet
    <3>. QED
      BY <2>2, <3>1 DEF Register!Next
  <2>5. CASE ~Exists(job[w].plot)
    BY <1>1, <2>5 DEF InsertBooking, Register!vars, Quiet
  <2>. QED
    BY <2>4, <2>5
<1>2. ASSUME NEW w \in Workers, ConfirmBooking(w) PROVE [Register!Next]_(Register!vars)
  <2>1. job[w].op = "approve" /\ job[w].pc = "confirm"
    BY <1>0, <1>2, Own, OpOfPc DEF ConfirmBooking
  <2>2. /\ job[w].plot \in Plots /\ job[w].bk \in Bookings
        /\ bkPlot[job[w].bk] = job[w].plot
    BY <2>1, OwnStory DEF BookingOps, BookingOf
  <2>3. job[w].plot \in Disturbed \/ bkStatus[job[w].bk] = "Pending"
    BY <2>1, <2>2, OwnStory DEF BookingOps, Disturbed, Story, Has
  <2>4. Register!Confirm(job[w].bk)
    BY <1>2, <2>2, <2>3 DEF ConfirmBooking, Register!Confirm, Disturbed, Quiet
  <2>. QED
    BY <2>2, <2>4 DEF Register!Next
<1>3. ASSUME NEW w \in Workers, MarkCancelled(w) PROVE [Register!Next]_(Register!vars)
  <2>1. job[w].op \in {"reject", "cancel", "buyback"} /\ job[w].pc = "mark"
    BY <1>0, <1>3, Own, OpOfPc DEF MarkCancelled
  <2>2. /\ job[w].plot \in Plots /\ job[w].bk \in Bookings
        /\ bkPlot[job[w].bk] = job[w].plot
    BY <2>1, OwnStory DEF BookingOps, BookingOf
  <2>3. job[w].plot \in Disturbed \/ bkStatus[job[w].bk] \in {"Pending", "Confirmed"}
    BY <2>1, <2>2, OwnStory DEF BookingOps, Disturbed, Story, Live, Active
  <2>4. Register!Cancel(job[w].bk)
    BY <1>3, <2>2, <2>3 DEF MarkCancelled, Register!Cancel, Disturbed, Quiet
  <2>. QED
    BY <2>2, <2>4 DEF Register!Next
<1>4. CASE \A w \in Workers : ~InsertBooking(w) /\ ~ConfirmBooking(w) /\ ~MarkCancelled(w)
  <2>1. /\ UNCHANGED <<bkStatus, bkPlot>>
        /\ \A q \in Plots : upset[q] \subseteq upset'[q]
    BY <1>0, <1>4, DisturbStep
  <2>2. Disturbed' = Disturbed \cup Disturbed' /\ Disturbed' \in SUBSET Plots
    BY <2>1 DEF Disturbed, Quiet
  <2>3. PICK ps \in SUBSET Plots : ps = Disturbed'
    BY <2>2
  <2>4. Register!Disturb(ps)
    BY <2>1, <2>2, <2>3 DEF Register!Disturb, Disturbed
  <2>. QED
    BY <2>4 DEF Register!Next
<1>. QED
  BY <1>1, <1>2, <1>3, <1>4

\* The desk implements the register: bookings are made, confirmed and cancelled
\* only as it promises, as long as their plot is not disturbed.
THEOREM RegisterCorrect == Spec => KeepsRegister
<1>1. Init => Register!Init
  BY DEF Init, Register!Init, Quiet
<1>2. ASSUME DeskInv, [Next]_vars PROVE [Register!Next]_(Register!vars)
  BY <1>2, RegisterStep
<1>. QED
  BY <1>1, <1>2, DeskCorrect, PTL DEF Spec, KeepsRegister, Register!Spec

=============================================================================
