------------------------------ MODULE Payments ------------------------------
(***************************************************************************)
(* Collecting the installments of one member: payments/service.js and      *)
(* allocationCalculator.js over the tables installments, payments and      *)
(* numberingRules, with the parts of bookings/service.js that issue and    *)
(* void installments.                                                      *)
(*                                                                         *)
(* Money is counted in the unit roundCurrency rounds to.  A payment reads  *)
(* the open installments, splits its amount over them oldest first, reads  *)
(* them again one by one to be able to restore them, draws a receipt       *)
(* number, inserts the payment and updates the installments one by one; on *)
(* an error it deletes the payment and restores what it had read.          *)
(***************************************************************************)
EXTENDS NumberingRule, Integers, FiniteSets, FiniteSetsExt

CONSTANTS Count,     \* installments 1..Count, in the order of their due dates
          Plots, PlotOf, Amount, DueDay,
          Payments, Workers, None,
          Sums,      \* amounts members pay
          Rules,     \* feeSettings.penaltyRule: what operators may set it to
          MonthDays, \* 30 in calculatePenalty
          LastDay,   \* bound on time
          LastNumber \* bound on the numbers drawn in a period

Installments == 1..Count

ASSUME AccountAssumption ==
  /\ Count \in Nat /\ LastDay \in Nat /\ LastNumber \in Nat /\ MonthDays \in Nat \ {0}
  /\ PlotOf \in [Installments -> Plots]
  /\ Amount \in [Installments -> Nat \ {0}]
  /\ DueDay \in [Installments -> Nat]
  /\ \A i, j \in Installments : i < j => DueDay[i] <= DueDay[j]
  /\ Sums \subseteq Nat \ {0}
  /\ None \notin Plots \cup Payments

VARIABLES
  today,
  inst,       \* inst[i]: the row of installment i
  payment,    \* payment[x]: the row of payment x
  receipts,   \* currentSequence of the numbering rule of receipts
  job,        \* job[w]: the request worker w runs
  upset,      \* ghost: what has gone wrong around installment i
  misnumbered \* ghost: two numbers were being drawn at once

vars == <<today, inst, payment, receipts, job, upset, misnumbered>>

IStatus == {"none", "Upcoming", "PartiallyPaid", "Paid", "Voided"}
NoPayment == [status |-> "none", number |-> None, parts |-> <<>>]

\* "held": installments of the plots the request is about; "rows": the values it is to
\* write; "before": the values it read to restore; "todo": rows still to write.
NoJob == [pc |-> "idle", pay |-> None, held |-> {}, parts |-> <<>>,
          rows |-> <<>>, before |-> <<>>, todo |-> {},
          sequence |-> 0, number |-> None]

Init ==
  /\ today = 0
  /\ inst = [i \in Installments |->
               [status |-> "none", paid |-> 0, balance |-> 0, penalty |-> 0]]
  /\ payment = [x \in Payments |-> NoPayment]
  /\ receipts = 0
  /\ job = [w \in Workers |-> NoJob]
  /\ upset = [i \in Installments |-> {}]
  /\ misnumbered = FALSE

-----------------------------------------------------------------------------
(* allocationCalculator.js; no code sets discountAmount, which stays 0.    *)

AtLeast(x, y) == IF x >= y THEN x ELSE y

calculatePenalty(balance, overdueDays, rule) ==
  LET billable == AtLeast(0, overdueDays - rule.graceDays)
      periods  == IF rule.period = "month"
                  THEN (billable + MonthDays - 1) \div MonthDays ELSE billable
  IN  IF balance = 0 THEN 0
      ELSE IF rule.type = "percentage"
      THEN (balance * rule.amount * periods + 50) \div 100   \* rounded half up
      ELSE rule.amount * periods

Principal(i) == AtLeast(0, Amount[i] - inst[i].paid)

\* The penalty as of today; what was charged once is not taken back.
PenaltyNow(i, rule) ==
  AtLeast(inst[i].penalty,
          calculatePenalty(Principal(i), AtLeast(0, today - DueDay[i]), rule))

Outstanding(i, rule) == Principal(i) + PenaltyNow(i, rule)

OfPlot(q) == {i \in Installments : PlotOf[i] = q}

\* PaymentService.getInstallments: of one plot, or of all for q = None.
Open(q) == {i \in Installments : q \in {None, PlotOf[i]} /\ inst[i].balance > 0}

Total(f, S) == MapThenSumSet(LAMBDA i : f[i], S)

\* Mutation: an older installment may be left with something to pay.
allocatePayment_AnyOrder(S, amount, rule) ==
  {f \in [S -> 0..amount] : /\ \A i \in S : f[i] <= Outstanding(i, rule)
                            /\ Total(f, S) = amount}

\* The loop of allocatePayment: all of amount is spread over S, nothing to an
\* installment unless every older one of S is covered.  At most one function;
\* none when amount exceeds what is outstanding (the request is refused).
allocatePayment(S, amount, rule) ==
  {f \in [S -> 0..amount] :
     /\ Total(f, S) = amount
     /\ \A i \in S : f[i] <= Outstanding(i, rule)
     /\ \A i, j \in S : i < j /\ f[j] > 0 => f[i] = Outstanding(i, rule)}

\* Mutation: the balance includes a penalty that is not stored.
Updated_PenaltyLost(i, part, rule) ==
  LET balance == Outstanding(i, rule) - part IN
  [status |-> IF balance = 0 THEN "Paid" ELSE "PartiallyPaid",
   paid |-> inst[i].paid + part, balance |-> balance, penalty |-> inst[i].penalty]

\* The update allocatePayment computes for installment i when it gets part.
Updated(i, part, rule) ==
  LET balance == Outstanding(i, rule) - part IN
  [status |-> IF balance = 0 THEN "Paid" ELSE "PartiallyPaid",
   paid |-> inst[i].paid + part, balance |-> balance,
   penalty |-> PenaltyNow(i, rule)]

-----------------------------------------------------------------------------
(* Bookkeeping of requests *)

\* A request begins; installments it shares with another one are overlapped.
Begin(w, j) ==
  /\ job[w] = NoJob
  /\ job' = [job EXCEPT ![w] = j]
  /\ upset' = [i \in Installments |->
       IF i \in j.held /\ \E v \in Workers : i \in job[v].held
       THEN upset[i] \cup {"overlap"} ELSE upset[i]]

Goto(w, pc) == job' = [job EXCEPT ![w].pc = pc]
Finish(w)   == job' = [job EXCEPT ![w] = NoJob]
Partial(w)  == upset' = [i \in Installments |->
                 IF i \in DOMAIN job[w].rows THEN upset[i] \cup {"partial"} ELSE upset[i]]

\* The payment is recorded and its installments are not all at one with it.
Halfway(j) == \/ j.pc = "update" \/ j.pc = "undo" \/ j.pc = "restore"

Fresh(x) == payment[x] = NoPayment /\ \A w \in Workers : job[w].pay # x
accounts == <<today, inst, payment, receipts, misnumbered>>

-----------------------------------------------------------------------------
(* PaymentService.create *)

CollectPayment(w, x, q, amount, rule) ==
  /\ Fresh(x)
  /\ \E f \in allocatePayment(Open(q), amount, rule) :
       LET S == {i \in Open(q) : f[i] > 0} IN
       Begin(w, [NoJob EXCEPT !.pc = "snapshot", !.pay = x, !.parts = f, !.todo = S,
                              !.held = UNION {OfPlot(PlotOf[i]) : i \in Open(q)},
                              !.rows = [i \in S |-> Updated(i, f[i], rule)]])
  /\ UNCHANGED accounts

\* Installment.findById for each installment to be updated.
ReadBefore(w) ==
  /\ job[w].pc = "snapshot"
  /\ job' = [job EXCEPT ![w].before = [i \in job[w].todo |-> inst[i]],
                        ![w].pc = "number"]
  /\ UNCHANGED <<accounts, upset>>

\* NumberingRule.getNextNumber: the read ...
ReadRule(w) ==
  /\ job[w].pc = "number"
  /\ NextSequence(receipts) <= LastNumber
  /\ job' = [job EXCEPT ![w].sequence = NextSequence(receipts), ![w].pc = "count"]
  /\ misnumbered' = (misnumbered \/ \E v \in Workers : job[v].pc \in {"count", "format"})
  /\ UNCHANGED <<today, inst, payment, receipts, upset>>

WriteRule(w) ==
  /\ job[w].pc = "count"
  /\ receipts' = job[w].sequence
  /\ Goto(w, "format")
  /\ UNCHANGED <<today, inst, payment, upset, misnumbered>>

\* ... and the read of the row it left, or another request has.
FormatNumber(w) ==
  /\ job[w].pc = "format"
  /\ job' = [job EXCEPT ![w].number = formatNumber(receipts, today), ![w].pc = "insert"]
  /\ UNCHANGED <<accounts, upset>>

InsertPayment(w) ==
  LET j == job[w] IN
  /\ j.pc = "insert"
  /\ payment' = [payment EXCEPT ![j.pay] =
       [status |-> "Completed", number |-> j.number, parts |-> j.parts]]
  /\ Goto(w, "update")
  /\ UNCHANGED <<today, inst, receipts, upset, misnumbered>>

\* Installment.update, oldest first.
UpdateInstallment(w) ==
  LET j == job[w]  i == Min(j.todo) IN
  /\ j.pc = "update"
  /\ inst' = [inst EXCEPT ![i] = j.rows[i]]
  /\ job' = [job EXCEPT ![w].todo = @ \ {i},
                        ![w].pc = IF j.todo = {i} THEN "receipt" ELSE "update"]
  /\ UNCHANGED <<today, payment, receipts, upset, misnumbered>>

\* The audit row; what follows it (notice, invoice) cannot fail the request.
CompletePayment(w) ==
  /\ job[w].pc = "receipt"
  /\ Finish(w)
  /\ UNCHANGED <<accounts, upset>>

\* A statement after the insert throws: the catch block begins.
FailPayment(w) ==
  /\ job[w].pc \in {"update", "receipt"}
  /\ Goto(w, "undo")
  /\ UNCHANGED <<accounts, upset>>

DeletePayment(w) ==
  LET j == job[w] IN
  /\ j.pc = "undo"
  /\ payment' = [payment EXCEPT ![j.pay] = NoPayment]
  /\ job' = [job EXCEPT ![w].pc = "restore", ![w].todo = DOMAIN j.before]
  /\ UNCHANGED <<today, inst, receipts, upset, misnumbered>>

\* Mutation: the restored fields are those the payment computed.
RestoreInstallment_WrongRow(w) ==
  LET j == job[w]  i == Min(j.todo) IN
  /\ j.pc = "restore"
  /\ inst' = [inst EXCEPT ![i] = j.rows[i]]
  /\ IF j.todo = {i} THEN Finish(w) ELSE job' = [job EXCEPT ![w].todo = @ \ {i}]
  /\ UNCHANGED <<today, payment, receipts, upset, misnumbered>>

RestoreInstallment(w) ==
  LET j == job[w]  i == Min(j.todo) IN
  /\ j.pc = "restore"
  /\ inst' = [inst EXCEPT ![i] = j.before[i]]
  /\ IF j.todo = {i} THEN Finish(w) ELSE job' = [job EXCEPT ![w].todo = @ \ {i}]
  /\ UNCHANGED <<today, payment, receipts, upset, misnumbered>>

\* A statement of the catch block fails and the error is swallowed.
UndoFails(w) ==
  LET j == job[w] IN
  /\ \/ /\ j.pc = "undo"
        /\ job' = [job EXCEPT ![w].pc = "restore", ![w].todo = DOMAIN j.before]
     \/ /\ j.pc = "restore"
        /\ IF Cardinality(j.todo) = 1 THEN Finish(w)
           ELSE job' = [job EXCEPT ![w].todo = @ \ {Min(j.todo)}]
  /\ Partial(w)
  /\ UNCHANGED accounts

\* The process stops, or a statement before the insert throws.
Die(w) ==
  /\ job[w] # NoJob
  /\ IF Halfway(job[w]) THEN Partial(w) ELSE UNCHANGED upset
  /\ Finish(w)
  /\ UNCHANGED accounts

-----------------------------------------------------------------------------
(* bookings/service.js: approve inserts the installments of a plot in the  *)
(* order of their due dates, cancel voids those with something left to pay *)

CreateInstallment(i) ==
  /\ inst[i].status = "none"
  /\ \A k \in OfPlot(PlotOf[i]) : k < i => inst[k].status # "none"
  /\ inst' = [inst EXCEPT ![i].status = "Upcoming", ![i].balance = Amount[i]]
  /\ UNCHANGED <<today, payment, receipts, job, upset, misnumbered>>

CancelBooking(w, q) ==
  LET S == {i \in OfPlot(q) : /\ inst[i].balance > 0 \/ inst[i].paid = 0
                             /\ inst[i].status # "Voided"} IN
  /\ \A i \in OfPlot(q) : inst[i].status # "none"
  /\ S # {}
  /\ Begin(w, [NoJob EXCEPT !.pc = "void", !.held = OfPlot(q), !.todo = S])
  /\ UNCHANGED accounts

\* Mutation: the balance stays.
VoidInstallment_Owed(w) ==
  LET j == job[w] IN
  /\ j.pc = "void"
  /\ \E i \in j.todo :
       /\ inst' = [inst EXCEPT ![i].status = "Voided"]
       /\ IF j.todo = {i} THEN Finish(w) ELSE job' = [job EXCEPT ![w].todo = @ \ {i}]
  /\ UNCHANGED <<today, payment, receipts, upset, misnumbered>>

\* paidAmount and penaltyAmount stay as they are.
VoidInstallment(w) ==
  LET j == job[w] IN
  /\ j.pc = "void"
  /\ \E i \in j.todo :
       /\ inst' = [inst EXCEPT ![i].status = "Voided", ![i].balance = 0]
       /\ IF j.todo = {i} THEN Finish(w) ELSE job' = [job EXCEPT ![w].todo = @ \ {i}]
  /\ UNCHANGED <<today, payment, receipts, upset, misnumbered>>

\* The clock.
Tick ==
  /\ today < LastDay
  /\ today' = today + 1
  /\ UNCHANGED <<inst, payment, receipts, job, upset, misnumbered>>

-----------------------------------------------------------------------------
Request(w) ==
  \/ \E x \in Payments, q \in Plots \cup {None}, amount \in Sums, rule \in Rules :
       CollectPayment(w, x, q, amount, rule)
  \/ \E q \in Plots : CancelBooking(w, q)

Statement(w) ==
  \/ ReadBefore(w) \/ ReadRule(w) \/ WriteRule(w) \/ FormatNumber(w)
  \/ InsertPayment(w)
  \/ UpdateInstallment(w) \/ CompletePayment(w) \/ FailPayment(w)
  \/ DeletePayment(w) \/ RestoreInstallment(w) \/ UndoFails(w)
  \/ VoidInstallment(w)

Next ==
  \/ \E w \in Workers : Request(w) \/ Statement(w) \/ Die(w)
  \/ \E i \in Installments : CreateInstallment(i)
  \/ Tick

Spec == Init /\ [][Next]_vars
=============================================================================
