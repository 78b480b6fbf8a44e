---------------------------- MODULE PayrollRules ----------------------------
(***************************************************************************)
(* hr-payroll/payrollCalculator.js and buildGLLines of its service: what   *)
(* an employee earns and is deducted in a month.                           *)
(*                                                                         *)
(* Amounts are whole cents, rates and factors whole percent; roundMoney    *)
(* rounds a half up.  (The code computes in floating point and rounds to   *)
(* cents after each operation.)                                            *)
(***************************************************************************)
EXTENDS Integers, Sequences, SequencesExt

RoundDiv(n, d) == (2 * n + d) \div (2 * d)
AtLeast0(n) == IF n > 0 THEN n ELSE 0
Least(S) == Min(S)

\* attendanceProration: marks are the records of the month's working days, of which
\* there are days.  Pay is prorated only if every day is accounted for.
HalfDays == [present |-> 2, leave |-> 2, holiday |-> 2, half |-> 1, absent |-> 0]

Factor(marks, days) ==
  IF Len(marks) < days THEN 100
  ELSE Least({100, RoundDiv(50 * SumFunction([k \in DOMAIN marks |-> HalfDays[marks[k]]]), days)})

\* calculateComponents: a component is an earning or a deduction, fixed or a
\* percentage of the base salary.
FixedEarnings(structure) ==
  SumFunction([k \in DOMAIN structure |->
    IF structure[k].type = "Earning" /\ structure[k].calc = "Fixed" THEN structure[k].amount ELSE 0])

Base(e) == IF e.basic > 0 THEN e.basic ELSE FixedEarnings(e.structure)

Share(e, c, factor) ==
  IF c.calc = "Percentage" THEN RoundDiv(Base(e) * c.amount * factor, 10000)
                           ELSE RoundDiv(c.amount * factor, 100)

Total(e, type, factor) ==
  SumFunction([k \in DOMAIN e.structure |->
    IF e.structure[k].type = type THEN Share(e, e.structure[k], factor) ELSE 0])

\* calculateProgressiveTax: slabs tax the part of the annual income within them;
\* open slabs have no upper end.
TaxableIn(slab, annual) ==
  AtLeast0((IF slab.open THEN annual ELSE Least({annual, slab.to})) - slab.from)

MonthlyTax(gross, slabs) ==
  RoundDiv(SumFunction([k \in DOMAIN slabs |->
    IF slabs[k].open \/ slabs[k].to > slabs[k].from
    THEN TaxableIn(slabs[k], 12 * gross) * slabs[k].rate ELSE 0]), 1200)

AllocateLoans(loans, available) ==
  FoldLeft(LAMBDA acc, l :
    LET sum == Least({available - acc.total, l.remaining, l.installment}) IN
    IF sum <= 0 THEN acc
    ELSE [of |-> Append(acc.of, [loan |-> l.id, amount |-> sum]), total |-> acc.total + sum],
    [of |-> <<>>, total |-> 0], loans)

\* Mutation: net pay is what the deductions leave, even if that is negative.
Entry_NoFloor(e, marks, setup, loans) ==
  LET factor  == Factor(marks, setup.days)
      gross   == Total(e, "Earning", factor)
      other   == Total(e, "Deduction", factor)
      eobi    == RoundDiv(gross * setup.eobi, 100)
      fund    == RoundDiv(gross * setup.fund, 100)
      loan    == AllocateLoans(loans, gross)
      tax     == MonthlyTax(gross, setup.slabs)
  IN [earnings |-> gross, other |-> other, eobi |-> eobi, fund |-> fund, loan |-> loan.total,
      allocations |-> loan.of, tax |-> tax, net |-> gross - (other + eobi + fund + loan.total + tax)]

\* calculatePayrollEntry.  Loans may take all earnings before tax and funds are
\* deducted; net pay never falls below zero.
Entry(e, marks, setup, loans) ==
  LET factor  == Factor(marks, setup.days)
      gross   == Total(e, "Earning", factor)
      other   == Total(e, "Deduction", factor)
      eobi    == RoundDiv(gross * setup.eobi, 100)
      fund    == RoundDiv(gross * setup.fund, 100)
      loan    == AllocateLoans(loans, gross)
      tax     == MonthlyTax(gross, setup.slabs)
  IN [earnings |-> gross, other |-> other, eobi |-> eobi, fund |-> fund, loan |-> loan.total,
      allocations |-> loan.of, tax |-> tax,
      net |-> AtLeast0(gross - (other + eobi + fund + loan.total + tax))]

\* sumRunTotals, buildGLLines: one debit against six credits.
SumOf(entries, F(_)) == SumFunction([e \in DOMAIN entries |-> F(entries[e])])

Debit(entries)  == SumOf(entries, LAMBDA x : x.earnings)
Credit(entries) == SumOf(entries, LAMBDA x : x.other + x.eobi + x.fund + x.loan + x.tax + x.net)

\* postToGL accepts a journal entry only if it balances and is not empty.
Postable(entries) == Debit(entries) > 0 /\ Debit(entries) = Credit(entries)
=============================================================================
