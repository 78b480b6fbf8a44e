-------------------------- MODULE PayrollProperties --------------------------
(***************************************************************************)
(* What the payroll gets right, and where it does not.                     *)
(***************************************************************************)
EXTENDS Payroll

\* A run that was approved is in the journal, in an entry that balances; and the
\* journal has one entry of it at most, though approvals die between posting and
\* approving and are repeated, unless two requests were about the run at once.
JournalFollows ==
  \A m \in Months :
    /\ run[m].status \in {"Approved", "Paid"} => posted[m] > 0 /\ Postable(run[m].entries)
    /\ m \notin raced => posted[m] <= 1

\* Worker w has left the allocation of loan l behind in paying run m.
Past(w, m, l) ==
  job[w].run = m /\ job[w].at \in {"pay", "deduct", "markPaid"} /\ l \notin LoansIn(job[w].todo)

Deducted(m, l) ==
  IF run[m].status = "Paid" \/ \E w \in Workers : Past(w, m, l)
  THEN SumFunction([k \in DOMAIN Allocations(run[m].entries) |->
         IF Allocations(run[m].entries)[k].loan = l THEN Allocations(run[m].entries)[k].amount ELSE 0])
  ELSE 0

\* What a loan was paid back is what the paid runs withheld for it: each run once,
\* none twice, in whatever order months are generated, approved and paid, unless
\* the loan is upset.
LoansByRuns ==
  \A l \in Loans \ upset : loan[l] # NoLoan =>
    loan[l].amount - loan[l].remaining = SumFunction([m \in Months |-> Deducted(m, l)])

\* The tax as one would define it: every unit of the annual income is taxed at the
\* rate of each slab it lies in.
UnitsIn(slab, annual) == {x \in 0..(annual - 1) : slab.from <= x /\ (slab.open \/ x < slab.to)}
TaxByUnit(gross, slabs) ==
  RoundDiv(SumFunction([k \in DOMAIN slabs |->
    slabs[k].rate * Cardinality(UnitsIn(slabs[k], 12 * gross))]), 1200)

Deductions(x) == x.other + x.eobi + x.fund + x.loan + x.tax

\* In every draft an entry takes from the earnings what it deducts, to the cent and
\* whatever is rounded; loans get no more than the earnings and their installment;
\* the tax is the slabs'.  So a draft can be posted unless some entry deducts more
\* than is earned: then it can not, and the month is not generated again.
DraftsAddUp ==
  /\ \A s \in Setups, g \in {Total(Contract[e], "Earning", 100) : e \in Employees} :
       MonthlyTax(g, s.slabs) = TaxByUnit(g, s.slabs)
  /\ \A m \in Months :
       LET es == run[m].entries
           Overdrawn(k) == Deductions(es[k]) > es[k].earnings
       IN /\ \A k \in DOMAIN es :
               /\ es[k].net = IF Overdrawn(k) THEN 0 ELSE es[k].earnings - Deductions(es[k])
               /\ es[k].loan <= es[k].earnings
               /\ \A i \in DOMAIN es[k].allocations :
                    es[k].allocations[i].amount \in 1..loan[es[k].allocations[i].loan].installment
          /\ run[m] # NoRun =>
               (Postable(es) <=> Debit(es) > 0 /\ \A k \in DOMAIN es : ~Overdrawn(k))

=============================================================================
