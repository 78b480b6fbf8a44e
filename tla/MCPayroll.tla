------------------------------ MODULE MCPayroll ------------------------------
EXTENDS PayrollProperties

CONSTANTS ann, bob

Part(type, calc, amount) == [type |-> type, calc |-> calc, amount |-> amount]

\* Ann earns 20 and 15 percent of that, less a fixed 1; Bob has no basic salary.
TwoContracts ==
  (ann :> [basic |-> 20, structure |-> <<Part("Earning", "Fixed", 20),
             Part("Earning", "Percentage", 15), Part("Deduction", "Fixed", 1)>>]) @@
  (bob :> [basic |-> 0, structure |-> <<Part("Earning", "Fixed", 7)>>])

\* Ann missed half a day; not all of Bob's days are recorded.
TwoMarks == (ann :> <<"present", "half", "leave">>) @@ (bob :> <<"absent", "half">>)

Slab(from, to, rate) == [from |-> from, to |-> to, open |-> FALSE, rate |-> rate]
Above(from, rate) == [from |-> from, to |-> 0, open |-> TRUE, rate |-> rate]

\* No tax and no funds; and two slabs, one of them open, with both funds.
TwoSetups ==
  {[days |-> 3, eobi |-> 0, fund |-> 0, slabs |-> <<>>],
   [days |-> 3, eobi |-> 5, fund |-> 10, slabs |-> <<Slab(60, 100, 10), Above(100, 20)>>]}

\* A loan repaid in two installments, and one that takes all Bob earns.
TwoGrants == {[employee |-> ann, amount |-> 3, installment |-> 2],
              [employee |-> bob, amount |-> 9, installment |-> 9]}

\* No property but the type is about runs and loans that are disturbed.
Undisturbed == raced = {} /\ upset = {}
=============================================================================
