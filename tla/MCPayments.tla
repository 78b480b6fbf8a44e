----------------------------- MODULE MCPayments -----------------------------
EXTENDS PaymentsProperties, TLC

CONSTANTS p1, p2

\* The older and the newer installment of p1 with the only one of p2 between.
TwoPlots   == 1 :> p1 @@ 2 :> p2 @@ 3 :> p1
TwoDue     == 1 :> 0 @@ 2 :> 0 @@ 3 :> 1
TwoAmounts == 1 :> 2 @@ 2 :> 1 @@ 3 :> 1

OnePlot    == 1 :> p1 @@ 2 :> p1
OneDue     == 1 :> 0 @@ 2 :> 1
OneAmounts == 1 :> 2 @@ 2 :> 1

Flat    == [type |-> "flat", amount |-> 2, period |-> "day", graceDays |-> 0]
Monthly == [type |-> "percentage", amount |-> 60, period |-> "month", graceDays |-> 0]
Charges == {Flat, Monthly}
FlatOnly == {Flat}

PaymentSymmetry == Permutations(Payments) \cup Permutations(Workers)

\* A behaviour is followed no further once an installment is upset or a number
\* was drawn amiss: no property is about that installment or number any more,
\* and the other installments behave as if it had not happened.
Undisturbed == ~misnumbered /\ \A i \in Installments : Quiet(i)
=============================================================================
