--------------------------- MODULE MCBookingDesk ----------------------------
EXTENDS BookingDeskProperties, Naturals, TLC

CONSTANT MaxMishaps

DeskSymmetry == Permutations(Plots) \cup Permutations(Bookings) \cup Permutations(Records)
                \cup Permutations(Workers) \cup Permutations(Installments)

\* A behaviour is followed no further once two requests have overlapped (no
\* property is about that plot any more) or more than MaxMishaps other things
\* have gone wrong.
FewMishaps ==
  /\ \A p \in Plots : "overlap" \notin upset[p]
  /\ Cardinality({x \in Plots \X Causes : x[2] \in upset[x[1]]}) <= MaxMishaps

\* Payments move installments, which the properties of plots and records do not
\* look at; the runs about plans follow them.
NoPayments == \A w \in Workers : job[w].op # "pay"

\* Nor do they matter to a buyback that is tried again.
NoPaymentsBesideRetries == (\A r \in Records : record[r] # NoRecord) => NoPayments
=============================================================================
