------------------------------ MODULE MCSociety ------------------------------
(* The office on a few rows of every table. *)
EXTENDS SocietyProperties

MCIds == UNION {Plots, History, Transfers, Possessions, Constructions, Inspections, Nocs,
                Batches, Complaints, WorkOrders, Assets, Employees, Marks, Leaves, Guards,
                Duties, Visits, Passes, Blacklist, Vehicles, Appointments, Documents,
                Notices, Notifications, Invoices, Spendings, Persons}

MCOwner == [p \in Plots |-> CHOOSE m \in Members : TRUE]
MCFirst == [p \in Plots |-> CHOOSE h \in History : TRUE]
MCMatches == [b \in Blacklist |-> Visitors]

\* Desks that write each other's rows, together.
MCOpenings ==
  {{"plots", "transfers"}, {"transfers", "possession"}, {"possession", "construction"}, {"nocs"}, {"registry"},
   {"complaints"}, {"maintenance"}, {"employees", "attendance"}, {"employees", "leave"},
   {"employees", "appointments"}, {"guards"}, {"visitors"}, {"vehicles"}, {"documents"},
   {"notices"}, {"spending"}, {"members"}}

\* Which unused row is taken (Unused) makes no difference: nothing names it yet.
Symmetry == Permutations(Workers) \cup Permutations(Nocs) \cup Permutations(Transfers)

\* What happens after two requests collided on a column is not followed.
Calm == upset = {}
=============================================================================
