-------------------------- MODULE PlotStateMachine --------------------------
(***************************************************************************)
(* The plot life cycle of properties/stateMachine.js: the statuses of      *)
(* properties/plot.model.js and the table that every status write checks.  *)
(***************************************************************************)

STATUS == {"Available", "Reserved", "Booked", "Allotted", "Sold",
           "Transferred", "Cancelled", "Possessed", "Under Construction",
           "Constructed", "Merged", "BoughtBack"}

STATUS_TRANSITIONS ==
  [ s \in STATUS |->
      CASE s = "Available"   -> {"Reserved", "Booked", "Cancelled", "Merged"}
        [] s = "Reserved"    -> {"Available", "Booked", "Cancelled", "Merged"}
        [] s = "Booked"      -> {"Allotted", "Available", "Cancelled", "Merged"}
        [] s = "Allotted"    -> {"Sold", "Transferred", "Possessed", "Merged",
                                 "Under Construction", "Cancelled", "Available"}
        [] s = "Sold"        -> {"Transferred", "Possessed", "Under Construction"}
        [] s = "Transferred" -> {"Transferred", "Possessed", "Under Construction"}
        [] s = "Cancelled"   -> {"Available"}
        [] s = "Possessed"   -> {"Under Construction", "Constructed"}
        [] s = "Under Construction" -> {"Constructed"}
        [] s = "BoughtBack"  -> {"Available"}
        [] OTHER             -> {} ]

\* Writing the present status again is always allowed.
canTransition(from, to) == from = to \/ to \in STATUS_TRANSITIONS[from]

\* Statuses a plot has from the approval of its booking onwards.
AllottedOrLater == {"Allotted", "Sold", "Transferred", "Possessed",
                    "Under Construction", "Constructed"}

=============================================================================
