------------------------------- MODULE Society -------------------------------
(***************************************************************************)
(* The desks of the society's office at work on one database: those of     *)
(* Title, Casework, Staff, Gate and Records.  A desk is a group of         *)
(* handlers that read each other's rows; desks says which are staffed.     *)
(***************************************************************************)
EXTENDS Title, Casework, Gate, Records

CONSTANTS
  Openings,     \* bound: the sets of desks that may be staffed together
  First, Owner  \* each plot's first row of the ownership history, and its owner

\* Every table has identifiers of its own.
Tables ==
  <<Plots, History, Transfers, Possessions, Constructions, Inspections, Nocs, Batches,
    Complaints, WorkOrders, Assets, Employees, Marks, Leaves, Guards, Duties, Visits, Passes,
    Blacklist, Vehicles, Appointments, Documents, Notices, Notifications, Invoices, Spendings,
    Persons>>

ASSUME TablesAssumption ==
  \A i, j \in DOMAIN Tables : Tables[i] \subseteq Ids /\ (i # j => Tables[i] \cap Tables[j] = {})

\* A booking approved before has opened a row of its own for each plot.
ASSUME OwnersAssumption ==
  /\ Owner \in [Plots -> Members] /\ First \in [Plots -> History]
  /\ \A p, q \in Plots : First[p] = First[q] => p = q

\* A row of the ownership history is there by hand, or because of a transfer.
ASSUME NamesAssumption ==
  /\ {"hand", None} \cap Transfers = {}
  /\ None \notin Members \cup Documents

VARIABLE desks

societyVars == <<titleVars, desks>>

DeskSteps(desk, w) ==
  \/ desk = "plots" /\ PlotSteps(w)
  \/ desk = "transfers" /\ TransferSteps(w)
  \/ desk = "possession" /\ PossessionSteps(w)
  \/ desk = "construction" /\ ConstructionSteps(w)
  \/ desk = "nocs" /\ NocSteps(w)
  \/ desk = "registry" /\ BatchSteps(w)
  \/ desk = "complaints" /\ ComplaintSteps(w)
  \/ desk = "maintenance" /\ WorkSteps(w)
  \/ desk = "employees" /\ EmployeeSteps(w)
  \/ desk = "attendance" /\ AttendanceSteps(w)
  \/ desk = "leave" /\ LeaveSteps(w)
  \/ desk = "guards" /\ GuardSteps(w)
  \/ desk = "visitors" /\ VisitSteps(w)
  \/ desk = "vehicles" /\ VehicleSteps(w)
  \/ desk = "appointments" /\ AppointmentSteps(w)
  \/ desk = "documents" /\ DocumentSteps(w)
  \/ desk = "notices" /\ NoticeSteps(w)
  \/ desk = "spending" /\ SpendingSteps(w)
  \/ desk = "members" /\ MemberSteps(w)

Init ==
  /\ TitleInit(First, Owner)
  /\ desks \in Openings
  /\ "transfers" \notin desks => owing = {}

Next ==
  /\ desks' = desks
  /\ \/ /\ \E w \in Workers :
             (\E d \in desks : DeskSteps(d, w)) \/ Write(w) \/ Die(w)
        /\ UNCHANGED owing
     \/ desks \cap {"visitors", "appointments"} # {} /\ Tick /\ UNCHANGED owing
     \/ desks \cap {"transfers", "possession", "nocs"} # {} /\ InstallmentsMove

Spec == Init /\ [][Next]_societyVars
=============================================================================
