------------------------------ MODULE Approvals ------------------------------
(***************************************************************************)
(* What waits for a decision: the queue of approvals a user is shown       *)
(* (approvals/service.js), the dashboards' counts of open applications,    *)
(* complaints, work orders and visitors (dashboards/service.js) and those  *)
(* of the reports, over the rows of Society.  An item of the queue names   *)
(* the stage, the handler that is to come next; a count is the set of the  *)
(* rows it counts.                                                         *)
(*                                                                         *)
(* A module's part of the queue is cut off after PER_MODULE_CAP rows, the  *)
(* ones created last.  When rows were created is no column here: at gives  *)
(* their order.  Bookings and payroll runs, whose tables are not in file,  *)
(* and permissions by module are left out.                                 *)
(***************************************************************************)
EXTENDS Society

CONSTANT PER_MODULE_CAP  \* 8 in the code

ASSUME CapAssumption == PER_MODULE_CAP \in Nat \ {0}

In(ids, statuses) == {id \in ids : file[id].status \in statuses}
Items(ids, stage) == {[id |-> id, stage |-> stage[file[id].status]] : id \in ids}

\* The n rows created last.
Newest(ids, n, at) == {id \in ids : Cardinality({x \in ids : at[x] > at[id]}) < n}

-----------------------------------------------------------------------------
(* The queue: the statuses that are read, and the stage each waits for *)

loadSlice(ids, stage, at) == Items(Newest(In(ids, DOMAIN stage), PER_MODULE_CAP, at), stage)

\* Twice as many rows are read, those that are not due are left out and the rest is
\* cut off.
Collect(ids, stage, due, at) ==
  LET rows == Newest(In(ids, DOMAIN stage), 2 * PER_MODULE_CAP, at) IN
  Items(Newest(rows \cap due, PER_MODULE_CAP, at), stage)

_spendings(kind, at) ==
  loadSlice({x \in Spendings : file[x] # NoRow /\ file[x].kind = kind}, [Pending |-> "approve"], at)

_transfers(at) ==
  Collect(Transfers, [Draft |-> "verify", PendingVerification |-> "verify",
                      PendingApproval |-> "approve", Approved |-> "complete"], Transfers, at)

\* Under verification one is due when fee and dues are both settled.
_nocs(at) ==
  Collect(Nocs, [Applied |-> "verify", DuesPending |-> "clear-dues",
                 UnderVerification |-> "approve", Approved |-> "issue"],
          {n \in Nocs : file[n].status = "UnderVerification" => file[n].paid /\ file[n].cleared}, at)

\* Offered for approval whether or not the charges are paid.
_possession(at) ==
  Collect(Possessions, [Applied |-> "verify", UnderVerification |-> "approve", Approved |-> "issue"],
          {a \in Possessions : file[a].status = "Approved" => file[a].paid}, at)

_construction(at) == loadSlice(Constructions, [UnderReview |-> "approve"], at)

_leave(at) == loadSlice(Leaves, [Pending |-> "edit"], at)

\* Nobody is offered the expense or refund he made himself, unless exempt; what
\* was cut off before does not take its place.
OfOthers(items, user, exempt) == {x \in items : exempt \/ file[x.id].by # user}

pending(user, exempt, at) ==
  UNION {OfOthers(_spendings("expense", at) \cup _spendings("refund", at), user, exempt),
         _transfers(at), _nocs(at), _possession(at), _construction(at), _leave(at)}

-----------------------------------------------------------------------------
(* The dashboards *)

Kept(ids) == {id \in ids : file[id] # NoRow}

property ==
  [possessionPending |-> Kept(Possessions) \ In(Possessions, {"Possessed", "Rejected"}),
   transfersPending |-> Kept(Transfers) \ In(Transfers, {"Completed", "Rejected"}),
   nocsPending |-> Kept(Nocs) \ In(Nocs, {"Issued"})]

OPEN_STATUSES == {"New", "Assigned", "InProgress", "Reopened"}

operations ==
  [openComplaints |-> In(Complaints, OPEN_STATUSES),
   resolved |-> In(Complaints, {"Resolved", "Closed"}),
   workOrders |-> In(WorkOrders, {"Open", "InProgress"})]

security ==
  [activeVisitors |-> In(Visits, {"inside"}), passes |-> In(Passes, {"Active"}),
   vehicles |-> Kept(Vehicles), blocked |-> In(Vehicles, {"Blocked"}),
   guards |-> In(Guards, {"Active"})]

-----------------------------------------------------------------------------
(* The reports, each counted anew from the tables (reports/service.js and sql.js) *)

occupiedStatuses ==
  {"Allotted", "Sold", "Transferred", "Possessed", "Under Construction", "Constructed"}

Owned == {p \in Plots : file[p].owner # None}

dashboard ==
  [activePlots |-> Owned \cap In(Plots, occupiedStatuses),
   openComplaints |-> In(Complaints, OPEN_STATUSES),
   pendingWorkOrders |-> In(WorkOrders, {"Open", "InProgress"}),
   activeVisitors |-> In(Visits, {"inside"}),
   activeEmployees |-> In(Employees, {"Active", "On Leave"})]

occupancy == [occupied |-> Owned, available |-> In(Plots, {"Available"})]

complaintsReport ==
  [open |-> In(Complaints, OPEN_STATUSES),
   resolved |-> {c \in In(Complaints, {"Resolved"}) : file[c].resolved}]
=============================================================================
