------------------------------ MODULE Casework ------------------------------
(***************************************************************************)
(* Complaints and the work orders they lead to (complaints/service.js,     *)
(* maintenance/service.js).  A thread of comments or a progress log is a   *)
(* JSON column: it is read, appended to and written back whole.  Texts,    *)
(* departments, costs and notifications are left out; an entry of a thread *)
(* is the request that made it.                                            *)
(***************************************************************************)
EXTENDS Requests

CONSTANTS Complaints, WorkOrders, Assets,
          MaxThread  \* bound: entries of a thread

CaseInit == [id \in Ids |-> NoRow]

-----------------------------------------------------------------------------
(* Complaints                                                              *)

COMPLAINT_TRANSITIONS ==
  [New |-> {"Assigned"}, Assigned |-> {"InProgress", "Resolved"}, InProgress |-> {"Resolved"},
   Resolved |-> {"Reopened", "Closed"}, Reopened |-> {"Assigned", "InProgress"}, Closed |-> {}]

canTransitionStatus(from, to) ==
  from \in DOMAIN COMPLAINT_TRANSITIONS /\ to \in COMPLAINT_TRANSITIONS[from]

ComplaintRow == [status |-> "New", resolved |-> FALSE, thread |-> <<>>]

CreateComplaint(w, c) ==
  /\ c \in Unused(Complaints)
  /\ Begin(w, <<Insert(c, ComplaintRow)>>)

\* Staff and department change in any case; the status only before work starts.
AssignComplaint(w, c) ==
  /\ file[c].status \notin {"none", "Resolved", "Closed"}
  /\ Begin(w, <<Update(c, When(file[c].status \in {"New", "Reopened"}, [status |-> "Assigned"]))>>)

\* Mutation: the thread is reset to the new comment.
AddComment_Alone(w, c) ==
  /\ file[c] # NoRow
  /\ Len(file[c].thread) < MaxThread
  /\ Begin(w, <<Update(c, [thread |-> <<w>>])>>)

\* In any status.
AddComment(w, c) ==
  /\ file[c] # NoRow
  /\ Len(file[c].thread) < MaxThread
  /\ Begin(w, <<Update(c, [thread |-> Append(file[c].thread, w)])>>)

\* A complaint reopened this way keeps its resolvedAt.
ChangeComplaintStatus(w, c, to) ==
  /\ to # "Resolved"
  /\ canTransitionStatus(file[c].status, to)
  /\ Begin(w, <<Update(c, [status |-> to])>>)

\* The note and resolvedAt are written with the status.
ResolveComplaint(w, c) ==
  /\ canTransitionStatus(file[c].status, "Resolved")
  /\ Begin(w, <<Update(c, [status |-> "Resolved", resolved |-> TRUE])>>)

ReopenComplaint(w, c) ==
  /\ canTransitionStatus(file[c].status, "Reopened")
  /\ Begin(w, <<Update(c, [status |-> "Reopened", resolved |-> FALSE])>>)

-----------------------------------------------------------------------------
(* Assets and work orders                                                  *)

AssetRow == [status |-> "asset"]

CreateAsset(w, a) == a \in Unused(Assets) /\ Begin(w, <<Insert(a, AssetRow)>>)

WorkRow(asset, complaint) ==
  [status |-> "Open", asset |-> asset, complaint |-> complaint, costed |-> FALSE, thread |-> <<>>]

\* Asset and complaint are optional, and must exist if they are given.
CreateWorkOrder(w, o, asset, complaint) ==
  /\ o \in Unused(WorkOrders)
  /\ asset # None => file[asset] # NoRow
  /\ complaint # None => file[complaint] # NoRow
  /\ Begin(w, <<Insert(o, WorkRow(asset, complaint))>>)

\* Of what an edit may change, the costs.
UpdateWorkOrder(w, o) ==
  /\ file[o].status \in {"Open", "InProgress"}
  /\ Begin(w, <<Update(o, [costed |-> TRUE])>>)

LogProgress(w, o) ==
  /\ file[o].status \in {"Open", "InProgress"}
  /\ Len(file[o].thread) < MaxThread
  /\ Begin(w, <<Update(o, Over(When(file[o].status = "Open", [status |-> "InProgress"]),
                               [thread |-> Append(file[o].thread, w)]))>>)

WORK_TRANSITIONS ==
  [Open |-> {"InProgress", "Cancelled"}, InProgress |-> {"Completed", "Cancelled"},
   Completed |-> {}, Cancelled |-> {}]

canMoveWork(from, to) == from \in DOMAIN WORK_TRANSITIONS /\ to \in WORK_TRANSITIONS[from]

\* A cancellation, also through cancel, leaves an entry in the log.
ChangeWorkStatus(w, o, to) ==
  /\ to # "Completed"
  /\ canMoveWork(file[o].status, to)
  /\ Begin(w, <<Update(o, Over(When(to = "Cancelled", [thread |-> Append(file[o].thread, w)]),
                               [status |-> to]))>>)

CompleteWork(w, o) ==
  /\ canMoveWork(file[o].status, "Completed")
  /\ Begin(w, <<Update(o, [status |-> "Completed"])>>)

-----------------------------------------------------------------------------

ComplaintSteps(w) ==
  \E c \in Complaints :
    \/ CreateComplaint(w, c) \/ AssignComplaint(w, c) \/ AddComment(w, c)
    \/ \E to \in DOMAIN COMPLAINT_TRANSITIONS : ChangeComplaintStatus(w, c, to)
    \/ ResolveComplaint(w, c) \/ ReopenComplaint(w, c)

WorkSteps(w) ==
  \/ \E a \in Assets : CreateAsset(w, a)
  \/ \E o \in WorkOrders :
       \/ \E a \in Assets \cup {None}, c \in Complaints \cup {None} : CreateWorkOrder(w, o, a, c)
       \/ UpdateWorkOrder(w, o) \/ LogProgress(w, o)
       \/ \E to \in DOMAIN WORK_TRANSITIONS : ChangeWorkStatus(w, o, to)
       \/ CompleteWork(w, o)

=============================================================================
