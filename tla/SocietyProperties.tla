-------------------------- MODULE SocietyProperties --------------------------
(***************************************************************************)
(* What the handlers of the office get right although no transaction, lock *)
(* or unique index helps them, for columns no two requests were to write   *)
(* at once and none left unwritten.                                        *)
(***************************************************************************)
EXTENDS Approvals

\* No request in flight writes to this row.
Quiet(id) == \A w \in Workers : \A k \in DOMAIN job[w].todo : job[w].todo[k].id # id

\* What a lookup before the insert (or before an update that changes it) keeps
\* unique: an employee's number and his mark of a day (hr/service.js:74, 187,
\* 230), a guard's duty of a day (security-staff/service.js:130, 162), pass and
\* plate numbers (visitors/service.js:240, vehicles/service.js:54, 83), tokens
\* (appointments/service.js:92), versions of a document, the notification of an
\* event, the invoice of a source (invoices/service.js:120), a member's CNIC.
KeysUnique ==
  \A id \in Ids :
    "key" \in DOMAIN file[id] =>
      Holders(file[id].key) = {id} \/ <<file[id].key, "key">> \in upset

DocumentsSettled(s) ==
  /\ \A d \in Versions(s) : Quiet(d) /\ Undisturbed(d, "by")
  /\ \A v \in 1..(MaxVersion + 1) : <<<<"document", s, v>>, "key">> \notin upset

\* One version of a document is current, the highest one, and every other names
\* the one that replaced it (upload inserts first and marks afterwards).
OneCurrentVersion ==
  \A s \in Subjects : Versions(s) # {} /\ DocumentsSettled(s) =>
    /\ {d \in Versions(s) : file[d].by = None} = Latest(s)
    /\ Cardinality(Latest(s)) = 1
    /\ \A d \in Versions(s) \ Latest(s) : file[file[d].by].version = file[d].version + 1

\* Comments and log entries are never lost, although a thread is written back
\* whole.
ThreadsGrow ==
  [][\A c \in Complaints \cup WorkOrders :
       file[c] # NoRow /\ <<c, "thread">> \notin upset' => IsPrefix(file[c].thread, file'[c].thread)
    ]_societyVars

Offered(queue) == {item.id : item \in queue}
Awaiting(queue, stage) == {item.id : item \in {i \in queue : i.stage = stage}}
Accepts(w, A(_, _), ids) == \A id \in ids : ENABLED A(w, id)

\* The orders in which rows can have been created.
Orders(ids) == {at \in [ids -> 1..Cardinality(ids)] : \A x, y \in ids : at[x] = at[y] => x = y}

\* What a user is offered the handlers accept, possessions with unpaid charges and
\* constructions short of an inspection apart, although queue and handlers look at
\* other columns; of the expenses and refunds he is offered just what he may
\* approve, if they are not cut off.
OfferedAccepted(w) ==
  /\ \A at \in Orders(Transfers) : Accepts(w, ApproveTransfer, Awaiting(_transfers(at), "approve"))
  /\ \A at \in Orders(Nocs) : /\ Accepts(w, ApproveNoc, Awaiting(_nocs(at), "approve"))
                              /\ Accepts(w, IssueNoc, Awaiting(_nocs(at), "issue"))
  /\ \A at \in Orders(Possessions) :
       Accepts(w, ApprovePossession, {a \in Awaiting(_possession(at), "approve") : file[a].paid})
  /\ \A at \in Orders(Constructions) :
       Accepts(w, ApproveConstruction,
               {c \in Offered(_construction(at)) :
                  /\ allInspectionsPassed(c)
                  /\ canTransition(file[file[c].plot].status, "Constructed")})
  /\ \A u \in Users, exempt \in BOOLEAN, kind \in {"expense", "refund"}, at \in Orders(Spendings) :
       Offered(OfOthers(_spendings(kind, at), u, exempt))
         = Newest({x \in In(Spendings, {"Pending"}) : file[x].kind = kind}, PER_MODULE_CAP, at)
             \cap {x \in Spendings : ENABLED ApproveSpending(w, x, u, exempt)}

Unsettled(n) == file[n].status = "UnderVerification" /\ ~(file[n].paid /\ file[n].cleared)

\* The approver's queue (approvals/service.js), the handlers and the dashboard agree.
\* What the queue offers is accepted.  It shows the transfers and possessions
\* created last of those the dashboard counts as pending, as many as it may; that
\* others are left out the answer does not say (truncated: false, service.js:103).  A
\* certificate is missing if it waits for its fee or for dues, but also if enough
\* others are shown, or if those that were read ahead of it wait so: then fewer are
\* shown, or none.  A work order the dashboard counts as open can still be
\* cancelled, and a visitor it counts as on site can still leave.  What it counts
\* as resolved has been resolved.  The reports count by other queries: a complaint
\* neither open nor resolved to them is Closed, and a plot with an owner is in a
\* status they take for unoccupied only where plots are edited by hand.
QueueHonest ==
  /\ \A w \in Workers : job[w] = Idle =>
       /\ OfferedAccepted(w)
       /\ Accepts(w, MarkExit, security.activeVisitors)
       /\ \A o \in operations.workOrders : ENABLED ChangeWorkStatus(w, o, "Cancelled")
  /\ \A at \in Orders(Transfers) :
       Offered(_transfers(at)) = Newest(property.transfersPending, PER_MODULE_CAP, at)
  /\ \A at \in Orders(Possessions) :
       Offered(_possession(at)) = Newest(property.possessionPending, PER_MODULE_CAP, at)
  /\ \A at \in Orders(Nocs) : \A n \in property.nocsPending \ Offered(_nocs(at)) :
       \/ Unsettled(n)
       \/ Cardinality(_nocs(at)) = PER_MODULE_CAP
       \/ LET ahead == {x \in property.nocsPending : at[x] > at[n]} IN
          Cardinality({x \in ahead : Unsettled(x)}) > PER_MODULE_CAP
  /\ \A c \in operations.resolved : file[c].resolved \/ <<c, "resolved">> \in upset
  /\ \A c \in Kept(Complaints) \ (complaintsReport.open \cup complaintsReport.resolved) :
       file[c].status = "Closed" \/ <<c, "resolved">> \in upset
  /\ \A p \in occupancy.occupied \ dashboard.activePlots : "plots" \in desks

---- \* The owner of a plot, for columns of it that were not disturbed

RowsBy(t) == {h \in History : file[h] # NoRow /\ file[h].by = t}

OwnerSettled(p) == Undisturbed(p, "owner") /\ AtRest(p, "owner")

\* A plot's history as it is shown (properties/service.js:184) has the owner's
\* interval open, although two ways of changing the owner keep it differently:
\* complete closes a row, an edit adds a closed copy.  Another interval is open only
\* of a member who had the plot twice, after an edit: complete then may close the
\* row of the wrong one.  Without edits the owner's row is the only one open.
OwnerOnRecord ==
  \A p \in Plots : OwnerSettled(p) =>
    LET shown == getHistory(p)
        own == <<file[p].owner, file[p].since>>
        open == {i \in DOMAIN shown : shown[i] = "open"}
        openRows == {h \in RowsOf(p) : file[h].status = "open"} IN
    /\ file[p].owner # None => own \in open
    /\ \A i \in open \ {own} : \E j \in DOMAIN shown : j[1] = i[1] /\ j # i
    /\ \/ \E h \in RowsOf(p) : file[h].by = "hand"
       \/ {Interval(h) : h \in openRows} = {own} /\ Cardinality(openRows) = 1

\* A transfer moves its plot once, and one that did is Completed, or was
\* rejected afterwards (reject looks at no status).
TransferMovesOnce ==
  \A t \in Transfers :
    /\ file[t] # NoRow
    /\ OwnerSettled(file[t].plot)
    /\ Undisturbed(t, "status") /\ AtRest(t, "status")
    => /\ \A g, h \in RowsBy(t) : g = h
       /\ RowsBy(t) # {} => file[t].status \in {"Completed", "Rejected"}
       /\ file[t].status = "Completed" => RowsBy(t) # {}


=============================================================================
