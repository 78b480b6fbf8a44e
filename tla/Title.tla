-------------------------------- MODULE Title --------------------------------
(***************************************************************************)
(* What happens to a plot once somebody owns it: changes of owner by hand, *)
(* transfers, possession, construction, no-objection certificates and      *)
(* registry batches (properties, transfers, possession, construction,      *)
(* nocs, registry/service.js).                                             *)
(*                                                                         *)
(* A row of the ownership history is open while its toDate is null; since  *)
(* is its fromDate, named after the row that opened the interval.  The     *)
(* installments of a member on a plot belong to the payments; only whether *)
(* some are unpaid is seen here.  Approval stages, fees' amounts and       *)
(* certificate numbers are left out.                                       *)
(***************************************************************************)
EXTENDS Requests, PlotStateMachine

CONSTANTS Plots, Members, History, Transfers, Possessions, Constructions,
          Inspections, Nocs, Batches,
          Edits  \* bound: the statuses an edit gives a plot

\* The others are left to merging and buying back.
ASSUME EditsAssumption == Edits \subseteq STATUS \ {"Merged", "BoughtBack"}

VARIABLE owing  \* members with unpaid installments, by plot

titleVars == <<requestVars, owing>>

OwnerRow(p, m, since, by) ==
  [status |-> "open", plot |-> p, member |-> m, since |-> since, by |-> by]

\* Plots as an approved booking leaves them (bookings/service.js:178).
Allotted(first, member) ==
  [id \in Ids |->
     IF id \in Plots
     THEN [status |-> "Allotted", owner |-> member[id], since |-> first[id]]
     ELSE IF \E p \in Plots : id = first[p]
     THEN LET p == CHOOSE q \in Plots : id = first[q] IN
          OwnerRow(p, member[p], id, None)
     ELSE NoRow]

\* A member owns the plot, as create and the verifications check it.
Owns(m, p) == file[p].owner = m

Due(m, p) == <<m, p>> \in owing

InstallmentsMove ==
  /\ owing' \in SUBSET (Members \X Plots)
  /\ owing' # owing
  /\ UNCHANGED requestVars

-----------------------------------------------------------------------------
(* Owner and status of a plot entered by hand                              *)

\* The old owner's interval is added once more, closed; the row that opened it
\* stays open.  The status goes with the new owner if one is given.
NewOwner(p, m, s, h, g) ==
  LET old == file[p].owner
      closing == [OwnerRow(p, old, file[p].since, "hand") EXCEPT !.status = "closed"]
      owner == [owner |-> m, since |-> IF m = None THEN None ELSE g] IN
  (IF old = None THEN <<>> ELSE <<Insert(h, closing)>>)
    \o (IF m = None THEN <<>> ELSE <<Insert(g, OwnerRow(p, m, g, "hand"))>>)
    \o <<Update(p, Over(When(s # None, [status |-> s]), owner))>>

UpdatePlot(w, p, m, s, h, g) ==
  /\ s # None => canTransition(file[p].status, s)
  /\ file[p].owner # m
  /\ h \in Unused(History) /\ g \in Unused(History \ {h})
  /\ Begin(w, NewOwner(p, m, s, h, g))

\* The owner stays: of an available plot too, as when a booking is cancelled or
\* rejected (bookings/service.js:211, 273).
UpdateStatus(w, p, s) ==
  /\ canTransition(file[p].status, s)
  /\ Begin(w, <<Update(p, [status |-> s])>>)

\* Removal is left to the booking desk.  The history is shown by interval, one that
\* has a closed row as closed.
RowsOf(p) == {h \in History : file[h] # NoRow /\ file[h].plot = p}
Interval(h) == <<file[h].member, file[h].since>>

getHistory(p) ==
  [i \in {Interval(h) : h \in RowsOf(p)} |->
     IF \E h \in RowsOf(p) : Interval(h) = i /\ file[h].status = "closed"
     THEN "closed" ELSE "open"]

-----------------------------------------------------------------------------
(* Transfers                                                               *)

TransferRow(p, to) == [status |-> "Draft", plot |-> p, from |-> file[p].owner, to |-> to]

CreateTransfer(w, t, p, to) ==
  /\ t \in Unused(Transfers)
  /\ file[p].owner \notin {None, to}
  /\ Begin(w, <<Insert(t, TransferRow(p, to))>>)

\* Dues block it unless the user may edit transfers; the owner is not looked at.
VerifyTransfer(w, t, mayEdit) ==
  /\ file[t].status \in {"Draft", "PendingVerification"}
  /\ Due(file[t].from, file[t].plot) => mayEdit
  /\ Begin(w, <<Update(t, [status |-> "PendingApproval"])>>)

ApproveTransfer(w, t) ==
  /\ file[t].status = "PendingApproval"
  /\ Begin(w, <<Update(t, [status |-> "Approved"])>>)

\* Whatever its status.
RejectTransfer(w, t) ==
  /\ file[t] # NoRow
  /\ Begin(w, <<Update(t, [status |-> "Rejected"])>>)

OpenRows(p, m) == {h \in History : file[h].status = "open" /\ file[h].plot = p /\ file[h].member = m}

\* Mutation: the request is not marked as completed.
Deed_LeftOpen(t, p, h) ==
  <<Insert(h, OwnerRow(p, file[t].to, h, t)),
    Update(p, [owner |-> file[t].to, since |-> h, status |-> "Transferred"])>>

Deed(t, p, h) ==
  <<Insert(h, OwnerRow(p, file[t].to, h, t)),
    Update(p, [owner |-> file[t].to, since |-> h, status |-> "Transferred"]),
    Update(t, [status |-> "Completed"])>>

\* Four statements: the seller's row is closed, the buyer's added, then the plot
\* and the request are updated.
Convey(w, t, h) ==
  LET old == OpenRows(file[t].plot, file[t].from) IN
  /\ h \in Unused(History)
  /\ \/ old = {} /\ Begin(w, Deed(t, file[t].plot, h))
     \/ \E o \in old : Begin(w, <<Update(o, [status |-> "closed"])>> \o Deed(t, file[t].plot, h))

\* Mutation: the plot's owner is not compared with the seller.
CompleteTransfer_AnyOwner(w, t, h) ==
  /\ file[t].status = "Approved"
  /\ canTransition(file[file[t].plot].status, "Transferred")
  /\ Convey(w, t, h)

CompleteTransfer(w, t, h) ==
  /\ file[t].status = "Approved"
  /\ Owns(file[t].from, file[t].plot)
  /\ canTransition(file[file[t].plot].status, "Transferred")
  /\ Convey(w, t, h)

-----------------------------------------------------------------------------
(* Possession                                                              *)

PossessionRow(p) ==
  [status |-> "Applied", plot |-> p, member |-> file[p].owner, verified |-> FALSE, paid |-> FALSE]

CreatePossession(w, a, p) ==
  /\ a \in Unused(Possessions) /\ file[p].owner # None
  /\ Begin(w, <<Insert(a, PossessionRow(p))>>)

ReadyForPossession == {"Allotted", "Sold", "Transferred", "Constructed", "Under Construction"}

\* Whatever the status of the application: a rejected one too.
VerifyPossession(w, a) ==
  /\ file[a] # NoRow
  /\ Owns(file[a].member, file[a].plot)
  /\ ~Due(file[a].member, file[a].plot)
  /\ file[file[a].plot].status \in ReadyForPossession
  /\ Begin(w, <<Update(a, [status |-> "UnderVerification", verified |-> TRUE])>>)

PayCharges(w, a) ==
  /\ file[a].status = "UnderVerification"
  /\ Begin(w, <<Update(a, [paid |-> TRUE])>>)

\* Mutation: unpaid charges do not stop it.
ApprovePossession_Unpaid(w, a) ==
  /\ file[a].status \notin {"none", "Rejected"}
  /\ file[a].verified
  /\ Begin(w, <<Update(a, [status |-> "Approved"])>>)

ApprovePossession(w, a) ==
  /\ file[a].status \notin {"none", "Rejected"}
  /\ file[a].verified /\ file[a].paid
  /\ Begin(w, <<Update(a, [status |-> "Approved"])>>)

RejectPossession(w, a) ==
  /\ file[a].status \notin {"none", "Possessed", "Rejected"}
  /\ Begin(w, <<Update(a, [status |-> "Rejected"])>>)

IssuePossession(w, a) ==
  /\ file[a].status = "Approved" /\ file[a].paid
  /\ canTransition(file[file[a].plot].status, "Possessed")
  /\ Begin(w, <<Update(file[a].plot, [status |-> "Possessed"]), Update(a, [status |-> "Possessed"])>>)

-----------------------------------------------------------------------------
(* Construction                                                            *)

ConstructionRow(p) == [status |-> "Applied", plot |-> p, member |-> file[p].owner]

CreateConstruction(w, c, p) ==
  /\ c \in Unused(Constructions) /\ file[p].owner # None
  /\ Begin(w, <<Insert(c, ConstructionRow(p))>>
              \o IF /\ file[p].status # "Under Construction"
                    /\ canTransition(file[p].status, "Under Construction")
                 THEN <<Update(p, [status |-> "Under Construction"])>> ELSE <<>>)

ReviewConstruction(w, c) ==
  /\ file[c].status = "Applied"
  /\ Begin(w, <<Update(c, [status |-> "UnderReview"])>>)

\* Of an inspection only matters whether it found something to correct.
InspectionRow(c, found) == [status |-> "inspected", application |-> c, found |-> found]

AddInspection(w, c, i, found) ==
  /\ file[c] # NoRow
  /\ i \in Unused(Inspections)
  /\ Begin(w, <<Insert(i, InspectionRow(c, found))>>)

UpdateInspection(w, i, found) ==
  /\ file[i] # NoRow
  /\ Begin(w, <<Update(i, [found |-> found])>>)

allInspectionsPassed(c) ==
  LET seen == {i \in Inspections : file[i] # NoRow /\ file[i].application = c}
  IN seen # {} /\ \A i \in seen : ~file[i].found

ApproveConstruction(w, c) ==
  /\ file[c].status = "UnderReview"
  /\ allInspectionsPassed(c)
  /\ canTransition(file[file[c].plot].status, "Constructed")
  /\ Begin(w, <<Update(file[c].plot, [status |-> "Constructed"]), Update(c, [status |-> "Approved"])>>)

\* Whatever its status: an approved one too, whose plot stays Constructed.
RejectConstruction(w, c) ==
  /\ file[c] # NoRow
  /\ Begin(w, <<Update(c, [status |-> "Rejected"])>>)

-----------------------------------------------------------------------------
(* No-objection certificates                                               *)

NocRow(m, p) ==
  [status |-> "Applied", plot |-> p, member |-> m, cleared |-> FALSE, paid |-> FALSE]

\* For any member and any plot; the owner is looked at by verify only.
CreateNoc(w, n, m, p) ==
  /\ n \in Unused(Nocs)
  /\ Begin(w, <<Insert(n, NocRow(m, p))>>)

VerifyNoc(w, n) ==
  LET due == Due(file[n].member, file[n].plot) IN
  /\ file[n] # NoRow
  /\ Owns(file[n].member, file[n].plot)
  /\ Begin(w, <<Update(n, [status |-> IF due THEN "DuesPending" ELSE "UnderVerification",
                           cleared |-> ~due])>>)

ClearDues(w, n) ==
  /\ file[n] # NoRow
  /\ ~Due(file[n].member, file[n].plot)
  /\ Begin(w, <<Update(n, [status |-> "UnderVerification", cleared |-> TRUE])>>)

PayFee(w, n) ==
  /\ file[n].status \in {"UnderVerification", "DuesPending"}
  /\ Begin(w, <<Update(n, [status |-> "UnderVerification", paid |-> TRUE])>>)

\* Whatever its status: an issued one too.
ApproveNoc(w, n) ==
  /\ file[n] # NoRow
  /\ file[n].paid /\ file[n].cleared
  /\ Begin(w, <<Update(n, [status |-> "Approved"])>>)

IssueNoc(w, n) ==
  /\ file[n].status = "Approved"
  /\ Begin(w, <<Update(n, [status |-> "Issued"])>>)

-----------------------------------------------------------------------------
(* Registry                                                                *)

BatchRow(plots) == [status |-> "Requested", plots |-> plots]

CreateBatch(w, r, plots) ==
  /\ r \in Unused(Batches)
  /\ \A p \in plots : file[p].status \notin {"Merged", "Cancelled", "BoughtBack"}
  /\ Begin(w, <<Insert(r, BatchRow(plots))>>)

\* A completed batch is answered as it is.
CompleteBatch(w, r) ==
  /\ file[r].status = "Requested"
  /\ Begin(w, <<Update(r, [status |-> "Completed"])>>)

-----------------------------------------------------------------------------

PlotSteps(w) ==
  \E p \in Plots :
    \/ \E m \in Members \cup {None}, s \in Edits \cup {None}, h, g \in History :
         UpdatePlot(w, p, m, s, h, g)
    \/ \E s \in Edits : UpdateStatus(w, p, s)

TransferSteps(w) ==
  \E t \in Transfers :
    \/ \E p \in Plots, to \in Members : CreateTransfer(w, t, p, to)
    \/ \E mayEdit \in BOOLEAN : VerifyTransfer(w, t, mayEdit)
    \/ ApproveTransfer(w, t) \/ RejectTransfer(w, t)
    \/ \E h \in History : CompleteTransfer(w, t, h)

PossessionSteps(w) ==
  \E a \in Possessions :
    \/ \E p \in Plots : CreatePossession(w, a, p)
    \/ VerifyPossession(w, a) \/ PayCharges(w, a) \/ ApprovePossession(w, a)
    \/ RejectPossession(w, a) \/ IssuePossession(w, a)

ConstructionSteps(w) ==
  \E c \in Constructions :
    \/ \E p \in Plots : CreateConstruction(w, c, p)
    \/ ReviewConstruction(w, c) \/ ApproveConstruction(w, c) \/ RejectConstruction(w, c)
    \/ \E i \in Inspections, found \in BOOLEAN :
         AddInspection(w, c, i, found) \/ UpdateInspection(w, i, found)

NocSteps(w) ==
  \E n \in Nocs :
    \/ \E m \in Members, p \in Plots : CreateNoc(w, n, m, p)
    \/ VerifyNoc(w, n) \/ ClearDues(w, n) \/ PayFee(w, n) \/ ApproveNoc(w, n) \/ IssueNoc(w, n)

BatchSteps(w) ==
  \E r \in Batches :
    \/ \E plots \in (SUBSET Plots) \ {{}} : CreateBatch(w, r, plots)
    \/ CompleteBatch(w, r)

TitleInit(first, member) ==
  /\ RequestsInit
  /\ file = Allotted(first, member)
  /\ owing \in SUBSET (Members \X Plots)
=============================================================================
