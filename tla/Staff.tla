-------------------------------- MODULE Staff --------------------------------
(***************************************************************************)
(* Employees, attendance and leave (hr/service.js), guards and their duty  *)
(* roster (security-staff/service.js).  No unique index stands behind any  *)
(* of the lookups: a key is free if the lookup before the insert found no  *)
(* row.  No foreign key ties a row to its employee or guard either.        *)
(***************************************************************************)
EXTENDS Requests, SequencesExt

CONSTANTS Employees, Marks, Leaves, Guards, Duties,
          Numbers,    \* employee numbers, typed in by hand
          Dates,
          LeaveDays,  \* lengths of a leave
          Allowance   \* days of a limited leave type in a year

ASSUME MarksAssumption == IsFiniteSet(Marks)

EmployeeStatus == {"Active", "Terminated"}
LeaveStatus    == {"Pending", "Approved", "Rejected", "Cancelled"}

-----------------------------------------------------------------------------
(* Employees                                                               *)

EmployeeRow(number) == [status |-> "Active", key |-> <<"employee", number>>]

\* Mutation: the number is not looked up.
CreateEmployee_AnyNumber(w, e, number) ==
  /\ e \in Unused(Employees)
  /\ Begin(w, <<Insert(e, EmployeeRow(number))>>)

CreateEmployee(w, e, number) ==
  /\ e \in Unused(Employees)
  /\ Holders(<<"employee", number>>) = {}
  /\ Begin(w, <<Insert(e, EmployeeRow(number))>>)

\* The number is not among what an update may change.
UpdateEmployee(w, e, status) ==
  /\ file[e] # NoRow
  /\ Begin(w, <<Update(e, [status |-> status])>>)

\* The employee's attendance, leaves and loans stay.
DeleteEmployee(w, e) == file[e] # NoRow /\ Begin(w, <<Delete(e)>>)

-----------------------------------------------------------------------------
(* Attendance                                                              *)

Marking(e, d) == <<"attendance", e, d>>
Mark(m, e, d) == Insert(m, [status |-> "Present", employee |-> e, key |-> Marking(e, d)])

CreateMark(w, m, e, d) ==
  /\ m \in Unused(Marks)
  /\ file[e] # NoRow
  /\ Holders(Marking(e, d)) = {}
  /\ Begin(w, <<Mark(m, e, d)>>)

\* A sheet for one day: all lookups, then an insert for each employee.
BulkMark(w, d, sheet) ==
  LET ms == SetToSeq({m \in Marks : sheet[m] # None}) IN
  /\ Len(ms) > 1
  /\ \A j, k \in DOMAIN ms : sheet[ms[j]] = sheet[ms[k]] => j = k
  /\ \A k \in DOMAIN ms :
       Fresh(ms[k]) /\ file[sheet[ms[k]]] # NoRow /\ Holders(Marking(sheet[ms[k]], d)) = {}
  /\ Begin(w, [k \in DOMAIN ms |-> Mark(ms[k], sheet[ms[k]], d)])

UpdateMark(w, m) == file[m] # NoRow /\ Begin(w, <<Update(m, [status |-> "Absent"])>>)

DeleteMark(w, m) == file[m] # NoRow /\ Begin(w, <<Delete(m)>>)

-----------------------------------------------------------------------------
(* Leave                                                                   *)

Approved(e) ==
  {l \in Leaves : file[l].status = "Approved" /\ file[l].employee = e /\ file[l].limited}

calculateLeaveBalance(e) == Allowance - MapThenSumSet(LAMBDA l : file[l].days, Approved(e))

LeaveRow(e, days, limited) ==
  [status |-> "Pending", employee |-> e, days |-> days, limited |-> limited]

\* Against the leaves approved so far; unpaid leave has no limit.
CreateLeave(w, l, e, days, limited) ==
  /\ l \in Unused(Leaves)
  /\ file[e] # NoRow
  /\ limited => days <= calculateLeaveBalance(e)
  /\ Begin(w, <<Insert(l, LeaveRow(e, days, limited))>>)

\* From any status to any status, and without a look at the balance.
UpdateLeave(w, l, status) == file[l] # NoRow /\ Begin(w, <<Update(l, [status |-> status])>>)

DeleteLeave(w, l) == file[l] # NoRow /\ Begin(w, <<Delete(l)>>)

-----------------------------------------------------------------------------
(* Guards and the duty roster                                              *)

GuardRow == [status |-> "Active", shift |-> "day"]

CreateGuard(w, g) == g \in Unused(Guards) /\ Begin(w, <<Insert(g, GuardRow)>>)

UpdateGuard(w, g, shift) == file[g] # NoRow /\ Begin(w, <<Update(g, [shift |-> shift])>>)

Duty(g, d) == <<"duty", g, d>>
DutyRow(g, d, status, shift) == [status |-> status, shift |-> shift, key |-> Duty(g, d)]

\* One entry for a guard and a date: what is found is updated.
AssignDuty(w, r, g, d, shift) ==
  /\ file[g] # NoRow
  /\ \/ /\ Holders(Duty(g, d)) = {} /\ r \in Unused(Duties)
        /\ Begin(w, <<Insert(r, DutyRow(g, d, "unmarked", shift))>>)
     \/ \E found \in Holders(Duty(g, d)) : Begin(w, <<Update(found, [shift |-> shift])>>)

MarkDuty(w, r, g, d) ==
  /\ file[g] # NoRow
  /\ \/ /\ Holders(Duty(g, d)) = {} /\ r \in Unused(Duties)
        /\ Begin(w, <<Insert(r, DutyRow(g, d, "Present", file[g].shift))>>)
     \/ \E found \in Holders(Duty(g, d)) : Begin(w, <<Update(found, [status |-> "Present"])>>)

-----------------------------------------------------------------------------

EmployeeSteps(w) ==
  \E e \in Employees :
    \/ \E n \in Numbers : CreateEmployee(w, e, n)
    \/ \E s \in EmployeeStatus : UpdateEmployee(w, e, s)
    \/ DeleteEmployee(w, e)

AttendanceSteps(w) ==
  \/ \E m \in Marks, e \in Employees, d \in Dates : CreateMark(w, m, e, d)
  \/ \E d \in Dates, sheet \in [Marks -> Employees \cup {None}] : BulkMark(w, d, sheet)
  \/ \E m \in Marks : UpdateMark(w, m) \/ DeleteMark(w, m)

LeaveSteps(w) ==
  \E l \in Leaves :
    \/ \E e \in Employees, days \in LeaveDays, limited \in BOOLEAN : CreateLeave(w, l, e, days, limited)
    \/ \E s \in LeaveStatus : UpdateLeave(w, l, s)
    \/ DeleteLeave(w, l)

GuardSteps(w) ==
  \E g \in Guards :
    \/ CreateGuard(w, g)
    \/ \E shift \in {"day", "night"} : UpdateGuard(w, g, shift)
    \/ \E r \in Duties, d \in Dates :
         MarkDuty(w, r, g, d) \/ \E shift \in {"day", "night"} : AssignDuty(w, r, g, d, shift)
=============================================================================
