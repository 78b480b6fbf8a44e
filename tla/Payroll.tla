------------------------------- MODULE Payroll -------------------------------
(***************************************************************************)
(* hr-payroll/service.js and finance-gl/postToGL.js over the tables        *)
(* hrSetups, loans, payrollRuns (one run per month, by a unique index) and *)
(* journalEntries (no such index).                                         *)
(*                                                                         *)
(* A worker is a request in flight.  Requests interleave between           *)
(* statements that write and may end at any of them; reads that follow     *)
(* each other are one step.  Attendance and salary structures are given.   *)
(***************************************************************************)
EXTENDS PayrollRules, FiniteSets

CONSTANTS Months, Loans, Employees, Workers, None,
          Contract,  \* the basic salary and salary structure of each employee
          Marks,     \* the attendance of each employee
          Setups,    \* configurations the administrators choose from
          Grants     \* the [employee, amount, installment] of loans that are given

ASSUME PayrollAssumption ==
  /\ None \notin Loans \cup Months
  /\ \A g \in Grants : g.employee \in Employees /\ g.amount \in Nat /\ g.installment \in Nat

VARIABLES
  setup,   \* hrSetups
  loan,    \* loan[l]: loans
  run,     \* run[m]: payrollRuns
  posted,  \* posted[m]: number of journal entries whose source is run m
  job,     \* job[w]: the request worker w runs
  raced,   \* ghost: runs two requests were about at once
  upset    \* ghost: loans two runs or two requests were about at once, closed by hand
           \* while a run counts on them, or left half deducted

vars == <<setup, loan, run, posted, job, raced, upset>>

NoLoan == [status |-> "none"]
NoRun  == [status |-> "none", entries |-> <<>>]
NoJob  == [at |-> "idle", run |-> None, entries |-> <<>>, todo |-> <<>>, loan |-> None,
           remaining |-> 0]

\* The allocations of a run or a draft, in the order of its entries.
Allocations(entries) == FlattenSeq([e \in DOMAIN entries |-> entries[e].allocations])
LoansIn(allocations) == {allocations[k].loan : k \in DOMAIN allocations}
LoansOf(m) == LoansIn(Allocations(run[m].entries))

\* Runs that count on a loan they have not deducted.
Counting(l) == {m \in Months : run[m].status \in {"Draft", "Approved"} /\ l \in LoansOf(m)}

\* The loans a request is about, from its first read to its last write.
About(j) ==
  CASE j.at = "insert" -> LoansIn(Allocations(j.entries))
    [] j.at \in {"pay", "deduct", "markPaid"} -> LoansOf(j.run)
    [] j.at = "close" -> {j.loan}
    [] OTHER -> {}

Set(w, j) == job' = [job EXCEPT ![w] = j]
Finish(w) == Set(w, NoJob)

\* A request starts; loans and runs another one is about as well are marked.
Begin(w, j) ==
  /\ job[w] = NoJob
  /\ Set(w, j)
  /\ upset' = upset \cup (About(j) \cap UNION {About(job[v]) : v \in Workers \ {w}})
  /\ raced' = raced \cup ({j.run} \cap {job[v].run : v \in Workers \ {w}} \cap Months)

Init ==
  /\ setup \in Setups
  /\ loan = [l \in Loans |-> NoLoan]
  /\ run = [m \in Months |-> NoRun]
  /\ posted = [m \in Months |-> 0]
  /\ job = [w \in Workers |-> NoJob]
  /\ raced = {} /\ upset = {}

-----------------------------------------------------------------------------
(* Setup and loans                                                         *)

UpdateSetup ==
  /\ setup' \in Setups \ {setup}
  /\ UNCHANGED <<loan, run, posted, job, raced, upset>>

CreateLoan(l) ==
  /\ loan[l] = NoLoan
  /\ \E g \in Grants :
       /\ g.installment <= g.amount
       /\ loan' = [loan EXCEPT ![l] = [status |-> "Active", employee |-> g.employee,
            amount |-> g.amount, installment |-> g.installment, remaining |-> g.amount]]
  /\ UNCHANGED <<setup, run, posted, job, raced, upset>>

CloseLoan(w, l) ==
  /\ loan[l].status = "Active"
  /\ Begin(w, [NoJob EXCEPT !.at = "close", !.loan = l])
  /\ UNCHANGED <<setup, loan, run, posted>>

MarkClosed(w) ==
  /\ job[w].at = "close"
  /\ loan' = [loan EXCEPT ![job[w].loan].status = "Closed"]
  /\ upset' = upset \cup {l \in {job[w].loan} : Counting(l) # {}}
  /\ Finish(w)
  /\ UNCHANGED <<setup, run, posted, raced>>

-----------------------------------------------------------------------------
(* Runs                                                                    *)

ActiveLoans(e) ==
  LET active == {l \in Loans : loan[l].status = "Active" /\ loan[l].employee = e
                                 /\ loan[l].remaining > 0}
  IN [k \in 1..Cardinality(active) |->
        LET l == SetToSeq(active)[k] IN
        [id |-> l, remaining |-> loan[l].remaining, installment |-> loan[l].installment]]

\* Employees are listed by name.
GenerateDraft(w, m) ==
  /\ run[m] = NoRun
  /\ LET names == SetToSeq(Employees) IN
     Begin(w, [NoJob EXCEPT !.at = "insert", !.run = m,
       !.entries = [k \in DOMAIN names |->
          Entry(Contract[names[k]], Marks[names[k]], setup, ActiveLoans(names[k]))]])
  /\ UNCHANGED <<setup, loan, run, posted>>

\* The insert, refused by the index if the month has a run by now.
InsertRun(w) ==
  /\ job[w].at = "insert"
  /\ IF run[job[w].run] = NoRun
     THEN /\ run' = [run EXCEPT ![job[w].run] = [status |-> "Draft", entries |-> job[w].entries]]
          /\ upset' = upset \cup {l \in LoansIn(Allocations(job[w].entries)) : Counting(l) # {}}
     ELSE UNCHANGED <<run, upset>>
  /\ Finish(w)
  /\ UNCHANGED <<setup, loan, posted, raced>>

\* Mutation: the journal is not searched for an entry of the run.
ApprovePayroll_NoLookup(w, m) ==
  /\ run[m].status = "Draft"
  /\ Postable(run[m].entries)
  /\ Begin(w, [NoJob EXCEPT !.at = "post", !.run = m])
  /\ UNCHANGED <<setup, loan, run, posted>>

\* Up to postToGL's search for an entry of the run; what does not balance is refused.
ApprovePayroll(w, m) ==
  /\ run[m].status = "Draft"
  /\ posted[m] > 0 \/ Postable(run[m].entries)
  /\ Begin(w, [NoJob EXCEPT !.at = IF posted[m] > 0 THEN "approve" ELSE "post", !.run = m])
  /\ UNCHANGED <<setup, loan, run, posted>>

PostEntry(w) ==
  /\ job[w].at = "post"
  /\ posted' = [posted EXCEPT ![job[w].run] = @ + 1]
  /\ Set(w, [job[w] EXCEPT !.at = "approve"])
  /\ UNCHANGED <<setup, loan, run, raced, upset>>

MarkApproved(w) ==
  /\ job[w].at = "approve"
  /\ run' = [run EXCEPT ![job[w].run].status = "Approved"]
  /\ Finish(w)
  /\ UNCHANGED <<setup, loan, posted, raced, upset>>

\* Mutation: the status of the run is not looked at.
MarkPaid_AnyStatus(w, m) ==
  /\ run[m] # NoRun
  /\ Begin(w, [NoJob EXCEPT !.at = "pay", !.run = m, !.todo = Allocations(run[m].entries)])
  /\ UNCHANGED <<setup, loan, run, posted>>

MarkPaid(w, m) ==
  /\ run[m].status = "Approved"
  /\ Begin(w, [NoJob EXCEPT !.at = "pay", !.run = m, !.todo = Allocations(run[m].entries)])
  /\ UNCHANGED <<setup, loan, run, posted>>

\* The next allocation: its loan is read, and skipped unless it is active.
ReadLoan(w) ==
  /\ job[w].at = "pay"
  /\ IF job[w].todo = <<>> THEN Set(w, [job[w] EXCEPT !.at = "markPaid"])
     ELSE LET a == Head(job[w].todo)
              applied == Least({a.amount, loan[a.loan].remaining})
          IN Set(w, IF loan[a.loan].status = "Active" /\ applied > 0
                    THEN [job[w] EXCEPT !.at = "deduct", !.loan = a.loan,
                            !.remaining = AtLeast0(loan[a.loan].remaining - applied)]
                    ELSE [job[w] EXCEPT !.todo = Tail(@)])
  /\ UNCHANGED <<setup, loan, run, posted, raced, upset>>

\* The balance written is the one computed; lastDeductionRun is written, never read.
DeductLoan(w) ==
  /\ job[w].at = "deduct"
  /\ loan' = [loan EXCEPT ![job[w].loan].remaining = job[w].remaining,
                          ![job[w].loan].status = IF job[w].remaining = 0 THEN "Closed" ELSE "Active"]
  /\ Set(w, [job[w] EXCEPT !.at = "pay", !.todo = Tail(@), !.loan = None])
  /\ UNCHANGED <<setup, run, posted, raced, upset>>

SetPaid(w) ==
  /\ job[w].at = "markPaid"
  /\ run' = [run EXCEPT ![job[w].run].status = "Paid"]
  /\ Finish(w)
  /\ UNCHANGED <<setup, loan, posted, raced, upset>>

\* A statement fails, or the process stops.  A run being paid stays Approved.
Die(w) ==
  /\ job[w] # NoJob
  /\ upset' = upset \cup (IF job[w].at \in {"pay", "deduct", "markPaid"} THEN About(job[w]) ELSE {})
  /\ Finish(w)
  /\ UNCHANGED <<setup, loan, run, posted, raced>>

Next ==
  \/ UpdateSetup
  \/ \E l \in Loans : CreateLoan(l)
  \/ \E w \in Workers :
       \/ \E l \in Loans : CloseLoan(w, l)
       \/ \E m \in Months : GenerateDraft(w, m) \/ ApprovePayroll(w, m) \/ MarkPaid(w, m)
       \/ MarkClosed(w) \/ InsertRun(w) \/ PostEntry(w) \/ MarkApproved(w)
       \/ ReadLoan(w) \/ DeductLoan(w) \/ SetPaid(w) \/ Die(w)

Spec == Init /\ [][Next]_vars
=============================================================================
