----------------------------- MODULE PayrollProofs -----------------------------
(***************************************************************************)
(* Proofs about the journal of the payroll, for any months, loans, setups  *)
(* and requests in flight.                                                 *)
(*                                                                         *)
(* JournalFollows is not inductive: a request is approved on the strength  *)
(* of what it found or did before.  Reached says what that is at each      *)
(* stage, Backed that an entry in the journal is an entry of a run that    *)
(* balances, and Told that two requests about one run are known as raced.  *)
(***************************************************************************)
EXTENDS PayrollProperties, TLAPS

Statuses == {"none", "Draft", "Approved", "Paid"}
Stages   == {"idle", "close", "insert", "post", "approve", "pay", "deduct", "markPaid"}

\* The records of a run and of a job, the payroll entries and loans in them left open.
RunRecord(x) == x \in [status : Statuses, entries : {x.entries}]
JobRecord(j) ==
  j \in [at : Stages, run : Months \cup {None}, entries : {j.entries}, todo : {j.todo},
         loan : {j.loan}, remaining : {j.remaining}]

PayType ==
  /\ DOMAIN run = Months /\ run = [m \in Months |-> run[m]] /\ \A m \in Months : RunRecord(run[m])
  /\ DOMAIN job = Workers /\ job = [w \in Workers |-> job[w]]
  /\ \A w \in Workers : JobRecord(job[w])
  /\ posted \in [Months -> Nat]

Filed(m) == run[m].status # "none" /\ Postable(run[m].entries)

\* What a request has reached: with "post" a run that balances and that nobody
\* else posts, beyond "post" an entry in the journal.
Reached(j) ==
  /\ j.at \notin {"idle", "close"} => j.run \in Months
  /\ j.at = "post" => Filed(j.run) /\ (j.run \notin raced => posted[j.run] = 0)
  /\ j.at \in {"approve", "pay", "deduct", "markPaid"} => posted[j.run] > 0

Backed == \A m \in Months :
  /\ run[m].status \in {"Approved", "Paid"} => posted[m] > 0
  /\ posted[m] > 0 => Filed(m)
  /\ m \notin raced => posted[m] <= 1

Told == \A v, w \in Workers :
  v # w /\ job[v].run = job[w].run /\ job[w].run \in Months => job[w].run \in raced

PayInv == PayType /\ (\A w \in Workers : Reached(job[w])) /\ Backed /\ Told

-----------------------------------------------------------------------------

LEMMA IdleJob ==
  /\ JobRecord(NoJob) /\ NoJob.at = "idle" /\ NoJob.run = None
BY DEF JobRecord, NoJob, Stages

\* A request starts or goes on with job k, the tables as they were.
LEMMA JobMoves ==
  ASSUME PayInv, NEW w \in Workers, NEW k, JobRecord(k),
         job' = [job EXCEPT ![w] = k], run' = run, posted' = posted,
         raced \subseteq raced',
         \A v \in Workers \ {w} : job[v].run = k.run /\ k.run \in Months => k.run \in raced',
         Reached(k)
  PROVE  PayInv'
<1>1. job'[w] = k /\ \A v \in Workers \ {w} : job'[v] = job[v]
  BY DEF PayInv, PayType
<1>2. PayType'
  <2>1. DOMAIN job' = Workers /\ job' = [v \in Workers |-> job'[v]]
    BY DEF PayInv, PayType
  <2>2. \A v \in Workers : JobRecord(job'[v])
    BY <1>1 DEF PayInv, PayType
  <2>. QED
    BY <2>1, <2>2 DEF PayInv, PayType, RunRecord, JobRecord
<1>3. ASSUME NEW v \in Workers PROVE Reached(job[v])'
  BY <1>1 DEF PayInv, Reached, Filed
<1>4. Backed'
  BY DEF PayInv, Backed, Filed
<1>5. Told'
  BY <1>1 DEF PayInv, Told
<1>. QED
  BY <1>2, <1>3, <1>4, <1>5 DEF PayInv

LEMMA Ends ==
  ASSUME PayInv, NEW w \in Workers, Finish(w), run' = run, posted' = posted, raced' = raced
  PROVE  PayInv'
<1>1. NoJob.run \notin Months
  BY IdleJob, PayrollAssumption
<1>2. Reached(NoJob)
  BY IdleJob DEF Reached
<1>. QED
  BY <1>1, <1>2, IdleJob, JobMoves DEF Finish, Set

LEMMA Starts ==
  ASSUME PayInv, NEW w \in Workers, NEW k, JobRecord(k), Begin(w, k), Reached(k),
         run' = run, posted' = posted
  PROVE  PayInv'
<1>1. job' = [job EXCEPT ![w] = k]
  BY DEF Begin, Set
<1>2. raced' = raced \cup ({k.run} \cap {job[v].run : v \in Workers \ {w}} \cap Months)
  BY DEF Begin
<1>. QED
  BY ZenonT(40), <1>1, <1>2, JobMoves

\* A request goes on about the same run.
LEMMA GoesOn ==
  ASSUME PayInv, NEW w \in Workers, NEW k, JobRecord(k), Set(w, k), k.run = job[w].run,
         Reached(k), run' = run, posted' = posted, raced' = raced
  PROVE  PayInv'
<1>1. \A v \in Workers \ {w} : job[v].run = k.run /\ k.run \in Months => k.run \in raced'
  BY DEF PayInv, Told
<1>. QED
  BY <1>1, JobMoves DEF Set

\* A filed run gets another status, and the request that gave it ends.
LEMMA Restates ==
  ASSUME PayInv, NEW w \in Workers, NEW s \in {"Approved", "Paid"},
         job[w].at \in {"approve", "markPaid"},
         run' = [run EXCEPT ![job[w].run].status = s], Finish(w),
         posted' = posted, raced' = raced
  PROVE  PayInv'
<1>. DEFINE m == job[w].run
            x == [run[m] EXCEPT !.status = s]
<1>1. m \in Months /\ posted[m] > 0 /\ Filed(m)
  BY DEF PayInv, Reached, Backed
<1>2. RunRecord(x) /\ x.status = s /\ x.entries = run[m].entries
  <2>1. RunRecord(run[m])
    BY <1>1 DEF PayInv, PayType
  <2>. QED
    BY <2>1 DEF RunRecord, Statuses
<1>3. run' = [run EXCEPT ![m] = x]
  OBVIOUS
<1>. HIDE DEF x
<1>4. /\ DOMAIN run' = Months /\ run' = [n \in Months |-> run'[n]]
      /\ run'[m] = x /\ \A n \in Months \ {m} : run'[n] = run[n]
  BY <1>1, <1>3 DEF PayInv, PayType
<1>5. job'[w] = NoJob /\ \A v \in Workers \ {w} : job'[v] = job[v]
  BY DEF PayInv, PayType, Finish, Set
<1>6. NoJob.run \notin Months /\ Reached(NoJob)'
  BY IdleJob, PayrollAssumption DEF Reached
<1>. HIDE DEF m
<1>7. PayType'
  <2>1. DOMAIN job' = Workers /\ job' = [v \in Workers |-> job'[v]]
    BY DEF PayInv, PayType, Finish, Set
  <2>2. \A v \in Workers : JobRecord(job'[v])
    BY <1>5, IdleJob DEF PayInv, PayType
  <2>3. \A n \in Months : RunRecord(run'[n])
    BY <1>2, <1>4 DEF PayInv, PayType
  <2>. QED
    BY <1>4, <2>1, <2>2, <2>3 DEF PayInv, PayType, RunRecord, JobRecord
<1>8. \A n \in Months : Filed(n) => Filed(n)'
  BY <1>2, <1>4 DEF Filed
<1>9. ASSUME NEW v \in Workers PROVE Reached(job[v])'
  <2>1. CASE v = w
    BY <1>5, <1>6, <2>1
  <2>2. CASE v # w
    <3>1. job'[v] = job[v] /\ Reached(job[v])
      BY <1>5, <2>2 DEF PayInv
    <3>. QED
      BY <1>8, <3>1 DEF Reached
  <2>. QED
    BY <2>1, <2>2
<1>10. Backed'
  BY <1>1, <1>2, <1>4, <1>8 DEF PayInv, Backed
<1>11. Told'
  BY <1>5, <1>6 DEF PayInv, Told
<1>. QED
  BY <1>7, <1>9, <1>10, <1>11 DEF PayInv

LEMMA CloseLoanKeeps ==
  ASSUME PayInv, NEW w \in Workers, NEW l \in Loans, CloseLoan(w, l)
  PROVE  PayInv'
<1>. DEFINE k == [NoJob EXCEPT !.at = "close", !.loan = l]
<1>1. JobRecord(k) /\ k.at = "close" /\ k.run = None
  BY IdleJob DEF JobRecord, Stages
<1>2. Begin(w, k) /\ run' = run /\ posted' = posted
  BY DEF CloseLoan
<1>. HIDE DEF k
<1>3. Reached(k)
  BY <1>1 DEF Reached
<1>. QED
  BY <1>1, <1>2, <1>3, Starts

LEMMA GenerateDraftKeeps ==
  ASSUME PayInv, NEW w \in Workers, NEW m \in Months, GenerateDraft(w, m)
  PROVE  PayInv'
<1>1. PICK es : Begin(w, [NoJob EXCEPT !.at = "insert", !.run = m, !.entries = es])
  BY DEF GenerateDraft
<1>. DEFINE k == [NoJob EXCEPT !.at = "insert", !.run = m, !.entries = es]
<1>2. JobRecord(k) /\ k.at = "insert" /\ k.run = m
  BY IdleJob DEF JobRecord, Stages
<1>3. Begin(w, k) /\ run' = run /\ posted' = posted
  BY <1>1 DEF GenerateDraft
<1>. HIDE DEF k
<1>4. Reached(k)
  BY <1>2 DEF Reached
<1>. QED
  BY <1>2, <1>3, <1>4, Starts

LEMMA ApprovePayrollKeeps ==
  ASSUME PayInv, NEW w \in Workers, NEW m \in Months, ApprovePayroll(w, m)
  PROVE  PayInv'
<1>. DEFINE at == IF posted[m] > 0 THEN "approve" ELSE "post"
            k == [NoJob EXCEPT !.at = at, !.run = m]
<1>1. JobRecord(k) /\ k.at = at /\ k.run = m
  <2>1. at \in Stages
    BY DEF Stages
  <2>. HIDE DEF at
  <2>. QED
    BY <2>1, IdleJob DEF JobRecord
<1>2. Begin(w, k) /\ run' = run /\ posted' = posted
  BY DEF ApprovePayroll
<1>3. posted[m] \in Nat
  BY DEF PayInv, PayType
<1>. HIDE DEF k
<1>4. Reached(k)
  BY <1>1, <1>3 DEF Reached, Filed, ApprovePayroll
<1>. QED
  BY <1>1, <1>2, <1>4, Starts

LEMMA MarkPaidKeeps ==
  ASSUME PayInv, NEW w \in Workers, NEW m \in Months, MarkPaid(w, m)
  PROVE  PayInv'
<1>. DEFINE a == Allocations(run[m].entries)
            k == [NoJob EXCEPT !.at = "pay", !.run = m, !.todo = a]
<1>1. JobRecord(k) /\ k.at = "pay" /\ k.run = m
  <2>. HIDE DEF a
  <2>. QED
    BY IdleJob DEF JobRecord, Stages
<1>2. Begin(w, k) /\ run' = run /\ posted' = posted
  BY DEF MarkPaid
<1>. HIDE DEF k
<1>3. Reached(k)
  BY <1>1 DEF Reached, PayInv, Backed, MarkPaid
<1>. QED
  BY <1>1, <1>2, <1>3, Starts

\* A month that gets its run has none in the journal.
LEMMA InsertRunKeeps ==
  ASSUME PayInv, NEW w \in Workers, InsertRun(w)
  PROVE  PayInv'
<1>1. CASE run' = run
  BY <1>1, Ends DEF InsertRun
<1>2. CASE run' # run
  <2>. DEFINE m == job[w].run
              x == [status |-> "Draft", entries |-> job[w].entries]
  <2>1. m \in Months
    BY DEF PayInv, Reached, InsertRun
  <2>2. run[m] = NoRun /\ run' = [run EXCEPT ![m] = x] /\ posted' = posted /\ raced' = raced
    BY <1>2 DEF InsertRun
  <2>3. RunRecord(x) /\ x.status = "Draft"
    BY DEF RunRecord, Statuses
  <2>. HIDE DEF x
  <2>4. ~Filed(m)
    BY <2>2 DEF Filed, NoRun
  <2>5. /\ DOMAIN run' = Months /\ run' = [n \in Months |-> run'[n]]
        /\ run'[m] = x /\ \A n \in Months \ {m} : run'[n] = run[n]
    BY <2>1, <2>2 DEF PayInv, PayType
  <2>6. job' = [job EXCEPT ![w] = NoJob]
    BY DEF InsertRun, Finish, Set
  <2>7. job'[w] = NoJob /\ \A v \in Workers \ {w} : job'[v] = job[v]
    BY <2>6 DEF PayInv, PayType
  <2>8. NoJob.run \notin Months /\ Reached(NoJob)'
    BY IdleJob, PayrollAssumption DEF Reached
  <2>. HIDE DEF m
  <2>9. PayType'
    <3>1. DOMAIN job' = Workers /\ job' = [v \in Workers |-> job'[v]]
      BY <2>6 DEF PayInv, PayType
    <3>2. \A v \in Workers : JobRecord(job'[v])
      BY <2>7, IdleJob DEF PayInv, PayType
    <3>3. \A n \in Months : RunRecord(run'[n])
      BY <2>3, <2>5 DEF PayInv, PayType
    <3>. QED
      BY <2>2, <2>5, <3>1, <3>2, <3>3 DEF PayInv, PayType, RunRecord, JobRecord
  <2>10. \A n \in Months : Filed(n) => Filed(n)'
    BY <2>4, <2>5 DEF Filed
  <2>11. ASSUME NEW v \in Workers PROVE Reached(job[v])'
    <3>1. CASE v = w
      BY <2>7, <2>8, <3>1
    <3>2. CASE v # w
      <4>1. job'[v] = job[v] /\ Reached(job[v])
        BY <2>7, <3>2 DEF PayInv
      <4>. QED
        BY <2>2, <2>10, <4>1 DEF Reached
    <3>. QED
      BY <3>1, <3>2
  <2>12. Backed'
    BY <2>2, <2>3, <2>4, <2>5, <2>10 DEF PayInv, Backed
  <2>13. Told'
    BY <2>2, <2>7, <2>8 DEF PayInv, Told
  <2>. QED
    BY <2>9, <2>11, <2>12, <2>13 DEF PayInv
<1>. QED
  BY <1>1, <1>2

\* The entry is the first of its run, unless another request posts it as well.
LEMMA PostEntryKeeps ==
  ASSUME PayInv, NEW w \in Workers, PostEntry(w)
  PROVE  PayInv'
<1>. DEFINE m == job[w].run
            k == [job[w] EXCEPT !.at = "approve"]
<1>1. JobRecord(job[w]) /\ Reached(job[w]) /\ job[w].at = "post"
  BY DEF PayInv, PayType, PostEntry
<1>2. m \in Months /\ Filed(m) /\ (m \notin raced => posted[m] = 0)
  BY <1>1 DEF Reached
<1>3. JobRecord(k) /\ k.at = "approve" /\ k.run = m
  BY <1>1 DEF JobRecord, Stages
<1>4. /\ job' = [job EXCEPT ![w] = k] /\ run' = run /\ raced' = raced
      /\ posted' = [posted EXCEPT ![m] = @ + 1]
  BY DEF PostEntry, Set
<1>. HIDE DEF k, m
<1>5. job'[w] = k /\ \A v \in Workers \ {w} : job'[v] = job[v]
  BY <1>4 DEF PayInv, PayType
<1>6. /\ posted' \in [Months -> Nat] /\ posted'[m] = posted[m] + 1 /\ posted[m] \in Nat
      /\ \A n \in Months \ {m} : posted'[n] = posted[n]
  BY <1>2, <1>4 DEF PayInv, PayType
<1>7. PayType'
  <2>1. DOMAIN job' = Workers /\ job' = [v \in Workers |-> job'[v]]
    BY <1>4 DEF PayInv, PayType
  <2>2. \A v \in Workers : JobRecord(job'[v])
    BY <1>3, <1>5 DEF PayInv, PayType
  <2>. QED
    BY <1>4, <1>6, <2>1, <2>2 DEF PayInv, PayType, RunRecord, JobRecord
<1>8. \A n \in Months : Filed(n)' <=> Filed(n)
  BY <1>4 DEF Filed
<1>9. ASSUME NEW v \in Workers \ {w}, job[v].run = m PROVE m \in raced
  BY <1>2, <1>9 DEF PayInv, Told, m
<1>10. ASSUME NEW v \in Workers PROVE Reached(job[v])'
  <2>1. CASE v = w
    BY <1>2, <1>3, <1>5, <1>6, <2>1 DEF Reached
  <2>2. CASE v # w
    <3>1. job'[v] = job[v] /\ Reached(job[v]) /\ (job[v].run = m => m \in raced')
      BY <1>4, <1>5, <1>9, <2>2 DEF PayInv
    <3>2. \A n \in Months : posted[n] \in Nat
      BY DEF PayInv, PayType
    <3>3. job[v].at \notin {"idle", "close"} => job[v].run \in Months
      BY <3>1 DEF Reached
    <3>4. CASE job[v].at \in {"idle", "close", "insert"}
      BY <3>1, <3>3, <3>4 DEF Reached
    <3>5. CASE job[v].at = "post"
      BY <1>4, <1>6, <1>8, <3>1, <3>3, <3>5 DEF Reached
    <3>6. CASE job[v].at \in {"approve", "pay", "deduct", "markPaid"}
      BY <1>6, <3>1, <3>2, <3>3, <3>6 DEF Reached
    <3>. QED
      <4>1. JobRecord(job[v])
        BY DEF PayInv, PayType
      <4>2. job[v].at \in Stages
        BY <4>1 DEF JobRecord
      <4>. QED
        BY <3>4, <3>5, <3>6, <4>2 DEF Stages
  <2>. QED
    BY <2>1, <2>2
<1>11. Backed'
  BY <1>2, <1>4, <1>6, <1>8 DEF PayInv, Backed
<1>12. Told'
  BY <1>3, <1>4, <1>5, <1>9 DEF PayInv, Told
<1>. QED
  BY <1>7, <1>10, <1>11, <1>12 DEF PayInv

LEMMA ReadLoanKeeps ==
  ASSUME PayInv, NEW w \in Workers, ReadLoan(w)
  PROVE  PayInv'
<1>1. JobRecord(job[w]) /\ Reached(job[w]) /\ job[w].at = "pay"
  BY DEF PayInv, PayType, ReadLoan
<1>2. run' = run /\ posted' = posted /\ raced' = raced
  BY DEF ReadLoan
<1>. DEFINE a == Head(job[w].todo)
            left == AtLeast0(loan[a.loan].remaining - Least({a.amount, loan[a.loan].remaining}))
            k1 == [job[w] EXCEPT !.at = "markPaid"]
            k2 == [job[w] EXCEPT !.at = "deduct", !.loan = a.loan, !.remaining = left]
            k3 == [job[w] EXCEPT !.todo = Tail(@)]
<1>3. Set(w, k1) \/ Set(w, k2) \/ Set(w, k3)
  BY DEF ReadLoan
<1>. HIDE DEF a, left
<1>4. ASSUME NEW k, k \in {k1, k2, k3}
      PROVE  JobRecord(k) /\ k.run = job[w].run /\ k.at \in {"pay", "deduct", "markPaid"}
  <2>1. CASE k = k1
    BY <1>1, <2>1 DEF JobRecord, Stages
  <2>2. CASE k = k2
    BY <1>1, <2>2 DEF JobRecord, Stages
  <2>3. CASE k = k3
    BY <1>1, <2>3 DEF JobRecord, Stages
  <2>. QED
    BY <1>4, <2>1, <2>2, <2>3
<1>. HIDE DEF k1, k2, k3
<1>5. PICK k \in {k1, k2, k3} : Set(w, k)
  BY <1>3
<1>6. JobRecord(k) /\ k.run = job[w].run /\ k.at \in {"pay", "deduct", "markPaid"}
  BY <1>4
<1>7. Reached(k)
  BY <1>1, <1>6 DEF Reached
<1>. QED
  BY <1>2, <1>5, <1>6, <1>7, GoesOn

LEMMA DeductLoanKeeps ==
  ASSUME PayInv, NEW w \in Workers, DeductLoan(w)
  PROVE  PayInv'
<1>. DEFINE k == [job[w] EXCEPT !.at = "pay", !.todo = Tail(@), !.loan = None]
<1>1. JobRecord(job[w]) /\ Reached(job[w]) /\ job[w].at = "deduct"
  BY DEF PayInv, PayType, DeductLoan
<1>2. Set(w, k) /\ run' = run /\ posted' = posted /\ raced' = raced
  BY DEF DeductLoan
<1>3. JobRecord(k) /\ k.run = job[w].run /\ k.at = "pay"
  BY <1>1 DEF JobRecord, Stages
<1>. HIDE DEF k
<1>4. Reached(k)
  BY <1>1, <1>3 DEF Reached
<1>. QED
  BY <1>2, <1>3, <1>4, GoesOn

-----------------------------------------------------------------------------

LEMMA PayInit == Init => PayInv
<1>. SUFFICES ASSUME Init PROVE PayInv
  OBVIOUS
<1>1. /\ run = [m \in Months |-> NoRun] /\ posted = [m \in Months |-> 0]
      /\ job = [w \in Workers |-> NoJob]
  BY DEF Init
<1>2. RunRecord(NoRun) /\ NoRun.status = "none"
  BY DEF RunRecord, NoRun, Statuses
<1>3. NoJob.run \notin Months /\ Reached(NoJob)
  BY IdleJob, PayrollAssumption DEF Reached
<1>4. PayType
  BY <1>1, <1>2, IdleJob DEF PayType
<1>5. (\A w \in Workers : Reached(job[w])) /\ Told
  BY <1>1, <1>3 DEF Told
<1>6. Backed
  BY <1>1, <1>2 DEF Backed
<1>. QED
  BY <1>4, <1>5, <1>6 DEF PayInv

LEMMA PayStep == PayInv /\ [Next]_vars => PayInv'
<1>. SUFFICES ASSUME PayInv, [Next]_vars PROVE PayInv'
  OBVIOUS
<1>1. ASSUME job' = job, run' = run, posted' = posted, raced' = raced PROVE PayInv'
  BY <1>1 DEF PayInv, PayType, RunRecord, JobRecord, Reached, Filed, Backed, Told
<1>2. CASE UpdateSetup
  BY <1>1, <1>2 DEF UpdateSetup
<1>3. ASSUME NEW l \in Loans, CreateLoan(l) PROVE PayInv'
  BY <1>1, <1>3 DEF CreateLoan
<1>4. ASSUME NEW w \in Workers, NEW l \in Loans, CloseLoan(w, l) PROVE PayInv'
  BY <1>4, CloseLoanKeeps
<1>5. ASSUME NEW w \in Workers, NEW m \in Months,
             GenerateDraft(w, m) \/ ApprovePayroll(w, m) \/ MarkPaid(w, m)
      PROVE PayInv'
  BY <1>5, GenerateDraftKeeps, ApprovePayrollKeeps, MarkPaidKeeps
<1>6. ASSUME NEW w \in Workers, MarkClosed(w) \/ Die(w) PROVE PayInv'
  BY <1>6, Ends DEF MarkClosed, Die
<1>7. ASSUME NEW w \in Workers, InsertRun(w) \/ PostEntry(w) PROVE PayInv'
  BY <1>7, InsertRunKeeps, PostEntryKeeps
<1>8. ASSUME NEW w \in Workers, MarkApproved(w) \/ SetPaid(w) PROVE PayInv'
  BY <1>8, Restates DEF MarkApproved, SetPaid
<1>9. ASSUME NEW w \in Workers, ReadLoan(w) \/ DeductLoan(w) PROVE PayInv'
  BY <1>9, ReadLoanKeeps, DeductLoanKeeps
<1>10. CASE UNCHANGED vars
  BY <1>1, <1>10 DEF vars
<1>. QED
  BY <1>2, <1>3, <1>4, <1>5, <1>6, <1>7, <1>8, <1>9, <1>10 DEF Next

\* Payroll requests keep the invariant, wherever they stop.
THEOREM PayInvariant == Spec => []PayInv
BY PayInit, PayStep, PTL DEF Spec

LEMMA PayInvJournal == PayInv => JournalFollows
BY DEF PayInv, Backed, Filed, JournalFollows

\* An approved or paid run is in the journal, in an entry that balances, and once
\* at most unless two requests were about it at once; for any number of months,
\* loans, employees and requests in flight.
THEOREM JournalFollowsHolds == Spec => []JournalFollows
BY PayInvariant, PayInvJournal, PTL
=============================================================================
