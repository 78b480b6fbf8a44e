---------------------------- MODULE RecoveryProofs ----------------------------
(***************************************************************************)
(* Proofs about recovery, for any sets of bookings, agents and workers.    *)
(*                                                                         *)
(* Assignments.  That a booking has one active row is not inductive:       *)
(* between two statements a request has looked and not yet added, or       *)
(* closed and not yet replaced.  The invariant says of every such request  *)
(* what it has secured (Gap, Held), and that no other is about the booking *)
(* (Apart).                                                                *)
(*                                                                         *)
(* The check that blocks plots.  The invariant says how far a check that   *)
(* has been alone has come (Clean): what it read is still so, and a plot's *)
(* flag is as it was read, or turned over once for a booking met that      *)
(* disagrees with it (Turned).                                             *)
(***************************************************************************)
EXTENDS Recovery, FiniteSetTheorems, TLAPS

Statuses == ActiveStatuses \cup {"Resolved", "Reassigned"}
Row == [booking : Bookings, agent : Agents, status : Statuses]

\* Where a request is about to add a row, and where it counts on a row being the
\* only active one of its booking.
Adding  == {"insert", "replace"}
Holding == {"close", "callFirst", "progress"}
Stages  == Adding \cup Holding \cup {"idle", "look", "resolve", "call"}

Job == [at : Stages, on : SUBSET Bookings, todo : SUBSET Bookings, late : SUBSET Bookings,
        agent : Agents \cup {None}, booking : Bookings \cup {None}, row : Nat]

\* ActiveOf, in a given table.
Active(b, table) ==
  {r \in DOMAIN table : table[r].booking = b /\ table[r].status \in ActiveStatuses}

DeskType ==
  /\ rows \in Seq(Row)
  /\ job \in [Workers -> Job]
  /\ raced \in SUBSET Bookings

\* What a request works on is what it is about.
Sound(j, table) ==
  /\ j.todo \subseteq j.on
  /\ j.at = "look" => j.agent \in Agents
  /\ j.at \in Adding \cup {"close"} => j.agent \in Agents /\ j.booking \in j.on
  /\ j.at \in Holding \cup {"resolve", "call"} =>
       j.row \in DOMAIN table /\ table[j.row].booking \in j.on
  /\ j.at = "close" => table[j.row].booking = j.booking

Apart == \A v, w \in Workers : v # w => job[v].on \cap job[w].on \subseteq raced

OneRow == \A b \in Bookings \ raced : \A r, q \in Active(b, rows) : r = q

Gap == \A w \in Workers :
         job[w].at \in Adding /\ job[w].booking \notin raced =>
           Active(job[w].booking, rows) = {}

Held == \A w \in Workers :
          job[w].at \in Holding /\ rows[job[w].row].booking \notin raced =>
            Active(rows[job[w].row].booking, rows) \subseteq {job[w].row}

DeskInv ==
  /\ DeskType
  /\ \A w \in Workers : Sound(job[w], rows)
  /\ Apart /\ OneRow /\ Gap /\ Held

-----------------------------------------------------------------------------

\* The invariant survives a step of one request if the rows it leaves of bookings
\* it is not about are no more active than before, and if the job it goes on with
\* is sound, apart from the others, and has secured what it says.
LEMMA Keeps ==
  ASSUME DeskInv, NEW w \in Workers, NEW k \in Job,
         rows' \in Seq(Row),
         \A r \in DOMAIN rows : r \in DOMAIN rows' /\ rows'[r].booking = rows[r].booking,
         job' = [job EXCEPT ![w] = k],
         raced \subseteq raced', raced' \in SUBSET Bookings,
         \A v \in Workers \ {w} : k.on \cap job[v].on \subseteq raced',
         \A b \in Bookings \ raced' :
            \/ Active(b, rows') \subseteq Active(b, rows)
            \/ b \in job[w].on /\ \A r, q \in Active(b, rows') : r = q,
         Sound(k, rows'),
         k.at \in Adding /\ k.booking \notin raced' => Active(k.booking, rows') = {},
         k.at \in Holding /\ rows'[k.row].booking \notin raced' =>
            Active(rows'[k.row].booking, rows') \subseteq {k.row}
  PROVE  DeskInv'
<1>1. job \in [Workers -> Job] /\ job' \in [Workers -> Job]
  BY DEF DeskInv, DeskType
<1>2. job'[w] = k /\ \A v \in Workers \ {w} : job'[v] = job[v]
  BY <1>1
<1>3. DeskType'
  BY <1>1 DEF DeskType
<1>4. ASSUME NEW v \in Workers PROVE Sound(job'[v], rows')
  <2>1. CASE v = w
    BY <1>2, <2>1
  <2>2. CASE v # w
    <3>1. Sound(job[v], rows) /\ job'[v] = job[v]
      BY <1>2, <2>2 DEF DeskInv
    <3>. QED
      BY <3>1 DEF Sound, Holding
  <2>. QED
    BY <2>1, <2>2
<1>5. Apart'
  <2>1. ASSUME NEW u \in Workers, NEW v \in Workers, u # v
        PROVE  job'[u].on \cap job'[v].on \subseteq raced'
    <3>1. CASE u = w
      BY <1>2, <2>1, <3>1
    <3>2. CASE v = w
      BY <1>2, <2>1, <3>2
    <3>3. CASE u # w /\ v # w
      BY <1>2, <2>1, <3>3 DEF DeskInv, Apart
    <3>. QED
      BY <3>1, <3>2, <3>3
  <2>. QED
    BY <2>1 DEF Apart
<1>6. OneRow'
  <2>1. ASSUME NEW b \in Bookings \ raced', NEW r \in Active(b, rows'),
               NEW q \in Active(b, rows')
        PROVE  r = q
    <3>1. \A x, y \in Active(b, rows) : x = y
      BY DEF DeskInv, OneRow
    <3>. QED
      BY <3>1
  <2>. QED
    BY <2>1 DEF OneRow
\* What another request is about is as active as it was, or less.
<1>7. ASSUME NEW v \in Workers \ {w}, NEW b \in job[v].on, b \notin raced'
      PROVE  Active(b, rows') \subseteq Active(b, rows)
  <2>1. b \in Bookings \ raced'
    BY <1>1, <1>7 DEF Job
  <2>2. b \notin job[w].on
    BY <1>7 DEF DeskInv, Apart
  <2>. QED
    BY <2>1, <2>2
<1>8. ASSUME NEW v \in Workers, job'[v].at \in Adding, job'[v].booking \notin raced'
      PROVE  Active(job'[v].booking, rows') = {}
  <2>1. CASE v = w
    BY <1>2, <1>8, <2>1
  <2>2. CASE v # w
    <3>1. job'[v] = job[v] /\ job[v].booking \in job[v].on
      BY <1>2, <1>8, <2>2 DEF DeskInv, Sound
    <3>2. Active(job[v].booking, rows) = {}
      BY <1>8, <3>1 DEF DeskInv, Gap
    <3>. QED
      BY <1>7, <1>8, <2>2, <3>1, <3>2
  <2>. QED
    BY <2>1, <2>2
<1>9. ASSUME NEW v \in Workers, job'[v].at \in Holding,
             rows'[job'[v].row].booking \notin raced'
      PROVE  Active(rows'[job'[v].row].booking, rows') \subseteq {job'[v].row}
  <2>1. CASE v = w
    BY <1>2, <1>9, <2>1
  <2>2. CASE v # w
    <3>1. job'[v] = job[v]
      BY <1>2, <2>2
    <3>2. /\ job[v].row \in DOMAIN rows
          /\ rows[job[v].row].booking \in job[v].on
      BY <1>9, <3>1 DEF DeskInv, Sound
    <3>3. rows'[job[v].row].booking = rows[job[v].row].booking
      BY <3>2
    <3>4. Active(rows[job[v].row].booking, rows) \subseteq {job[v].row}
      BY <1>9, <3>1, <3>3 DEF DeskInv, Held
    <3>. QED
      BY <1>7, <1>9, <2>2, <3>1, <3>2, <3>3, <3>4
  <2>. QED
    BY <2>1, <2>2
<1>. QED
  BY <1>3, <1>4, <1>5, <1>6, <1>8, <1>9 DEF DeskInv, Gap, Held

\* Most steps of a request change its job alone.
LEMMA OnlyJob ==
  ASSUME DeskInv, NEW w \in Workers, NEW k \in Job,
         job' = [job EXCEPT ![w] = k], k.on \subseteq job[w].on,
         rows' = rows, raced' = raced,
         Sound(k, rows),
         k.at \in Adding /\ k.booking \notin raced => Active(k.booking, rows) = {},
         k.at \in Holding /\ rows[k.row].booking \notin raced =>
            Active(rows[k.row].booking, rows) \subseteq {k.row}
  PROVE  DeskInv'
<1>1. rows' \in Seq(Row) /\ raced' \in SUBSET Bookings
  BY DEF DeskInv, DeskType
<1>2. \A v \in Workers \ {w} : k.on \cap job[v].on \subseteq raced'
  BY DEF DeskInv, Apart
<1>. QED
  BY <1>1, <1>2, Keeps

\* A request that starts is apart from the others but for what is raced now.
LEMMA Starts ==
  ASSUME DeskInv, NEW w \in Workers, NEW k \in Job,
         job' = [job EXCEPT ![w] = k],
         raced' = raced \cup (k.on \cap UNION {job[v].on : v \in Workers \ {w}}),
         rows' = rows,
         Sound(k, rows), k.at \notin Adding,
         k.at \in Holding /\ rows[k.row].booking \notin raced =>
            Active(rows[k.row].booking, rows) \subseteq {k.row}
  PROVE  DeskInv'
<1>1. rows' \in Seq(Row) /\ raced \subseteq raced' /\ raced' \in SUBSET Bookings
  BY DEF DeskInv, DeskType, Job
<1>2. \A v \in Workers \ {w} : k.on \cap job[v].on \subseteq raced'
  OBVIOUS
<1>. QED
  BY <1>1, <1>2, Keeps

-----------------------------------------------------------------------------
(* The steps                                                               *)

LEMMA IdleJob == NoJob \in Job /\ Sound(NoJob, rows) /\ NoJob.on = {} /\ NoJob.at = "idle"
BY DEF NoJob, Job, Stages, Adding, Holding, Sound

\* A request that ends, or dies, leaves nothing it would have to secure.
LEMMA Ends ==
  ASSUME DeskInv, NEW w \in Workers, Set(w, NoJob), rows' = rows, raced' = raced
  PROVE  DeskInv'
<1>1. NoJob.at \notin Adding \cup Holding
  BY IdleJob DEF Adding, Holding
<1>. QED
  BY <1>1, IdleJob, OnlyJob DEF Set

LEMMA LateBookings == LateNow \subseteq Bookings
BY DEF LateNow

LEMMA AssignKeeps ==
  ASSUME DeskInv, NEW w \in Workers, NEW a \in Agents, NEW S \in SUBSET Bookings, Assign(w, a, S)
  PROVE  DeskInv'
<1>. DEFINE k == [[NoJob EXCEPT !.at = "look", !.todo = S, !.late = LateNow, !.agent = a]
                    EXCEPT !.on = S]
<1>1. k \in Job /\ k.at = "look" /\ k.on = S /\ k.todo = S /\ k.agent = a
  BY IdleJob, LateBookings DEF Job, Stages
<1>. HIDE DEF k
<1>2. k.at \notin Adding /\ k.at \notin Holding /\ Sound(k, rows)
  BY <1>1 DEF Adding, Holding, Sound
<1>3. /\ job' = [job EXCEPT ![w] = k] /\ rows' = rows
      /\ raced' = raced \cup (k.on \cap UNION {job[v].on : v \in Workers \ {w}})
  BY <1>1 DEF Assign, Begin, Set, k
<1>. QED
  BY <1>1, <1>2, <1>3, Starts

LEMMA ReserveKeeps ==
  ASSUME DeskInv, NEW w \in Workers, NEW a \in Agents, NEW b \in Bookings, Reserve(w, a, b)
  PROVE  DeskInv'
<1>. DEFINE k == [[NoJob EXCEPT !.at = "look", !.todo = {b}, !.late = {b}, !.agent = a]
                    EXCEPT !.on = {b}]
<1>1. k \in Job /\ k.at = "look" /\ k.on = {b} /\ k.todo = {b} /\ k.agent = a
  BY IdleJob DEF Job, Stages
<1>. HIDE DEF k
<1>2. k.at \notin Adding /\ k.at \notin Holding /\ Sound(k, rows)
  BY <1>1 DEF Adding, Holding, Sound
<1>3. /\ job' = [job EXCEPT ![w] = k] /\ rows' = rows
      /\ raced' = raced \cup (k.on \cap UNION {job[v].on : v \in Workers \ {w}})
  BY <1>1 DEF Reserve, Begin, Set, k
<1>. QED
  BY <1>1, <1>2, <1>3, Starts

\* A row in the table names a booking, and is active if its status says so.
LEMMA RowOf ==
  ASSUME DeskInv, NEW r \in DOMAIN rows
  PROVE  /\ rows[r] \in Row /\ rows[r].booking \in Bookings /\ r \in Nat
         /\ (rows[r].status \in ActiveStatuses /\ rows[r].booking \notin raced) =>
              Active(rows[r].booking, rows) \subseteq {r}
<1>1. rows[r] \in Row /\ rows[r].booking \in Bookings /\ r \in Nat
  <2>1. rows \in Seq(Row)
    BY DEF DeskInv, DeskType
  <2>2. rows[r] \in Row /\ r \in Nat
    BY <2>1
  <2>. QED
    BY <2>2 DEF Row
<1>2. ASSUME rows[r].status \in ActiveStatuses, rows[r].booking \notin raced
      PROVE  Active(rows[r].booking, rows) \subseteq {r}
  <2>1. r \in Active(rows[r].booking, rows)
    BY <1>2 DEF Active
  <2>2. \A x, y \in Active(rows[r].booking, rows) : x = y
    BY <1>1, <1>2 DEF DeskInv, OneRow
  <2>. QED
    BY <2>1, <2>2
<1>. QED
  BY <1>1, <1>2

LEMMA ReassignKeeps ==
  ASSUME DeskInv, NEW w \in Workers, NEW r \in DOMAIN rows, NEW a \in Agents, Reassign(w, r, a)
  PROVE  DeskInv'
<1>. DEFINE b == rows[r].booking
            k == [[NoJob EXCEPT !.at = "close", !.row = r, !.agent = a, !.booking = b]
                    EXCEPT !.on = {b}]
<1>0. b \in Bookings /\ r \in Nat
  BY RowOf
<1>1. k \in Job /\ k.at = "close" /\ k.on = {b} /\ k.todo = {} /\ k.agent = a
      /\ k.booking = b /\ k.row = r
  <2>. HIDE DEF b
  <2>1. NoJob.todo = {}
    BY DEF NoJob
  <2>2. "close" \in Stages
    BY DEF Stages, Holding
  <2>. QED
    BY <1>0, <2>1, <2>2, IdleJob DEF Job
<1>. HIDE DEF k
<1>2. k.at \notin Adding /\ Sound(k, rows)
  BY <1>1 DEF Adding, Holding, Sound
<1>3. /\ job' = [job EXCEPT ![w] = k] /\ rows' = rows
      /\ raced' = raced \cup (k.on \cap UNION {job[v].on : v \in Workers \ {w}})
  BY <1>1 DEF Reassign, Begin, Set, k
<1>4. b \notin raced => Active(b, rows) \subseteq {r}
  BY RowOf DEF Reassign
<1>. QED
  BY <1>1, <1>2, <1>3, <1>4, Starts

LEMMA ResolveKeeps ==
  ASSUME DeskInv, NEW w \in Workers, NEW r \in DOMAIN rows, Resolve(w, r)
  PROVE  DeskInv'
<1>. DEFINE b == rows[r].booking
            k == [[NoJob EXCEPT !.at = "resolve", !.row = r] EXCEPT !.on = {b}]
<1>0. b \in Bookings /\ r \in Nat
  BY RowOf
<1>1. k \in Job /\ k.at = "resolve" /\ k.on = {b} /\ k.todo = {} /\ k.row = r
  <2>. HIDE DEF b
  <2>1. NoJob.todo = {}
    BY DEF NoJob
  <2>. QED
    BY <1>0, <2>1, IdleJob DEF Job, Stages
<1>. HIDE DEF k
<1>2. k.at \notin Adding /\ k.at \notin Holding /\ Sound(k, rows)
  BY <1>1 DEF Adding, Holding, Sound
<1>3. /\ job' = [job EXCEPT ![w] = k] /\ rows' = rows
      /\ raced' = raced \cup (k.on \cap UNION {job[v].on : v \in Workers \ {w}})
  BY <1>1 DEF Resolve, Begin, Set, k
<1>. QED
  BY <1>1, <1>2, <1>3, Starts

LEMMA AddCallKeeps ==
  ASSUME DeskInv, NEW w \in Workers, NEW r \in DOMAIN rows, AddCall(w, r)
  PROVE  DeskInv'
<1>. DEFINE b == rows[r].booking
            at == IF rows[r].status = "Assigned" THEN "callFirst" ELSE "call"
            k == [[NoJob EXCEPT !.at = at, !.row = r] EXCEPT !.on = {b}]
<1>0. b \in Bookings /\ r \in Nat /\ at \in {"call", "callFirst"}
  BY RowOf
<1>1. k \in Job /\ k.at = at /\ k.on = {b} /\ k.todo = {} /\ k.row = r
  <2>. HIDE DEF b, at
  <2>1. NoJob.todo = {}
    BY DEF NoJob
  <2>2. at \in Stages
    BY <1>0 DEF Stages, Holding
  <2>. QED
    BY <1>0, <2>1, <2>2, IdleJob DEF Job
<1>. HIDE DEF k
<1>2. k.at \notin Adding /\ k.at \notin {"look", "close"}
  BY <1>0, <1>1 DEF Adding
<1>3. Sound(k, rows)
  BY <1>1, <1>2 DEF Sound
<1>4. /\ job' = [job EXCEPT ![w] = k] /\ rows' = rows
      /\ raced' = raced \cup (k.on \cap UNION {job[v].on : v \in Workers \ {w}})
  BY <1>1 DEF AddCall, Begin, Set, k
<1>5. k.at \in Holding /\ b \notin raced => Active(b, rows) \subseteq {r}
  BY <1>1, RowOf DEF Holding, ActiveStatuses
<1>. QED
  BY <1>1, <1>2, <1>3, <1>4, <1>5, Starts

-----------------------------------------------------------------------------

LEMMA LookKeeps ==
  ASSUME DeskInv, NEW w \in Workers, Look(w)
  PROVE  DeskInv'
<1>. DEFINE i == job[w]
<1>0. i \in Job /\ Sound(i, rows) /\ i.at = "look"
  BY DEF DeskInv, DeskType, Look
<1>1. PICK b \in i.todo :
        job' = [job EXCEPT ![w] =
                  IF b \in i.late /\ ActiveOf(b) = {}
                  THEN [[i EXCEPT !.todo = @ \ {b}] EXCEPT !.at = "insert", !.booking = b]
                  ELSE [i EXCEPT !.todo = @ \ {b}]]
  BY DEF Look, Set
<1>2. rows' = rows /\ raced' = raced
  BY DEF Look
<1>3. i.todo \subseteq i.on /\ i.agent \in Agents /\ b \in i.on /\ b \in Bookings
  <2>1. i.todo \subseteq i.on /\ i.agent \in Agents
    BY <1>0 DEF Sound
  <2>. QED
    BY <1>0, <1>1, <2>1 DEF Job
<1>4. CASE b \in i.late /\ ActiveOf(b) = {}
  <2>. DEFINE k == [[i EXCEPT !.todo = @ \ {b}] EXCEPT !.at = "insert", !.booking = b]
  <2>1. k \in Job /\ k.at = "insert" /\ k.booking = b /\ k.on = i.on /\ k.agent = i.agent
        /\ k.todo = i.todo \ {b}
    <3>. HIDE DEF i
    <3>1. "insert" \in Stages
      BY DEF Stages, Adding
    <3>. QED
      BY <1>0, <1>3, <3>1 DEF Job
  <2>2. job' = [job EXCEPT ![w] = k]
    BY <1>1, <1>4
  <2>. HIDE DEF k
  <2>3. Sound(k, rows) /\ k.at \notin Holding
    BY <1>3, <2>1 DEF Sound, Holding
  <2>4. Active(b, rows) = {}
    BY <1>4 DEF Active, ActiveOf
  <2>. QED
    BY <1>2, <2>1, <2>2, <2>3, <2>4, OnlyJob
<1>5. CASE ~(b \in i.late /\ ActiveOf(b) = {})
  <2>. DEFINE k == [i EXCEPT !.todo = @ \ {b}]
  <2>1. k \in Job /\ k.at = "look" /\ k.on = i.on /\ k.agent = i.agent
        /\ k.todo = i.todo \ {b}
    <3>. HIDE DEF i
    <3>. QED
      BY <1>0, <1>3 DEF Job
  <2>2. job' = [job EXCEPT ![w] = k]
    BY <1>1, <1>5
  <2>. HIDE DEF k
  <2>3. Sound(k, rows) /\ k.at \notin Holding /\ k.at \notin Adding
    BY <1>3, <2>1 DEF Sound, Holding, Adding
  <2>. QED
    BY <1>2, <2>1, <2>2, <2>3, OnlyJob
<1>. QED
  BY <1>4, <1>5

\* A new row is active, and the only active one of its booking.
LEMMA Appends ==
  ASSUME DeskInv, NEW w \in Workers, NEW k \in Job,
         job[w].at \in Adding, Insert(w, k), raced' = raced,
         k.on \subseteq job[w].on, k.at \notin Adding, k.at \notin Holding, Sound(k, rows')
  PROVE  DeskInv'
<1>. DEFINE i == job[w]
            b == i.booking
            new == [booking |-> b, agent |-> i.agent, status |-> "Assigned"]
<1>1. i \in Job /\ i.agent \in Agents /\ b \in i.on /\ b \in Bookings
  <2>1. i \in Job /\ Sound(i, rows)
    BY DEF DeskInv, DeskType
  <2>2. i.agent \in Agents /\ b \in i.on
    BY <2>1 DEF Sound
  <2>. QED
    BY <2>1, <2>2 DEF Job
<1>2. new \in Row /\ new.booking = b
  BY <1>1 DEF Row, Statuses, ActiveStatuses
<1>3. rows \in Seq(Row) /\ rows' = Append(rows, new)
  BY DEF DeskInv, DeskType, Insert
<1>. HIDE DEF new, i
<1>4. /\ rows' \in Seq(Row)
      /\ DOMAIN rows = 1..Len(rows) /\ DOMAIN rows' = 1..(Len(rows) + 1) /\ Len(rows) \in Nat
      /\ \A r \in DOMAIN rows : r \in DOMAIN rows' /\ rows'[r] = rows[r]
      /\ rows'[Len(rows) + 1] = new
  BY <1>2, <1>3
<1>5. ASSUME NEW c \in Bookings \ raced, c # b PROVE Active(c, rows') \subseteq Active(c, rows)
  BY <1>2, <1>4, <1>5 DEF Active
<1>6. ASSUME b \notin raced PROVE \A r, q \in Active(b, rows') : r = q
  <2>1. Active(b, rows) = {}
    BY <1>6 DEF DeskInv, Gap, i
  <2>. QED
    BY <1>4, <2>1 DEF Active
<1>7. /\ job' = [job EXCEPT ![w] = k]
      /\ \A v \in Workers \ {w} : k.on \cap job[v].on \subseteq raced'
      /\ raced' \in SUBSET Bookings
  BY DEF DeskInv, DeskType, Apart, Insert, Set
<1>8. \A c \in Bookings \ raced' :
        \/ Active(c, rows') \subseteq Active(c, rows)
        \/ c \in job[w].on /\ \A r, q \in Active(c, rows') : r = q
  BY <1>1, <1>5, <1>6 DEF i
<1>. QED
  BY <1>4, <1>7, <1>8, Keeps

LEMMA InsertAssignmentKeeps ==
  ASSUME DeskInv, NEW w \in Workers, InsertAssignment(w)
  PROVE  DeskInv'
<1>. DEFINE i == job[w]
            k == [i EXCEPT !.at = "look", !.booking = None]
<1>1. i \in Job /\ Sound(i, rows) /\ i.at = "insert"
  BY DEF DeskInv, DeskType, InsertAssignment
<1>2. k \in Job /\ k.at = "look" /\ k.on = i.on /\ k.todo = i.todo /\ k.agent = i.agent
  <2>. HIDE DEF i
  <2>1. "look" \in Stages
    BY DEF Stages
  <2>. QED
    BY <1>1, <2>1 DEF Job
<1>3. Insert(w, k) /\ raced' = raced
  BY DEF InsertAssignment
<1>. HIDE DEF k
<1>4. i.todo \subseteq i.on /\ i.agent \in Agents
  BY <1>1 DEF Sound, Adding
<1>5. k.at \notin Adding /\ k.at \notin Holding /\ Sound(k, rows')
  BY <1>2, <1>4 DEF Adding, Holding, Sound
<1>. QED
  BY <1>1, <1>2, <1>3, <1>5, Appends DEF Adding

LEMMA InsertReplacementKeeps ==
  ASSUME DeskInv, NEW w \in Workers, InsertReplacement(w)
  PROVE  DeskInv'
<1>1. NoJob.at \notin Adding /\ NoJob.at \notin Holding /\ Sound(NoJob, rows')
  BY DEF NoJob, Adding, Holding, Sound
<1>. QED
  BY <1>1, IdleJob, Appends DEF InsertReplacement, Adding

\* A row that is given another status is the only active one of its booking after,
\* if it was before or becomes inactive.
LEMMA Restates ==
  ASSUME DeskInv, NEW w \in Workers, NEW k \in Job, NEW s \in Statuses,
         job[w].at \in Holding \cup {"resolve"}, s \in ActiveStatuses => job[w].at \in Holding,
         SetStatus(job[w].row, s), Set(w, k), raced' = raced,
         k.on \subseteq job[w].on, Sound(k, rows'), k.at \notin Holding,
         k.at \in Adding => /\ s \notin ActiveStatuses /\ job[w].at \in Holding
                            /\ k.booking = rows[job[w].row].booking
  PROVE  DeskInv'
<1>. DEFINE x == job[w].row
            b == rows[x].booking
<1>1. x \in DOMAIN rows /\ b \in job[w].on
  <2>1. Sound(job[w], rows)
    BY DEF DeskInv
  <2>. QED
    BY <2>1 DEF Sound
<1>2. rows \in Seq(Row) /\ rows' = [rows EXCEPT ![x].status = s]
  BY DEF DeskInv, DeskType, SetStatus
<1>3. b \notin raced /\ job[w].at \in Holding => Active(b, rows) \subseteq {x}
  BY DEF DeskInv, Held
<1>. HIDE DEF x
<1>4. rows[x] \in Row /\ DOMAIN rows = 1..Len(rows)
  BY <1>1, <1>2
<1>5. [rows[x] EXCEPT !.status = s] \in Row
      /\ [rows[x] EXCEPT !.status = s].booking = b /\ [rows[x] EXCEPT !.status = s].status = s
  BY <1>4 DEF Row
<1>6. /\ rows' \in Seq(Row) /\ DOMAIN rows' = DOMAIN rows
      /\ \A r \in DOMAIN rows : r # x => rows'[r] = rows[r]
      /\ rows'[x].booking = b /\ rows'[x].status = s
  <2>. DEFINE new == [rows[x] EXCEPT !.status = s]
  <2>1. rows' = [rows EXCEPT ![x] = new]
    BY <1>2
  <2>2. new \in Row /\ new.booking = b /\ new.status = s
    BY <1>5
  <2>. HIDE DEF new
  <2>. QED
    BY <1>1, <1>2, <2>1, <2>2
<1>7. ASSUME NEW c \in Bookings \ raced, c # b PROVE Active(c, rows') \subseteq Active(c, rows)
  BY <1>6, <1>7 DEF Active
<1>8. Active(b, rows') \subseteq Active(b, rows) \cup {x}
  BY <1>6 DEF Active
<1>9. s \notin ActiveStatuses => Active(b, rows') \subseteq Active(b, rows) \ {x}
  BY <1>6 DEF Active
<1>. HIDE DEF b
<1>10. \A c \in Bookings \ raced' :
         \/ Active(c, rows') \subseteq Active(c, rows)
         \/ c \in job[w].on /\ \A r, q \in Active(c, rows') : r = q
  BY <1>1, <1>3, <1>7, <1>8, <1>9
<1>11. k.at \in Adding /\ k.booking \notin raced' => Active(k.booking, rows') = {}
  BY <1>3, <1>9 DEF b, x
<1>12. /\ job' = [job EXCEPT ![w] = k] /\ raced' \in SUBSET Bookings
       /\ \A v \in Workers \ {w} : k.on \cap job[v].on \subseteq raced'
  BY DEF DeskInv, DeskType, Apart, Set
<1>13. \A r \in DOMAIN rows : r \in DOMAIN rows' /\ rows'[r].booking = rows[r].booking
  BY <1>6 DEF b
<1>. QED
  BY <1>6, <1>10, <1>11, <1>12, <1>13, Keeps

LEMMA CloseOldKeeps ==
  ASSUME DeskInv, NEW w \in Workers, CloseOld(w)
  PROVE  DeskInv'
<1>. DEFINE i == job[w]
            k == [i EXCEPT !.at = "replace"]
<1>1. i \in Job /\ Sound(i, rows) /\ i.at = "close"
  BY DEF DeskInv, DeskType, CloseOld
<1>2. /\ k \in Job /\ k.at = "replace" /\ k.on = i.on /\ k.todo = i.todo /\ k.agent = i.agent
      /\ k.booking = i.booking
  <2>. HIDE DEF i
  <2>1. "replace" \in Stages
    BY DEF Stages, Adding
  <2>. QED
    BY <1>1, <2>1 DEF Job
<1>3. SetStatus(job[w].row, "Reassigned") /\ Set(w, k) /\ raced' = raced
  BY DEF CloseOld
<1>. HIDE DEF k
<1>4. /\ i.todo \subseteq i.on /\ i.agent \in Agents /\ i.booking \in i.on
      /\ rows[i.row].booking = i.booking
  BY <1>1 DEF Sound
<1>5. k.at \notin Holding /\ Sound(k, rows')
  BY <1>2, <1>4 DEF Holding, Sound
<1>6. "Reassigned" \in Statuses /\ "Reassigned" \notin ActiveStatuses /\ i.at \in Holding
  BY <1>1 DEF Statuses, ActiveStatuses, Holding
<1>. QED
  BY <1>2, <1>3, <1>4, <1>5, <1>6, Restates

LEMMA MarkResolvedKeeps ==
  ASSUME DeskInv, NEW w \in Workers, MarkResolved(w)
  PROVE  DeskInv'
<1>1. NoJob.at \notin Adding /\ NoJob.at \notin Holding /\ Sound(NoJob, rows')
  BY DEF NoJob, Adding, Holding, Sound
<1>2. "Resolved" \in Statuses /\ "Resolved" \notin ActiveStatuses
  BY DEF Statuses, ActiveStatuses
<1>. QED
  BY <1>1, <1>2, IdleJob, Restates DEF MarkResolved

LEMMA MarkInProgressKeeps ==
  ASSUME DeskInv, NEW w \in Workers, MarkInProgress(w)
  PROVE  DeskInv'
<1>1. NoJob.at \notin Adding /\ NoJob.at \notin Holding /\ Sound(NoJob, rows')
  BY DEF NoJob, Adding, Holding, Sound
<1>2. "InProgress" \in Statuses /\ job[w].at \in Holding
  BY DEF Statuses, ActiveStatuses, Holding, MarkInProgress
<1>. QED
  BY <1>1, <1>2, IdleJob, Restates DEF MarkInProgress

LEMMA InsertCallKeeps ==
  ASSUME DeskInv, NEW w \in Workers, InsertCall(w)
  PROVE  DeskInv'
<1>1. rows' = rows /\ raced' = raced
  BY DEF InsertCall
<1>2. CASE job[w].at = "callFirst"
  <2>. DEFINE i == job[w]
              k == [i EXCEPT !.at = "progress"]
  <2>1. i \in Job /\ Sound(i, rows)
    BY DEF DeskInv, DeskType
  <2>2. k \in Job /\ k.at = "progress" /\ k.on = i.on /\ k.todo = i.todo /\ k.row = i.row
    <3>. HIDE DEF i
    <3>1. "progress" \in Stages
      BY DEF Stages, Holding
    <3>. QED
      BY <2>1, <3>1 DEF Job
  <2>3. job' = [job EXCEPT ![w] = k]
    BY <1>2 DEF InsertCall, Set
  <2>. HIDE DEF k
  <2>4. i.todo \subseteq i.on /\ i.row \in DOMAIN rows /\ rows[i.row].booking \in i.on
    BY <1>2, <2>1 DEF Sound, Holding
  <2>5. k.at \notin Adding /\ Sound(k, rows)
    BY <2>2, <2>4 DEF Adding, Sound
  <2>6. rows[i.row].booking \notin raced => Active(rows[i.row].booking, rows) \subseteq {i.row}
    BY <1>2 DEF DeskInv, Held, Holding
  <2>. QED
    BY <1>1, <2>2, <2>3, <2>5, <2>6, OnlyJob
<1>3. CASE job[w].at = "call"
  BY <1>1, <1>3, Ends DEF InsertCall
<1>. QED
  BY <1>2, <1>3 DEF InsertCall

-----------------------------------------------------------------------------

LEMMA Unmoved ==
  ASSUME DeskInv, UNCHANGED deskVars
  PROVE  DeskInv'
<1>1. rows' = rows /\ job' = job /\ raced' = raced
  BY DEF deskVars
<1>. QED
  BY <1>1 DEF DeskInv, DeskType, Apart, OneRow, Gap, Held

LEMMA RequestsKeep ==
  ASSUME DeskInv, NEW w \in Workers, Requests(w)
  PROVE  DeskInv'
<1>1. ASSUME NEW a \in Agents, NEW S \in SUBSET Bookings, Assign(w, a, S) PROVE DeskInv'
  BY <1>1, AssignKeeps
<1>2. ASSUME NEW a \in Agents, NEW b \in Bookings, Reserve(w, a, b) PROVE DeskInv'
  BY <1>2, ReserveKeeps
<1>3. ASSUME NEW r \in DOMAIN rows, NEW a \in Agents, Reassign(w, r, a) PROVE DeskInv'
  BY <1>3, ReassignKeeps
<1>4. ASSUME NEW r \in DOMAIN rows, Resolve(w, r) PROVE DeskInv'
  BY <1>4, ResolveKeeps
<1>5. ASSUME NEW r \in DOMAIN rows, AddCall(w, r) PROVE DeskInv'
  BY <1>5, AddCallKeeps
<1>6. CASE Look(w)
  BY <1>6, LookKeeps
<1>7. CASE InsertAssignment(w)
  BY <1>7, InsertAssignmentKeeps
<1>8. CASE Answer(w) \/ Die(w)
  BY <1>8, Ends DEF Answer, Die
<1>9. CASE CloseOld(w)
  BY <1>9, CloseOldKeeps
<1>10. CASE InsertReplacement(w)
  BY <1>10, InsertReplacementKeeps
<1>11. CASE MarkResolved(w)
  BY <1>11, MarkResolvedKeeps
<1>12. CASE InsertCall(w)
  BY <1>12, InsertCallKeeps
<1>13. CASE MarkInProgress(w)
  BY <1>13, MarkInProgressKeeps
<1>. QED
  BY <1>1, <1>2, <1>3, <1>4, <1>5, <1>6, <1>7, <1>8, <1>9, <1>10, <1>11, <1>12, <1>13
  DEF Requests

LEMMA DeskInit == Init => DeskInv
<1>. SUFFICES ASSUME Init PROVE DeskInv
  OBVIOUS
<1>1. rows = <<>> /\ raced = {} /\ job = [w \in Workers |-> NoJob]
  BY DEF Init
<1>2. DeskType
  BY <1>1, IdleJob DEF DeskType
<1>3. \A w \in Workers : Sound(job[w], rows)
  BY <1>1, IdleJob
<1>4. Apart
  BY <1>1, IdleJob DEF Apart
<1>5. OneRow
  BY <1>1 DEF OneRow, Active
<1>6. Gap /\ Held
  BY <1>1, IdleJob DEF Gap, Held, Adding, Holding
<1>. QED
  BY <1>2, <1>3, <1>4, <1>5, <1>6 DEF DeskInv

LEMMA DeskStep == DeskInv /\ [Next]_vars => DeskInv'
<1>. SUFFICES ASSUME DeskInv, [Next]_vars PROVE DeskInv'
  OBVIOUS
<1>1. ASSUME NEW w \in Workers, Requests(w) PROVE DeskInv'
  BY <1>1, RequestsKeep
<1>2. ASSUME NEW s \in Servers, CheckStep(s) \/ FailCheck(s) PROVE DeskInv'
  BY <1>2, Unmoved
  DEF CheckStep, FailCheck, BeginCheck, ReadDebts, ReadPlots, Walk, EndCheck
<1>3. CASE DebtsMove
  BY <1>3, Unmoved DEF DebtsMove
<1>4. CASE UNCHANGED vars
  BY <1>4, Unmoved DEF vars
<1>. QED
  BY <1>1, <1>2, <1>3, <1>4 DEF Next

\* The assignments keep the invariant, whatever debts and checks do.
THEOREM DeskInvariant == Spec => []DeskInv
BY DeskInit, DeskStep, PTL DEF Spec

LEMMA DeskInvOneActive == DeskInv => OneActive
<1>. SUFFICES ASSUME DeskInv, NEW b \in Bookings \ raced
              PROVE  /\ \A r, q \in ActiveOf(b) : r = q
                     /\ b \in LateNow =>
                          LET agents == {a \in Agents : b \in sendReminders(a)} IN
                          /\ agents = {} <=> b \in listPool
                          /\ \A a \in agents : b \in {rows[r].booking : r \in listMyPlots(a)}
                          /\ Cardinality(agents) <= 1
  BY DEF OneActive
<1>1. \A r, q \in ActiveOf(b) : r = q
  BY DEF DeskInv, OneRow, Active, ActiveOf
<1>. DEFINE agents == {a \in Agents : b \in sendReminders(a)}
<1>2. ASSUME NEW a \in agents
      PROVE  \E r \in ActiveOf(b) : rows[r].agent = a
  BY DEF sendReminders
<1>3. ASSUME NEW r \in ActiveOf(b), b \in LateNow
      PROVE  rows[r].agent \in agents
  <2>1. rows[r] \in Row
    BY RowOf DEF ActiveOf
  <2>2. rows[r].agent \in Agents
    BY <2>1 DEF Row
  <2>. QED
    BY <1>3, <2>2 DEF sendReminders
<1>4. b \in LateNow => (agents = {} <=> b \in listPool)
  <2>1. b \in LateNow => (b \in listPool <=> ActiveOf(b) = {})
    BY DEF listPool
  <2>. HIDE DEF agents
  <2>. QED
    BY <1>2, <1>3, <2>1
<1>5. ASSUME NEW a \in agents PROVE b \in {rows[r].booking : r \in listMyPlots(a)}
  <2>1. PICK r \in ActiveOf(b) : rows[r].agent = a
    BY <1>2
  <2>2. r \in listMyPlots(a) /\ rows[r].booking = b
    BY <2>1 DEF listMyPlots, ActiveOf, ActiveStatuses
  <2>. QED
    BY <2>2
<1>6. Cardinality(agents) <= 1
  <2>1. CASE agents = {}
    BY <2>1, FS_EmptySet
  <2>2. ASSUME NEW a \in agents PROVE Cardinality(agents) <= 1
    <3>1. \A c \in agents : c = a
      BY <1>1, <1>2
    <3>2. agents = {a}
      BY <3>1
    <3>3. Cardinality({a}) = 1
      BY FS_Singleton
    <3>. QED
      BY <3>2, <3>3
  <2>. QED
    BY <2>1, <2>2
<1>. QED
  BY <1>1, <1>4, <1>5, <1>6

\* A booking that no two requests were about at once has one active assignment at
\* most, is in the pool or with one agent, and only he reminds its member; for any
\* number of bookings, agents, requests in flight and servers.
THEOREM OneActiveHolds == Spec => []OneActive
BY DeskInvariant, DeskInvOneActive, PTL

-----------------------------------------------------------------------------
(* The check that blocks plots *)

Check == [at : {"idle", "debts", "plots", "walk"}, threshold : Percents \cup {0},
          should : [Bookings -> BOOLEAN] \cup {<<>>}, was : [Plots -> BOOLEAN] \cup {<<>>},
          todo : SUBSET Bookings, clean : BOOLEAN]

\* Where check c has met a booking of p that disagrees with the flag as read, the
\* flag has been turned over.
Turned(c, p) == \E b \in BookingsOn(p) \ c.todo : c.should[b] # c.was[p]

\* How far a check has come that has been alone since it began, with debts and
\* threshold at rest.
Clean(s) == LET c == check[s] IN
  c.at # "idle" /\ c.clean =>
    /\ \A t \in Servers \ {s} : check[t].at = "idle"
    /\ c.threshold = threshold
    /\ c.at \in {"plots", "walk"} =>
         c.should \in [Bookings -> BOOLEAN] /\ \A b \in Bookings : c.should[b] <=> Behind(b, threshold)
    /\ c.at = "walk" =>
         /\ c.was \in [Plots -> BOOLEAN]
         /\ \A p \in Plots : blocked[p] <=> (IF Turned(c, p) THEN ~c.was[p] ELSE c.was[p])

CheckInv ==
  /\ check \in [Servers -> Check] /\ blocked \in [Plots -> BOOLEAN] /\ threshold \in Percents
  /\ \A s \in Servers : check[s].at = "idle" => check[s] = NoCheck
  /\ \A s \in Servers : check[s].at \in {"plots", "walk"} => check[s].should \in [Bookings -> BOOLEAN]
  /\ \A s \in Servers : check[s].at = "walk" => check[s].was \in [Plots -> BOOLEAN]
  /\ \A s \in Servers : Clean(s)

LEMMA NoCheckIs == NoCheck \in Check /\ NoCheck.at = "idle"
BY DEF NoCheck, Check

\* Noting that a check was disturbed changes nothing else of it.
LEMMA Marked ==
  ASSUME NEW c \in Check, NEW d, d = [c EXCEPT !.clean = (c = NoCheck)]
  PROVE  /\ d \in Check /\ d.at = c.at /\ d.should = c.should /\ d.was = c.was
         /\ d.clean = (c = NoCheck)
         /\ c = NoCheck => d = NoCheck
<1>1. CASE c = NoCheck
  <2>1. d = [c EXCEPT !.clean = TRUE] /\ c.clean = TRUE
    BY <1>1 DEF NoCheck
  <2>2. d = c
    BY <2>1 DEF Check
  <2>. QED
    BY <1>1, <2>1, <2>2
<1>2. CASE c # NoCheck
  <2>1. d = [c EXCEPT !.clean = FALSE]
    BY <1>2
  <2>2. /\ d \in Check /\ d.at = c.at /\ d.should = c.should /\ d.was = c.was /\ d.clean = FALSE
    BY <2>1 DEF Check
  <2>. QED
    BY <1>2, <2>2
<1>. QED
  BY <1>1, <1>2

\* One server's check goes on, and the debts do not move.
LEMMA CheckMoves ==
  ASSUME CheckInv, NEW s \in Servers, NEW c \in Check, check' = [check EXCEPT ![s] = c],
         check[s].at # "idle", UNCHANGED debtVars, blocked' \in [Plots -> BOOLEAN],
         c.at = "idle" => c = NoCheck,
         c.at # "idle" => c.clean = check[s].clean,
         c.at \in {"plots", "walk"} => c.should \in [Bookings -> BOOLEAN],
         c.at = "walk" => c.was \in [Plots -> BOOLEAN],
         c.at # "idle" /\ c.clean /\ (\A t \in Servers \ {s} : check[t].at = "idle") =>
           /\ c.threshold = threshold
           /\ c.at \in {"plots", "walk"} => \A b \in Bookings : c.should[b] <=> Behind(b, threshold)
           /\ c.at = "walk" =>
                \A p \in Plots : blocked'[p] <=> (IF Turned(c, p) THEN ~c.was[p] ELSE c.was[p])
  PROVE  CheckInv'
<1>1. check'[s] = c /\ check' \in [Servers -> Check]
      /\ \A t \in Servers \ {s} : check'[t] = check[t]
  BY DEF CheckInv
<1>2. threshold' = threshold /\ \A b \in Bookings : Behind(b, threshold)' <=> Behind(b, threshold)
  BY DEF debtVars, Behind, Overdue
<1>3. Clean(s)'
  <2>1. c.at # "idle" /\ c.clean => \A t \in Servers \ {s} : check[t].at = "idle"
    BY DEF CheckInv, Clean
  <2>. QED
    BY <1>1, <1>2, <2>1 DEF Clean, Turned
<1>4. ASSUME NEW t \in Servers \ {s} PROVE Clean(t)'
  <2>1. ~(check[t].at # "idle" /\ check[t].clean)
    BY DEF CheckInv, Clean
  <2>. QED
    BY <1>1, <2>1 DEF Clean
<1>. QED
  BY <1>1, <1>2, <1>3, <1>4 DEF CheckInv

LEMMA BeginCheckKeeps ==
  ASSUME CheckInv, NEW s \in Servers, BeginCheck(s)
  PROVE  CheckInv'
<1>. DEFINE c == [NoCheck EXCEPT !.at = "debts", !.threshold = threshold,
                                 !.clean = \A v \in Servers : check[v] = NoCheck]
<1>1. check'[s] = c
  BY DEF BeginCheck
<1>2. ASSUME NEW t \in Servers \ {s}
      PROVE  check'[t] = [check[t] EXCEPT !.clean = (check[t] = NoCheck)]
  BY DEF BeginCheck
<1>3. c \in Check /\ c.at = "debts" /\ c.threshold = threshold
      /\ c.clean = \A v \in Servers : check[v] = NoCheck
  BY DEF NoCheck, Check, CheckInv
<1>4. ASSUME NEW t \in Servers \ {s}
      PROVE  /\ check'[t] \in Check /\ check'[t].at = check[t].at
             /\ check'[t].should = check[t].should /\ check'[t].was = check[t].was
             /\ check'[t].clean = (check[t] = NoCheck)
             /\ check[t] = NoCheck => check'[t] = NoCheck
  <2>1. check[t] \in Check
    BY DEF CheckInv
  <2>. DEFINE d == check'[t]
              b == check[t]
  <2>2. d = [b EXCEPT !.clean = (b = NoCheck)] /\ b \in Check
    BY <1>2, <2>1
  <2>. HIDE DEF b, d
  <2>3. /\ d \in Check /\ d.at = b.at /\ d.should = b.should /\ d.was = b.was
        /\ d.clean = (b = NoCheck)
        /\ b = NoCheck => d = NoCheck
    BY <2>2, Marked
  <2>. QED
    BY <2>3 DEF b, d
<1>5. check' \in [Servers -> Check]
  BY <1>1, <1>3, <1>4 DEF BeginCheck
<1>6. threshold' = threshold /\ blocked' = blocked
  BY DEF BeginCheck, debtVars
<1>. HIDE DEF c
<1>7. ASSUME NEW t \in Servers PROVE Clean(t)'
  <2>1. CASE t = s
    <3>1. c.clean => \A v \in Servers \ {s} : check'[v].at = "idle"
      BY <1>3, <1>4, NoCheckIs
    <3>. QED
      BY <1>1, <1>3, <1>6, <2>1, <3>1 DEF Clean
  <2>2. CASE t # s
    BY <1>4, <2>2, NoCheckIs DEF Clean, CheckInv
  <2>. QED
    BY <2>1, <2>2
<1>. QED
  BY <1>1, <1>3, <1>4, <1>5, <1>6, <1>7 DEF CheckInv

LEMMA WalkKeeps ==
  ASSUME CheckInv, NEW s \in Servers, Walk(s)
  PROVE  CheckInv'
<1>1. PICK b \in check[s].todo :
        /\ check' = [check EXCEPT ![s] = [check[s] EXCEPT !.todo = @ \ {b}]]
        /\ blocked' = IF check[s].was[PlotOf[b]] = check[s].should[b] THEN blocked
                      ELSE [blocked EXCEPT ![PlotOf[b]] = check[s].should[b]]
  BY DEF Walk, Run
<1>. DEFINE c == [check[s] EXCEPT !.todo = @ \ {b}]
<1>2. check[s] \in Check /\ check[s].at = "walk" /\ b \in Bookings /\ PlotOf[b] \in Plots
  BY RecoveryAssumption DEF CheckInv, Walk, Check
<1>3. /\ c \in Check /\ c.at = "walk" /\ c.todo = check[s].todo \ {b}
      /\ c.threshold = check[s].threshold /\ c.should = check[s].should /\ c.was = check[s].was
      /\ c.clean = check[s].clean
  BY <1>2 DEF Check
<1>4. check' = [check EXCEPT ![s] = c]
  BY <1>1
<1>. HIDE DEF c
<1>5. c.should \in [Bookings -> BOOLEAN] /\ c.was \in [Plots -> BOOLEAN] /\ Clean(s)
  BY <1>2, <1>3 DEF CheckInv
<1>6. blocked' \in [Plots -> BOOLEAN]
  BY <1>1, <1>2, <1>3, <1>5 DEF CheckInv
<1>7. ASSUME c.clean, NEW p \in Plots
      PROVE  blocked'[p] <=> (IF Turned(c, p) THEN ~c.was[p] ELSE c.was[p])
  <2>1. blocked[p] <=> (IF Turned(check[s], p) THEN ~c.was[p] ELSE c.was[p])
    BY <1>2, <1>3, <1>5, <1>7 DEF Clean
  <2>2. Turned(c, p) <=> Turned(check[s], p) \/ (PlotOf[b] = p /\ c.should[b] # c.was[p])
    BY <1>2, <1>3 DEF Turned, BookingsOn
  <2>3. CASE PlotOf[b] = p /\ c.should[b] # c.was[p]
    <3>1. blocked'[p] = c.should[b]
      BY <1>1, <1>2, <1>3, <2>3 DEF CheckInv
    <3>2. c.should[b] \in BOOLEAN /\ c.was[p] \in BOOLEAN
      BY <1>2, <1>5
    <3>. QED
      BY <2>2, <2>3, <3>1, <3>2
  <2>4. CASE ~(PlotOf[b] = p /\ c.should[b] # c.was[p])
    <3>1. blocked'[p] = blocked[p]
      BY <1>1, <1>2, <1>3, <2>4 DEF CheckInv
    <3>. QED
      BY <2>1, <2>2, <2>4, <3>1
  <2>. QED
    BY <2>3, <2>4
<1>8. UNCHANGED debtVars
  BY DEF Walk
<1>. QED
  BY <1>2, <1>3, <1>4, <1>5, <1>6, <1>7, <1>8, CheckMoves DEF Clean

LEMMA CheckKeeps ==
  ASSUME CheckInv, NEW s \in Servers, CheckStep(s) \/ FailCheck(s)
  PROVE  CheckInv'
<1>1. check[s] \in Check
  BY DEF CheckInv
<1>2. CASE ReadDebts(s)
  <2>. DEFINE f == [b \in Bookings |-> Behind(b, check[s].threshold)]
              c == [check[s] EXCEPT !.at = "plots", !.should = f]
  <2>1. f \in [Bookings -> BOOLEAN] /\ \A b \in Bookings : f[b] <=> Behind(b, check[s].threshold)
    BY DEF Behind
  <2>2. check' = [check EXCEPT ![s] = c] /\ check[s].at = "debts" /\ UNCHANGED <<debtVars, blocked>>
    BY <1>2 DEF ReadDebts, Run
  <2>. HIDE DEF f
  <2>3. /\ c \in Check /\ c.at = "plots" /\ c.should = f /\ c.threshold = check[s].threshold
        /\ c.clean = check[s].clean
    BY <1>1, <2>1 DEF Check
  <2>4. c.clean => c.threshold = threshold
    BY <2>2, <2>3 DEF CheckInv, Clean
  <2>5. blocked' \in [Plots -> BOOLEAN]
    BY <2>2 DEF CheckInv
  <2>. HIDE DEF c
  <2>. QED
    BY <2>1, <2>2, <2>3, <2>4, <2>5, CheckMoves
<1>3. CASE ReadPlots(s)
  <2>. DEFINE c == [check[s] EXCEPT !.at = "walk", !.was = blocked, !.todo = Bookings]
  <2>1. check' = [check EXCEPT ![s] = c] /\ check[s].at = "plots" /\ UNCHANGED <<debtVars, blocked>>
    BY <1>3 DEF ReadPlots, Run
  <2>2. blocked \in [Plots -> BOOLEAN]
    BY DEF CheckInv
  <2>3. /\ c \in Check /\ c.at = "walk" /\ c.was = blocked /\ c.todo = Bookings
        /\ c.threshold = check[s].threshold /\ c.should = check[s].should
        /\ c.clean = check[s].clean
    BY <1>1, <2>2 DEF Check
  <2>. HIDE DEF c
  <2>4. c.should \in [Bookings -> BOOLEAN]
    BY <2>1, <2>3 DEF CheckInv
  <2>5. c.clean => /\ c.threshold = threshold
                   /\ \A b \in Bookings : c.should[b] <=> Behind(b, threshold)
    BY <2>1, <2>3 DEF CheckInv, Clean
  <2>6. \A p \in Plots : ~Turned(c, p)
    BY <2>3 DEF Turned, BookingsOn
  <2>. QED
    BY <2>1, <2>2, <2>3, <2>4, <2>5, <2>6, CheckMoves
<1>4. CASE EndCheck(s) \/ FailCheck(s)
  <2>1. check' = [check EXCEPT ![s] = NoCheck] /\ UNCHANGED <<debtVars, blocked>>
    BY <1>4 DEF EndCheck, FailCheck, Run
  <2>2. check[s].at # "idle"
    BY <1>4, NoCheckIs DEF EndCheck, FailCheck, CheckInv
  <2>3. blocked' \in [Plots -> BOOLEAN]
    BY <2>1 DEF CheckInv
  <2>. QED
    BY <2>1, <2>2, <2>3, NoCheckIs, CheckMoves
<1>. QED
  BY <1>2, <1>3, <1>4, BeginCheckKeeps, WalkKeeps DEF CheckStep

LEMMA DebtsKeep ==
  ASSUME CheckInv, DebtsMove
  PROVE  CheckInv'
<1>1. ASSUME NEW t \in Servers
      PROVE  /\ check'[t] \in Check /\ check'[t].at = check[t].at
             /\ check'[t].should = check[t].should /\ check'[t].was = check[t].was
             /\ check'[t].clean = (check[t] = NoCheck)
             /\ check[t] = NoCheck => check'[t] = NoCheck
  <2>1. check'[t] = [check[t] EXCEPT !.clean = (check[t] = NoCheck)]
    BY DEF DebtsMove
  <2>. QED
    BY <2>1, Marked DEF CheckInv
<1>2. check' \in [Servers -> Check] /\ blocked' = blocked /\ threshold' \in Percents
  BY <1>1 DEF DebtsMove, CheckInv
<1>3. ASSUME NEW t \in Servers PROVE Clean(t)'
  BY <1>1, NoCheckIs DEF Clean, CheckInv
<1>. QED
  BY <1>1, <1>2, <1>3 DEF CheckInv

LEMMA CheckInit == Init => CheckInv
<1>. SUFFICES ASSUME Init PROVE CheckInv
  OBVIOUS
<1>1. \A s \in Servers : check[s] = NoCheck /\ check[s].at = "idle"
  BY NoCheckIs DEF Init
<1>. QED
  BY <1>1, NoCheckIs DEF Init, CheckInv, Clean

LEMMA CheckStays == CheckInv /\ [Next]_vars => CheckInv'
<1>. SUFFICES ASSUME CheckInv, [Next]_vars PROVE CheckInv'
  OBVIOUS
<1>1. CASE UNCHANGED <<debtVars, checkVars>>
  BY <1>1 DEF CheckInv, Clean, Turned, Behind, Overdue, debtVars, checkVars
<1>2. ASSUME NEW w \in Workers, Requests(w) PROVE UNCHANGED <<debtVars, checkVars>>
  BY <1>2 DEF Requests, Assign, Reserve, Reassign, Resolve, AddCall, Look, InsertAssignment,
     Answer, CloseOld, InsertReplacement, MarkResolved, InsertCall, MarkInProgress, Die
<1>. QED
  BY <1>1, <1>2, CheckKeeps, DebtsKeep DEF Next, vars

\* At the end of an undisturbed check a plot's flag is what its bookings agree on,
\* and turned over where they disagree.
THEOREM CheckCorrect == Spec => []CheckDecides
<1>1. ASSUME CheckInv, NEW s \in Servers, NEW p \in Plots, check[s].at = "walk",
             check[s].todo = {}, check[s].clean, BookingsOn(p) # {}
      PROVE  blocked[p] = IF \A b, d \in BookingsOn(p) : Behind(b, threshold) <=> Behind(d, threshold)
                          THEN \E b \in BookingsOn(p) : Behind(b, threshold)
                          ELSE ~check[s].was[p]
  <2>1. /\ check[s].should \in [Bookings -> BOOLEAN] /\ check[s].was[p] \in BOOLEAN
        /\ \A b \in Bookings : check[s].should[b] <=> Behind(b, threshold)
        /\ blocked[p] \in BOOLEAN
        /\ blocked[p] <=> (IF Turned(check[s], p) THEN ~check[s].was[p] ELSE check[s].was[p])
    BY <1>1 DEF CheckInv, Clean
  <2>2. BookingsOn(p) \subseteq Bookings
    BY DEF BookingsOn
  <2>3. Turned(check[s], p) <=> \E b \in BookingsOn(p) : check[s].should[b] # check[s].was[p]
    BY <1>1 DEF Turned
  <2>. QED
    BY <1>1, <2>1, <2>2, <2>3
<1>2. CheckInv => CheckDecides
  BY <1>1 DEF CheckDecides
<1>. QED
  BY <1>2, CheckInit, CheckStays, PTL DEF Spec

=============================================================================
