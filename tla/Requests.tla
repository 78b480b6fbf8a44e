------------------------------ MODULE Requests ------------------------------
(***************************************************************************)
(* How the handlers of this program work: a request reads rows, refuses or *)
(* decides what to write, and writes row by row through the collection of  *)
(* db/prismaCollection.js, each write a statement of its own.  Nothing     *)
(* holds the rows meanwhile, so requests interleave between statements,    *)
(* and one that fails or dies leaves what it has written.                  *)
(*                                                                         *)
(* Every table is a part of file; a row is a record of the columns that    *)
(* matter.  Modules that extend this one add the handlers.                 *)
(***************************************************************************)
EXTENDS Naturals, Sequences, FiniteSets, TLC

CONSTANTS Ids,     \* identifiers of rows, of all tables
          Workers, \* requests in flight
          LastDay, \* bound: days
          None

VARIABLES
  file,  \* file[id]: the row of that identifier
  job,   \* job[w]: the writes worker w has left, none if it is idle
  upset, \* ghost: columns <<id, column>> that two requests in flight were to write,
         \* or that a request left unwritten after it had begun to write
  today  \* the clock

requestVars == <<file, job, upset, today>>

NoRow == [status |-> "none"]
Idle  == [todo |-> <<>>, wrote |-> FALSE]

Insert(id, row)   == [op |-> "insert", id |-> id, patch |-> row]
Update(id, patch) == [op |-> "update", id |-> id, patch |-> patch]
Delete(id)        == [op |-> "delete", id |-> id, patch |-> NoRow]

\* A row with the columns of a patch written over its own.
Over(patch, row) ==
  [c \in DOMAIN patch \cup DOMAIN row |-> IF c \in DOMAIN patch THEN patch[c] ELSE row[c]]

\* A patch that only some requests write.
When(condition, patch) == IF condition THEN patch ELSE <<>>

\* The columns a list of writes is about.  A column called key holds what the
\* table's handlers keep unique; then the value is as good as a column.
Columns(writes) ==
  UNION {LET patch == writes[k].patch IN
         {<<writes[k].id, c>> : c \in DOMAIN patch}
           \cup (IF "key" \in DOMAIN patch THEN {<<patch.key, "key">>} ELSE {})
         : k \in {j \in DOMAIN writes : writes[j].op # "check"}}

Pending(w) == Columns(job[w].todo)

RequestsInit ==
  /\ job = [w \in Workers |-> Idle]
  /\ upset = {}
  /\ today = 0

Days == 0..LastDay
Tick == today < LastDay /\ today' = today + 1 /\ UNCHANGED <<file, job, upset>>

\* An identifier no row has, and no row about to be inserted.
Fresh(id) ==
  file[id] = NoRow /\ \A w \in Workers : \A k \in DOMAIN job[w].todo : job[w].todo[k].id # id

\* Identifiers are interchangeable: one that is fresh stands for all.
Unused(ids) == LET fresh == {id \in ids : Fresh(id)} IN
               IF fresh = {} THEN {} ELSE {CHOOSE id \in fresh : TRUE}

Collisions(w, writes) == Columns(writes) \cap UNION {Pending(v) : v \in Workers \ {w}}

\* A request has read what it needs and knows what it will write.
Begin(w, writes) ==
  /\ job[w] = Idle
  /\ job' = [job EXCEPT ![w] = [todo |-> writes, wrote |-> FALSE]]
  /\ upset' = upset \cup Collisions(w, writes)
  /\ UNCHANGED <<file, today>>

\* Rows after a statement.  An update or delete that finds no row does nothing.
After(f, write) ==
  [f EXCEPT ![write.id] =
     CASE write.op = "insert" -> write.patch
       [] write.op = "update" /\ @ # NoRow -> Over(write.patch, @)
       [] OTHER -> NoRow]

Proceed(w, left) ==
  job' = [job EXCEPT ![w] = IF left = <<>> THEN Idle ELSE [todo |-> left, wrote |-> TRUE]]

Statements == {"insert", "update", "delete"}

\* The next statement of a request.  What is none of Statements is its module's.
Write(w) ==
  /\ job[w].todo # <<>> /\ Head(job[w].todo).op \in Statements
  /\ file' = After(file, Head(job[w].todo))
  /\ Proceed(w, Tail(job[w].todo))
  /\ UNCHANGED <<upset, today>>

\* A statement fails, or the process stops: what is left is not written.
Die(w) ==
  /\ job[w] # Idle
  /\ job' = [job EXCEPT ![w] = Idle]
  /\ upset' = upset \cup (IF job[w].wrote THEN Pending(w) ELSE {})
  /\ UNCHANGED <<file, today>>

\* The rows that hold a key: what a handler looks up before it inserts one.
Holders(key) == {id \in Ids : "key" \in DOMAIN file[id] /\ file[id].key = key}

\* No request in flight will write this column.
AtRest(id, column) == \A w \in Workers : <<id, column>> \notin Pending(w)
Undisturbed(id, column) == <<id, column>> \notin upset
=============================================================================
