------------------------------ MODULE Collection ------------------------------
(***************************************************************************)
(* The collection of db/prismaCollection.js: finds, inserts, updates and   *)
(* deletes of documents as statements on one table.  An update or delete   *)
(* finds the row first and writes it by its identifier in a statement of   *)
(* its own.  The table refers to users: column of must, column by may.  A  *)
(* write that names a user who is gone fails; it is tried once more        *)
(* without the optional references.                                        *)
(***************************************************************************)
EXTENDS Requests, SequencesExt

CONSTANTS
  Users,    \* rows of the table referred to
  Values,   \* of the plain column n
  Queries,  \* bound: the queries asked
  Undefined \* what reading a property that is not there gives

VARIABLES
  users,    \* the users there are
  relaxed,  \* relaxed[w]: the optional references of w's statement were dropped
  many      \* many[w]: w is in updateMany, which hands the fallback a copy of its data

collectionVars == <<requestVars, users, relaxed, many>>

References == {"by", "of"}
Nullable == {"by"}

Q == INSTANCE Query WITH Fields <- {"id", "n"} \cup References, Null <- None,
                         Undefined <- Undefined

Row(id, n, of, by) == [id |-> id, n |-> n, of |-> of, by |-> by, status |-> "row"]
Rows == {id \in Ids : file[id] # NoRow}
Found(query) == {id \in Rows : Q!MatchesRow(file[id], Q!toPrismaWhere(query))}
Answers == {Found(query) : query \in Queries}

Init ==
  /\ RequestsInit
  /\ file = [id \in Ids |-> NoRow]
  /\ users = Users
  /\ relaxed = [w \in Workers |-> FALSE]
  /\ many = [w \in Workers |-> FALSE]

Ask(w, writes, several) ==
  /\ Begin(w, writes)
  /\ relaxed' = [relaxed EXCEPT ![w] = FALSE]
  /\ many' = [many EXCEPT ![w] = several]
  /\ UNCHANGED users

InsertOne(w) ==
  \E id \in Ids, n \in Values \cup {None}, of \in Users, by \in Users \cup {None} :
    Fresh(id) /\ Ask(w, <<Insert(id, Row(id, n, of, by))>>, FALSE)

Patches == {[n |-> n] : n \in Values} \cup {[by |-> u] : u \in Users \cup {None}}
             \cup {[n |-> n, of |-> u, by |-> v] : n \in Values, u, v \in Users}

\* updateOne and findOneAndUpdate: the row found first.
UpdateOne(w) ==
  \E id \in UNION Answers, patch \in Patches : Ask(w, <<Update(id, patch)>>, FALSE)

\* updateMany: the rows found first, then one by one.
UpdateMany(w) ==
  \E found \in Answers, patch \in Patches :
    /\ Cardinality(found) > 1
    /\ \E order \in SetToSeqs(found) :
         Ask(w, [k \in DOMAIN order |-> Update(order[k], patch)], TRUE)

DeleteOne(w) ==
  \E id \in UNION Answers : Ask(w, <<Delete(id)>>, FALSE)

\* deleteMany is the one statement that takes its condition along.
DeleteMany(w) ==
  /\ job[w] = Idle
  /\ \E found \in Answers :
       file' = [id \in Ids |-> IF id \in found THEN NoRow ELSE file[id]]
  /\ UNCHANGED <<job, upset, today, users, relaxed, many>>

---- \* A statement of a write

Asked(w) == Head(job[w].todo)

Connects(patch) == {c \in References \cap DOMAIN patch : patch[c] # None}

\* P2025: the row is gone, or a user it is to refer to.
Fails(w) ==
  \/ Asked(w).op # "insert" /\ file[Asked(w).id] = NoRow
  \/ \E c \in Connects(Asked(w).patch) : Asked(w).patch[c] \notin users

WriteRow(w) ==
  /\ job[w].todo # <<>> /\ ~Fails(w)
  /\ Write(w)
  /\ relaxed' = [relaxed EXCEPT ![w] = FALSE]
  /\ UNCHANGED <<users, many>>

\* A patch without the optional references; a row to insert has none then.
Dropped(write) ==
  [write EXCEPT !.patch =
     IF write.op = "insert" THEN [@ EXCEPT !.by = None]
     ELSE [c \in DOMAIN @ \ Nullable |-> @[c]]]

MayRelax(w) ==
  /\ ~relaxed[w] /\ Asked(w).op # "delete"
  /\ IF Asked(w).op = "insert" THEN Connects(Asked(w).patch) \cap Nullable # {}
     ELSE Nullable \cap DOMAIN Asked(w).patch # {}

\* Mutation: the retry writes nothing of an update that names a missing user.
Relax_Empty(w) ==
  /\ job[w].todo # <<>> /\ Fails(w) /\ MayRelax(w)
  /\ relaxed' = [relaxed EXCEPT ![w] = TRUE]
  /\ job' = [job EXCEPT ![w].todo[1].patch = IF job[w].todo[1].op = "insert" THEN @ ELSE <<>>]
  /\ UNCHANGED <<file, upset, today, users, many>>

\* withFkFallback.  updateMany's data is not the copy that is relaxed, so its
\* second try is the first one again.
Relax(w) ==
  /\ job[w].todo # <<>> /\ Fails(w) /\ MayRelax(w)
  /\ relaxed' = [relaxed EXCEPT ![w] = TRUE]
  /\ job' = IF many[w] THEN job ELSE [job EXCEPT ![w].todo[1] = Dropped(@)]
  /\ UNCHANGED <<file, upset, today, users, many>>

\* The error reaches the service.
Throw(w) ==
  /\ job[w].todo # <<>> /\ Fails(w) /\ ~MayRelax(w)
  /\ Die(w)
  /\ UNCHANGED <<users, relaxed, many>>

Stop(w) == Die(w) /\ UNCHANGED <<users, relaxed, many>>

\* A user is deleted: rows that may refer to him no longer do, one that must
\* keeps him.
DeleteUser ==
  \E u \in users :
    /\ \A id \in Rows : file[id].of # u
    /\ users' = users \ {u}
    /\ file' = [id \in Ids |-> IF id \in Rows /\ file[id].by = u
                               THEN [file[id] EXCEPT !.by = None] ELSE file[id]]
    /\ UNCHANGED <<job, upset, today, relaxed, many>>

Next ==
  \/ \E w \in Workers :
       \/ InsertOne(w) \/ UpdateOne(w) \/ UpdateMany(w) \/ DeleteOne(w) \/ DeleteMany(w)
       \/ WriteRow(w) \/ Relax(w) \/ Throw(w) \/ Stop(w)
  \/ DeleteUser

Spec == Init /\ [][Next]_collectionVars

-----------------------------------------------------------------------------
(* What the services may rely on when they talk to the collection. *)

\* "The read direction is what keeps every API response byte-identical"
\* (prismaCollection.js:19): a query finds, of the rows there are, those the file
\* would have found, as long as it keeps to what both read alike and no clause on
\* the identifier follows one on a key that is no column.
QueriesAgree ==
  \A query \in Queries : \A id \in Rows :
    Q!AnchorKept(query) /\ (\A k \in DOMAIN query : Q!Portable(query[k], file[id])) =>
      (id \in Found(query) <=> Q!MatchesDocument(file[id], query))

---- \* The collection implements the statements every handler is written on

Plain(row) == [c \in DOMAIN row \ References |-> row[c]]
PlainJob(w) ==
  [job[w] EXCEPT !.todo = [k \in DOMAIN @ |-> [@[k] EXCEPT !.patch = Plain(@)]]]

R == INSTANCE Requests WITH
       file <- [id \in Ids |-> Plain(file[id])],
       job <- [w \in Workers |-> PlainJob(w)],
       upset <- {x \in upset : x[2] \notin References}

\* Apart from references, what the handlers of the other modules assume holds: a
\* request does the writes it decided on one row at a time, each whole or not at
\* all, whatever happened to the row since it was found and however often the
\* statement was tried.
RowsAsRequests ==
  /\ R!RequestsInit
  /\ [][\/ \E w \in Workers : R!Begin(w, PlainJob(w)'.todo) \/ R!Write(w) \/ R!Die(w)
        \/ \E gone \in SUBSET Rows :
             /\ file' = [id \in Ids |-> IF id \in gone THEN NoRow ELSE file[id]]
             /\ UNCHANGED job
       ]_(R!requestVars)

=============================================================================
