-------------------------------- MODULE Query --------------------------------
(***************************************************************************)
(* The query language the services speak.  It was made for documents in a  *)
(* file (config/fileDb.js), where an absent property is undefined, and is  *)
(* now translated to a where clause over rows (db/prismaCollection.js),    *)
(* where an absent value is NULL and compares with nothing.                *)
(*                                                                         *)
(* A query is the sequence of the entries of its object, each a clause on  *)
(* a key, at most one per key.                                             *)
(***************************************************************************)
EXTENDS Integers, Sequences, SequencesExt

CONSTANTS
  Fields,    \* the columns of the table; "id" is one
  Null,      \* a column without a value
  Undefined  \* what reading a property that is not there gives

Clause(key, op, arg) == [key |-> key, op |-> op, arg |-> arg]

AsNumber(v) == IF v = Null THEN 0 ELSE v
Compares(op, a, b) ==
  CASE op = "$gt" -> a > b [] op = "$gte" -> a >= b [] op = "$lt" -> a < b [] OTHER -> a <= b
Comparison == {"$gt", "$gte", "$lt", "$lte"}

---- \* The file

NestedValue(doc, key) == IF key \in DOMAIN doc THEN doc[key] ELSE Undefined

\* What it has no branch for ($nin, $regex, $or) it takes as met.
MatchesDocument(doc, query) ==
  \A k \in DOMAIN query :
    LET c == query[k]
        value == NestedValue(doc, c.key) IN
    CASE c.op = "$eq" -> value = c.arg
      [] c.op = "$ne" -> value # c.arg
      [] c.op = "$in" -> value \in c.arg
      [] c.op \in Comparison -> value # Undefined /\ Compares(c.op, AsNumber(value), c.arg)
      [] OTHER -> TRUE

---- \* The table

\* Operators on a key that is no column hold for every row or for none.
UnknownFieldMatches(c) == c.op \in {"$ne", "$nin"} \/ (c.op = "$eq" /\ c.arg = Null)

MatchesNothing == Clause("id", "$in", {})

\* Mutation: an unknown column is left out of the where clause.
Translate_Drops(where, c) ==
  IF c.key \in Fields THEN [column \in DOMAIN where \cup {c.key} |->
                              IF column = c.key THEN c ELSE where[column]]
  ELSE where

\* The where clause is an object: a later entry for a column replaces an
\* earlier one, the one that matches nothing included.
Translate(where, c) ==
  LET clause == IF c.key \in Fields THEN c ELSE MatchesNothing IN
  IF c.key \notin Fields /\ UnknownFieldMatches(c) THEN where
  ELSE [column \in DOMAIN where \cup {clause.key} |->
          IF column = clause.key THEN clause ELSE where[column]]

NoClause == [column \in {} |-> MatchesNothing]
toPrismaWhere(query) == FoldLeft(Translate, NoClause, query)

\* SQL: nothing is true of NULL but IS NULL.
MatchesRow(row, where) ==
  \A column \in DOMAIN where :
    LET c == where[column]
        value == row[column] IN
    CASE c.op = "$eq" -> value = c.arg
      [] value = Null -> FALSE
      [] c.op = "$ne" -> value # c.arg
      [] c.op = "$in" -> value \in c.arg
      [] c.op = "$nin" -> value \notin c.arg
      [] OTHER -> Compares(c.op, value, c.arg)

---- \* Where the two agree

\* Operators both know, with an operand both read alike.
Portable(c, row) ==
  CASE c.op = "$eq" -> c.key \in Fields \/ c.arg # Null
    [] c.op = "$in" -> Null \notin c.arg
    [] c.op = "$nin" -> FALSE
    [] OTHER -> c.key \notin Fields \/ row[c.key] # Null

\* The clause that matches nothing stands on the identifier: a clause on the
\* identifier after it takes its place.
AnchorKept(query) ==
  \A j, k \in DOMAIN query :
    j < k /\ query[j].key \notin Fields => query[k].key # "id"
=============================================================================
