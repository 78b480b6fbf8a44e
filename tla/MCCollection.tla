---------------------------- MODULE MCCollection ----------------------------
(* One small table, and queries of up to two clauses. *)
EXTENDS Collection

ById == {<<Q!Clause("id", "$eq", id)>> : id \in Ids}
Number(op) == Q!Clause("n", op, IF op = "$in" THEN Values ELSE 1)
Typo(op) == Q!Clause("typo", op, 1)
MCQueries ==
  ById \cup {<<Typo(op)>> \o q : op \in {"$eq", "$ne"}, q \in ById}
    \cup {<<Number(op)>> : op \in {"$eq", "$ne", "$in", "$gt", "$lte"}}
    \cup {<<Q!Clause("n", "$eq", None)>>}
    \cup {<<Number("$gte"), Typo(op)>> : op \in {"$eq", "$nin", "$gt"}}

Calm == upset = {}
Symmetry == Permutations(Workers) \cup Permutations(Ids) \cup Permutations(Users)
=============================================================================
