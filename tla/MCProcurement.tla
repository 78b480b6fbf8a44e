---------------------------- MODULE MCProcurement ----------------------------
EXTENDS ProcurementProperties, TLC

CONSTANTS a, b

Line(n, ordered, received, rejected) ==
  [item |-> n, ordered |-> ordered, received |-> received, rejected |-> rejected]

\* Two batches of one good around another that is all rejected; and part of the
\* other good, part of that rejected too.
Batches == <<Line(a, 1, 2, 1), Line(b, 1, 1, 1), Line(a, 1, 1, 0)>>
Part    == <<Line(b, 4, 3, 1)>>
Both    == {Batches, Part}
Rejects == {<<Line(a, 1, 0, 0)>>}

\* An item goes by its own name, or by that of another.
Crossed == {<<a, a>>, <<a, b>>}

StoreSymmetry == Permutations(Items) \cup Permutations(Receipts) \cup Permutations(Workers)

\* A behaviour is followed no further once something is upset: no property is
\* about it any more, and the rest behaves as if that had not happened.
Undisturbed == upset = {}

\* A behaviour is about quotations, or about receipts and stock.
OneConcern ==
  (\A q \in Quotes : quote[q].status = "none") \/
  (\A i \in Items, x \in Receipts : ~Kept(i) /\ receipt[x].status = "none")

\* Receipts and movements made by hand number Moves at most, documents are
\* deleted, corrected or set by hand Interventions times at most.
CONSTANTS Moves, Interventions

ByHand(i) == {k \in DOMAIN history[i] : history[i][k].receipt = None}

FewMoves ==
  Cardinality({x \in Receipts : entered[x].status # "none"}
       \cup UNION {{i} \X ByHand(i) : i \in Items}) <= Moves

FewInterventions ==
  Cardinality({v \in Vendors : vendor[v] = "deleted"}
       \cup {r \in Requests : request[r] = "deleted"}
       \cup {q \in Quotes : quote[q].status = "deleted"}
       \cup {o \in Orders : order[o].status = "deleted"}
       \cup {x \in Receipts : receipt[x] # entered[x]} \cup edited) <= Interventions
=============================================================================
