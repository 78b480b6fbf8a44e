------------------------ MODULE ProcurementProperties ------------------------
(***************************************************************************)
(* What buying and storing goods gets right, and where it does not.  A     *)
(* property says nothing of what is upset: around it requests overlapped,  *)
(* or one died between the two writes of a movement.                       *)
(***************************************************************************)
EXTENDS Procurement

-----------------------------------------------------------------------------
(* The history of an item, read as a ledger.                               *)

Before(h, k) == IF k = 1 THEN 0 ELSE h[k - 1].balance

\* Movement k leads from the balance before it to its own.
Follows(h, k) ==
  LET m == h[k] IN
  \/ m.type = "IN"  /\ m.balance = Before(h, k) + m.qty
  \/ m.type = "OUT" /\ m.balance = Before(h, k) - m.qty
  \/ m.type = "ADJUST" /\ (m.qty = Distance(Before(h, k), m.balance)
                           \/ (m.balance = Before(h, k) /\ m.qty = m.balance))

\* The stock history of an item is a ledger: every movement leads from the last
\* balance to the next, and between movements the quantity on the item is the
\* balance of the last one.  Openings, adjustments and receipts all keep it.
HistoryExplainsStock ==
  \A i \in Items \ upset :
    LET h == history[i] IN
    /\ \A k \in DOMAIN h : Follows(h, k)
    /\ ~(\E w \in Workers : At(w, "movement") /\ job[w].item = i) =>
         item[i].qty = Before(h, Len(h) + 1)

-----------------------------------------------------------------------------
(* Receipts of goods.                                                      *)

NthLast(s, n) == s[Len(s) + 1 - n]
Movements(x, i) == {k \in DOMAIN history[i] : history[i][k].receipt = x}

\* What receipt x took in with the line that had n - 1 after it, and the lines of it
\* that went to item i.
Taken(x, n) == accepted(NthLast(entered[x].lines, n))
Went(x, i)  == {n \in DOMAIN into[x] : into[x][n] = i}

\* A receipt that ran to its end has sent every line something was accepted of to an
\* item, and no line is counted twice: each movement it made stands for one line that
\* went to that item, by what the line accepted, and no item a line went to is left
\* without.  Names that two items share, lines for one item, corrections and other
\* requests that move the items are all in the way of that.
ReceivedOnce ==
  \A x \in counted :
    /\ DOMAIN into[x] = {n \in 1..Len(entered[x].lines) : Taken(x, n) > 0}
    /\ \A i \in Items :
         /\ Went(x, i) # {} => Movements(x, i) # {}
         /\ \E line \in [Movements(x, i) -> Went(x, i)] :
              /\ \A k, l \in Movements(x, i) : line[k] = line[l] => k = l
              /\ \A k \in Movements(x, i) :
                   history[i][k].type = "IN" /\ history[i][k].qty = Taken(x, line[k])

\* "Accepted qty (received - rejected) increases inventory once per GRN line"
\* (procurement/service.js:547): an item has as many movements of a receipt as lines
\* of it went there.
OncePerLine ==
  \A x \in counted, i \in Items : Cardinality(Movements(x, i)) = Cardinality(Went(x, i))

\* An order nobody set by hand is Completed only if one receipt against it had
\* all of every line it lists, and PartiallyReceived only if one had something.
StatusByReceipt ==
  \A o \in Orders \ edited :
    LET against == {x \in Receipts : entered[x].order = o} IN
    /\ order[o].status = "Completed" =>
         \E x \in against : fullyReceived(entered[x].lines)
    /\ order[o].status = "PartiallyReceived" =>
         \E x \in against : anyReceived(entered[x].lines) /\ ~fullyReceived(entered[x].lines)

\* A receipt in the books has its order there, a quotation its request, and an
\* order its vendor and the quotation it selected, unless a delete of the one ran while the
\* other was being entered or an operator unselected the quotation.
ParentsKept ==
  /\ \A x \in Receipts : receipt[x].status = "kept" /\ receipt[x].order \notin upset =>
       Exists(order[receipt[x].order].status)
  /\ \A q \in Quotes : Exists(quote[q].status) /\ quote[q].request \notin upset =>
       Exists(request[quote[q].request])
  /\ \A o \in Orders :
       LET q == order[o].quote IN
       Exists(order[o].status) =>
         /\ order[o].vendor \in upset \/ Exists(vendor[order[o].vendor])
         /\ q # None /\ q \notin upset \cup edited => quote[q].status = "Selected"

=============================================================================
