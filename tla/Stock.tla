------------------------------- MODULE Stock --------------------------------
(***************************************************************************)
(* inventory/service.js over the tables inventoryItems and                 *)
(* stockTransactions.                                                      *)
(*                                                                         *)
(* A movement of stock is three statements: read the item, write its new   *)
(* quantity (absolute, computed from the read) and insert the transaction. *)
(* Reads that follow each other and precede a write are one step.          *)
(* A worker is a request in flight; requests interleave between statements *)
(* and may die between any two of them.  Names stand for SKUs and names up *)
(* to the case of their letters.                                           *)
(***************************************************************************)
EXTENDS Integers, Sequences, FiniteSets

CONSTANTS Items, Names, Receipts, Workers, None,
          Labels,     \* the <<sku, name>> pairs operators give to items
          Sums,       \* quantities operators move
          MaxHistory  \* bound on the movements of an item operators make

ASSUME StockAssumption ==
  /\ Labels \subseteq Names \X Names
  /\ Sums \subseteq Nat \ {0}
  /\ MaxHistory \in Nat
  /\ None \notin Items \cup Names \cup Receipts

VARIABLES
  item,     \* item[i]: the row of item i
  history,  \* history[i]: its stockTransactions, oldest first
  job,      \* job[w]: the request worker w runs
  into,     \* ghost: into[x][n]: the item that the line of receipt x went to that had
            \* n - 1 lines after it
  upset     \* ghost: items, names and documents around which requests overlapped,
            \* and items whose request died half way

stockVars == <<item, history, job, into, upset>>

NoItem == [sku |-> None, name |-> None, qty |-> 0]
Kept(i) == item[i] # NoItem

Movement(type, qty, balance, x) ==
  [type |-> type, qty |-> qty, balance |-> balance, receipt |-> x]

\* "item": the item held, from reading it to recording its movement; "label": the
\* label to give to an item; "move": the movement to make, whose balance is the
\* quantity to write; "lines": lines of the receipt still to count.  The documents
\* are those the request is about.
NoJob == [pc |-> "idle", item |-> None, label |-> <<None, None>>,
          move |-> Movement("IN", 0, 0, None), lines |-> <<>>,
          receipt |-> None, order |-> None, quote |-> None, request |-> None, vendor |-> None]

Become(w, j) == job' = [job EXCEPT ![w] = j]
Finish(w) == Become(w, NoJob)
Advance(w, step) == Become(w, [job[w] EXCEPT !.pc = step])
At(w, step) == job[w].pc = step

\* What a request is about, as far as another one can get in its way: the item
\* it moves, the SKU it is to write, the documents it has read.
Concerns(j) ==
  ({j.order, j.quote, j.request, j.vendor}
     \cup (IF j.pc \in {"write", "movement"} THEN {j.item} ELSE {})
     \cup (IF j.pc \in {"insert", "patch"} THEN {j.label[1]} ELSE {})) \ {None}

\* Worker w turns to the task j; what another request is about as well is upset.
TurnTo(w, j) ==
  /\ Become(w, j)
  /\ upset' = upset \cup
       (Concerns(j) \cap UNION {Concerns(job[v]) : v \in Workers \ {w}})

StockInit ==
  /\ item = [i \in Items |-> NoItem]
  /\ history = [i \in Items |-> <<>>]
  /\ job = [w \in Workers |-> NoJob]
  /\ into = [x \in Receipts |-> <<>>]
  /\ upset = {}

BySku(s)  == {i \in Items : Kept(i) /\ item[i].sku = s}
ByName(n) == {i \in Items : Kept(i) /\ item[i].name = n}

-----------------------------------------------------------------------------
(* create, update, adjust                                                  *)

CreateItem(w) ==
  /\ At(w, "idle")
  /\ \E l \in Labels, q \in Sums \cup {0} :
       /\ BySku(l[1]) = {}
       /\ TurnTo(w, [NoJob EXCEPT !.pc = "insert", !.label = l,
                                  !.move = Movement("IN", q, q, None)])
  /\ UNCHANGED <<item, history, into>>

\* Mutation: no movement is recorded for the opening quantity.
InsertItem_NoOpening(w) ==
  /\ At(w, "insert") /\ job[w].receipt = None
  /\ \E i \in Items :
       /\ ~Kept(i)
       /\ item' = [item EXCEPT ![i] = [sku |-> job[w].label[1], name |-> job[w].label[2],
                                       qty |-> job[w].move.qty]]
  /\ Finish(w)
  /\ UNCHANGED <<history, into, upset>>

\* The insert of create, which sets the opening quantity with the row.
InsertItem(w) ==
  /\ At(w, "insert") /\ job[w].receipt = None
  /\ \E i \in Items :
       /\ ~Kept(i)
       /\ item' = [item EXCEPT ![i] = [sku |-> job[w].label[1], name |-> job[w].label[2],
                                       qty |-> job[w].move.qty]]
       /\ IF job[w].move.qty > 0
          THEN Become(w, [job[w] EXCEPT !.pc = "movement", !.item = i])
          ELSE Finish(w)
  /\ UNCHANGED <<history, into, upset>>

\* A new SKU must be free; the quantity is dropped from the patch.
UpdateItem(w) ==
  /\ At(w, "idle")
  /\ \E i \in Items, l \in Labels :
       /\ Kept(i)
       /\ l[1] # item[i].sku => BySku(l[1]) \ {i} = {}
       /\ TurnTo(w, [NoJob EXCEPT !.pc = "patch", !.label = l, !.item = i])
  /\ UNCHANGED <<item, history, into>>

PatchItem(w) ==
  /\ At(w, "patch")
  /\ item' = [item EXCEPT ![job[w].item].sku = job[w].label[1],
                          ![job[w].item].name = job[w].label[2]]
  /\ Finish(w)
  /\ UNCHANGED <<history, into, upset>>

Distance(m, n) == IF m >= n THEN m - n ELSE n - m

\* What adjust makes of a request: "IN" and "OUT" move q, "ADJUST" sets it.
Adjusted(type, q, have) ==
  CASE type = "IN"  -> Movement("IN", q, have + q, None)
    [] type = "OUT" -> Movement("OUT", q, have - q, None)
    [] type = "ADJUST" ->
         Movement("ADJUST", IF q = have THEN q ELSE Distance(q, have), q, None)

Adjust(w) ==
  /\ At(w, "idle")
  /\ \E i \in Items, type \in {"IN", "OUT", "ADJUST"}, q \in Sums :
       /\ Kept(i) /\ Len(history[i]) < MaxHistory
       /\ type = "OUT" => q <= item[i].qty
       /\ TurnTo(w, [NoJob EXCEPT !.pc = "write", !.item = i,
                                  !.move = Adjusted(type, q, item[i].qty)])
  /\ UNCHANGED <<item, history, into>>

\* The two writes that adjust and applyGrnReceipt share.
WriteQuantity(w) ==
  /\ At(w, "write")
  /\ item' = [item EXCEPT ![job[w].item].qty = job[w].move.balance]
  /\ Advance(w, "movement")
  /\ UNCHANGED <<history, into, upset>>

RecordMovement(w) ==
  /\ At(w, "movement")
  /\ history' = [history EXCEPT ![job[w].item] = Append(@, job[w].move)]
  /\ IF job[w].receipt = None THEN Finish(w)
     ELSE Become(w, [job[w] EXCEPT !.pc = "lines", !.item = None, !.lines = Tail(@)])
  /\ UNCHANGED <<item, into, upset>>

-----------------------------------------------------------------------------
(* applyGrnReceipt, called by the receipt of goods for one line at a time. *)

ReceiptLine == [item : Names, ordered : Nat, received : Nat, rejected : Nat]

accepted(line) == IF line.received > line.rejected THEN line.received - line.rejected ELSE 0

\* The line w is at goes to item i.
GoesTo(w, i) ==
  LET n == Len(job[w].lines) IN
  into' = [into EXCEPT ![job[w].receipt] =
             [k \in DOMAIN into[job[w].receipt] \cup {n} |->
                IF k = n THEN i ELSE into[job[w].receipt][k]]]

\* Found by SKU, else by name; of several, the database picks one.
Found(n) == IF BySku(n) # {} THEN BySku(n) ELSE ByName(n)

\* Mutation: the reference names the item but not the receipt.
Referenced_AnyReceipt(x, i) == \E k \in DOMAIN history[i] : history[i][k].receipt # None

\* This receipt has moved stock of item i already.
Referenced(x, i) == \E k \in DOMAIN history[i] : history[i][k].receipt = x

SkipLine(w) ==
  /\ At(w, "lines") /\ job[w].lines # <<>>
  /\ accepted(Head(job[w].lines)) = 0
  /\ Become(w, [job[w] EXCEPT !.lines = Tail(@)])
  /\ UNCHANGED <<item, history, into, upset>>

ApplyLine(w) ==
  /\ At(w, "lines") /\ job[w].lines # <<>>
  /\ LET j == job[w]
         line == Head(j.lines)
     IN /\ accepted(line) > 0
        /\ \E i \in Found(line.item) :
             /\ GoesTo(w, i)
             /\ IF Referenced(j.receipt, i)
                THEN TurnTo(w, [j EXCEPT !.lines = Tail(@)])
                ELSE TurnTo(w, [j EXCEPT !.pc = "write", !.item = i,
                       !.move = Movement("IN", accepted(line),
                                  item[i].qty + accepted(line), j.receipt)])
  /\ UNCHANGED <<item, history>>

\* No item bears the name: one is inserted, with no stock yet.
NewItem(w) ==
  /\ At(w, "lines") /\ job[w].lines # <<>>
  /\ LET j == job[w]
         line == Head(j.lines)
     IN /\ accepted(line) > 0
        /\ Found(line.item) = {}
        /\ TurnTo(w, [j EXCEPT !.pc = "insert", !.label = <<line.item, line.item>>,
             !.move = Movement("IN", accepted(line), accepted(line), j.receipt)])
  /\ UNCHANGED <<item, history, into>>

InsertNewItem(w) ==
  /\ At(w, "insert") /\ job[w].receipt # None
  /\ \E i \in Items :
       /\ ~Kept(i)
       /\ item' = [item EXCEPT ![i] = [sku |-> job[w].label[1],
                                       name |-> job[w].label[2], qty |-> 0]]
       /\ GoesTo(w, i)
       /\ Become(w, [job[w] EXCEPT !.pc = "write", !.item = i])
  /\ UNCHANGED <<history, upset>>

StockStep(w) ==
  \/ CreateItem(w) \/ InsertItem(w) \/ UpdateItem(w) \/ PatchItem(w) \/ Adjust(w)
  \/ WriteQuantity(w) \/ RecordMovement(w)
  \/ SkipLine(w) \/ ApplyLine(w) \/ NewItem(w) \/ InsertNewItem(w)
=============================================================================
