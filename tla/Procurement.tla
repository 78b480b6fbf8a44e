---------------------------- MODULE Procurement -----------------------------
(***************************************************************************)
(* procurement/service.js over the tables vendors, purchaseRequests,       *)
(* quotations, purchaseOrders and goodsReceivedNotes, with the stock its   *)
(* receipts move.                                                          *)
(*                                                                         *)
(* A request that writes once, whatever it read, is one action; one that   *)
(* reads a document and then deletes it or inserts another that names it   *)
(* is two, and other requests come between.  A vendor's status, which no   *)
(* step depends on, and the numbers of the documents are left out.         *)
(***************************************************************************)
EXTENDS Stock

CONSTANTS Vendors, Requests, Quotes, Orders,
          RequestEdits, QuoteEdits, OrderEdits,  \* statuses operators set
          Deliveries, Corrections  \* the lines receipts are entered with, and edited to

RequestStatus == {"Pending", "Approved", "Rejected", "Cancelled", "Completed"}
QuoteStatus   == {"Submitted", "Selected", "Rejected", "Expired"}
OrderStatus   == {"Draft", "Approved", "Sent", "PartiallyReceived", "Completed", "Cancelled"}

ASSUME ProcurementAssumption ==
  /\ RequestEdits \subseteq RequestStatus
  /\ QuoteEdits \subseteq QuoteStatus
  /\ OrderEdits \subseteq OrderStatus
  /\ Deliveries \cup Corrections \subseteq Seq(ReceiptLine)
  /\ None \notin Vendors \cup Requests \cup Quotes \cup Orders

VARIABLES
  vendor,   \* vendor[v]: "kept", or as below
  request,  \* request[r]: purchaseRequests.status; "none" before the insert and
            \* "deleted" after the delete, as in the other tables
  quote,    \* quote[q]: the status of quotation q and the request it is for
  order,    \* order[o]: the status of order o, its vendor and the quotation selected for it
  receipt,  \* receipt[x]: the order and the lines of goods received note x
  entered,  \* ghost: entered[x]: what x was first inserted with
  counted,  \* ghost: receipts whose lines have all been applied to the stock
  edited    \* ghost: quotations and orders whose status was set by hand

documents == <<vendor, request, quote, order, receipt, entered, counted, edited>>
vars == <<stockVars, documents>>

Exists(status) == status \notin {"none", "deleted"}

NoQuote(status)   == [status |-> status, request |-> None]
NoOrder(status)   == [status |-> status, vendor |-> None, quote |-> None]
NoReceipt(status) == [status |-> status, order |-> None, lines |-> <<>>]

Init ==
  /\ StockInit
  /\ vendor = [v \in Vendors |-> "none"]
  /\ request = [r \in Requests |-> "none"]
  /\ quote = [q \in Quotes |-> NoQuote("none")]
  /\ order = [o \in Orders |-> NoOrder("none")]
  /\ receipt = [x \in Receipts |-> NoReceipt("none")]
  /\ entered = [x \in Receipts |-> NoReceipt("none")]
  /\ counted = {}
  /\ edited = {}

\* A request that needs no worker: it writes one row, once.
AtOnce == UNCHANGED stockVars

-----------------------------------------------------------------------------
(* Vendors                                                                 *)

CreateVendor(v) ==
  /\ vendor[v] = "none"
  /\ vendor' = [vendor EXCEPT ![v] = "kept"]
  /\ UNCHANGED <<request, quote, order, receipt, entered, counted, edited>> /\ AtOnce

\* Refused if an order names the vendor; quotations are not looked at.
DeleteVendor(w) ==
  /\ At(w, "idle")
  /\ \E v \in Vendors :
       /\ Exists(vendor[v])
       /\ ~ \E o \in Orders : Exists(order[o].status) /\ order[o].vendor = v
       /\ TurnTo(w, [NoJob EXCEPT !.pc = "deleteVendor", !.vendor = v])
  /\ UNCHANGED <<item, history, into, documents>>

RemoveVendor(w) ==
  /\ At(w, "deleteVendor")
  /\ vendor' = [vendor EXCEPT ![job[w].vendor] = "deleted"]
  /\ Finish(w)
  /\ UNCHANGED <<item, history, into, upset, request, quote, order, receipt, entered, counted, edited>>

-----------------------------------------------------------------------------
(* Purchase requests                                                       *)

CreateRequest(r) ==
  /\ request[r] = "none"
  /\ request' = [request EXCEPT ![r] = "Pending"]
  /\ UNCHANGED <<vendor, quote, order, receipt, entered, counted, edited>> /\ AtOnce

UpdateRequest(r) ==
  /\ Exists(request[r])
  /\ \E s \in RequestEdits : request' = [request EXCEPT ![r] = s]
  /\ UNCHANGED <<vendor, quote, order, receipt, entered, counted, edited>> /\ AtOnce

\* Refused if a quotation names the request; orders are not looked at.
DeleteRequest(w) ==
  /\ At(w, "idle")
  /\ \E r \in Requests :
       /\ Exists(request[r])
       /\ ~ \E q \in Quotes : Exists(quote[q].status) /\ quote[q].request = r
       /\ TurnTo(w, [NoJob EXCEPT !.pc = "deleteRequest", !.request = r])
  /\ UNCHANGED <<item, history, into, documents>>

RemoveRequest(w) ==
  /\ At(w, "deleteRequest")
  /\ request' = [request EXCEPT ![job[w].request] = "deleted"]
  /\ Finish(w)
  /\ UNCHANGED <<item, history, into, upset, vendor, quote, order, receipt, entered, counted, edited>>

-----------------------------------------------------------------------------
(* Quotations                                                              *)

CreateQuote(w) ==
  /\ At(w, "idle")
  /\ \E r \in Requests :
       /\ Exists(request[r])
       /\ \E v \in Vendors : Exists(vendor[v])
       /\ TurnTo(w, [NoJob EXCEPT !.pc = "insertQuote", !.request = r])
  /\ UNCHANGED <<item, history, into, documents>>

InsertQuote(w) ==
  /\ At(w, "insertQuote")
  /\ \E q \in Quotes :
       /\ quote[q].status = "none"
       /\ quote' = [quote EXCEPT ![q] = [status |-> "Submitted", request |-> job[w].request]]
  /\ Finish(w)
  /\ UNCHANGED <<item, history, into, upset, vendor, request, order, receipt, entered, counted, edited>>

UpdateQuote(q) ==
  /\ Exists(quote[q].status)
  /\ \E s \in QuoteEdits : quote' = [quote EXCEPT ![q].status = s]
  /\ edited' = edited \cup {q}
  /\ UNCHANGED <<vendor, request, order, receipt, entered, counted>> /\ AtOnce

DeleteQuote(w) ==
  /\ At(w, "idle")
  /\ \E q \in Quotes :
       /\ Exists(quote[q].status) /\ quote[q].status # "Selected"
       /\ TurnTo(w, [NoJob EXCEPT !.pc = "deleteQuote", !.quote = q])
  /\ UNCHANGED <<item, history, into, documents>>

RemoveQuote(w) ==
  /\ At(w, "deleteQuote")
  /\ quote' = [quote EXCEPT ![job[w].quote] = NoQuote("deleted")]
  /\ Finish(w)
  /\ UNCHANGED <<item, history, into, upset, vendor, request, order, receipt, entered, counted, edited>>

-----------------------------------------------------------------------------
(* Purchase orders                                                         *)

\* The quotation need not be for the same request.
CreateOrder(w) ==
  /\ At(w, "idle")
  /\ \E r \in Requests, v \in Vendors, q \in Quotes \cup {None} :
       /\ request[r] = "Approved"
       /\ Exists(vendor[v])
       /\ q # None => Exists(quote[q].status)
       /\ TurnTo(w, [NoJob EXCEPT !.pc = IF q = None THEN "insertOrder" ELSE "selectQuote",
                                  !.vendor = v, !.quote = q])
  /\ UNCHANGED <<item, history, into, documents>>

SelectQuote(w) ==
  /\ At(w, "selectQuote")
  /\ quote' = IF Exists(quote[job[w].quote].status)
              THEN [quote EXCEPT ![job[w].quote].status = "Selected"] ELSE quote
  /\ Advance(w, "insertOrder")
  /\ UNCHANGED <<item, history, into, upset, vendor, request, order, receipt, entered, counted, edited>>

InsertOrder(w) ==
  /\ At(w, "insertOrder")
  /\ \E o \in Orders :
       /\ order[o].status = "none"
       /\ order' = [order EXCEPT ![o] = [status |-> "Draft", vendor |-> job[w].vendor, quote |-> job[w].quote]]
  /\ Finish(w)
  /\ UNCHANGED <<item, history, into, upset, vendor, request, quote, receipt, entered, counted, edited>>

UpdateOrder(o) ==
  /\ Exists(order[o].status)
  /\ \E s \in OrderEdits : order' = [order EXCEPT ![o].status = s]
  /\ edited' = edited \cup {o}
  /\ UNCHANGED <<vendor, request, quote, receipt, entered, counted>> /\ AtOnce

\* Mutation: receipts against the order are not looked up.
DeleteOrder_Unchecked(w) ==
  /\ At(w, "idle")
  /\ \E o \in Orders :
       /\ Exists(order[o].status)
       /\ TurnTo(w, [NoJob EXCEPT !.pc = "deleteOrder", !.order = o])
  /\ UNCHANGED <<item, history, into, documents>>

DeleteOrder(w) ==
  /\ At(w, "idle")
  /\ \E o \in Orders :
       /\ Exists(order[o].status)
       /\ ~ \E x \in Receipts : receipt[x].status = "kept" /\ receipt[x].order = o
       /\ TurnTo(w, [NoJob EXCEPT !.pc = "deleteOrder", !.order = o])
  /\ UNCHANGED <<item, history, into, documents>>

RemoveOrder(w) ==
  /\ At(w, "deleteOrder")
  /\ order' = [order EXCEPT ![job[w].order] = NoOrder("deleted")]
  /\ Finish(w)
  /\ UNCHANGED <<item, history, into, upset, vendor, request, quote, receipt, entered, counted, edited>>

-----------------------------------------------------------------------------
(* Goods received notes                                                    *)

CreateReceipt(w) ==
  /\ At(w, "idle")
  /\ \E o \in Orders, list \in Deliveries :
       /\ Exists(order[o].status)
       /\ TurnTo(w, [NoJob EXCEPT !.pc = "insertReceipt", !.order = o, !.lines = list])
  /\ UNCHANGED <<item, history, into, documents>>

InsertReceipt(w) ==
  /\ At(w, "insertReceipt")
  /\ LET j == job[w] IN
     \E x \in Receipts :
       /\ receipt[x].status = "none"
       /\ receipt' = [receipt EXCEPT ![x] =
                        [status |-> "kept", order |-> j.order, lines |-> j.lines]]
       /\ entered' = [entered EXCEPT ![x] = receipt'[x]]
       /\ Become(w, [j EXCEPT !.pc = "orderStatus", !.receipt = x, !.order = None])
  /\ UNCHANGED <<item, history, into, upset, vendor, request, quote, order, counted, edited>>

fullyReceived(lines) == \A k \in DOMAIN lines : lines[k].received >= lines[k].ordered
anyReceived(lines)   == \E k \in DOMAIN lines : lines[k].received > 0

\* Mutation: whether anything came is asked first.
StatusAfter_AnyFirst(lines, status) ==
  IF anyReceived(lines) THEN "PartiallyReceived"
  ELSE IF fullyReceived(lines) THEN "Completed" ELSE status

\* The new status of the order looks at the lines of this receipt only.
StatusAfter(lines, status) ==
  IF fullyReceived(lines) THEN "Completed"
  ELSE IF anyReceived(lines) THEN "PartiallyReceived" ELSE status

UpdateOrderStatus(w) ==
  /\ At(w, "orderStatus")
  /\ LET o == entered[job[w].receipt].order IN   \* data.purchaseOrder
     order' = IF Exists(order[o].status)
              THEN [order EXCEPT ![o].status = StatusAfter(job[w].lines, @)] ELSE order
  /\ Advance(w, "lines")
  /\ UNCHANGED <<item, history, into, upset, vendor, request, quote, receipt, entered, counted, edited>>

\* Every line is applied; the audit log and the answer are all that is left.
EndReceipt(w) ==
  /\ At(w, "lines") /\ job[w].lines = <<>>
  /\ counted' = counted \cup {job[w].receipt}
  /\ Finish(w)
  /\ UNCHANGED <<item, history, into, upset, vendor, request, quote, order, receipt, entered, edited>>

\* Neither an update nor a delete of a receipt touches the stock.
UpdateReceipt(x) ==
  /\ receipt[x].status = "kept"
  /\ \E list \in Corrections : receipt' = [receipt EXCEPT ![x].lines = list]
  /\ UNCHANGED <<vendor, request, quote, order, entered, counted, edited>> /\ AtOnce

DeleteReceipt(x) ==
  /\ receipt[x].status = "kept"
  /\ receipt' = [receipt EXCEPT ![x] = NoReceipt("deleted")]
  /\ UNCHANGED <<vendor, request, quote, order, entered, counted, edited>> /\ AtOnce

-----------------------------------------------------------------------------
\* A statement of the request throws, or the process stops: nothing is undone.
\* Between the two writes of a movement that leaves the item unexplained.
Fail(w) ==
  /\ ~At(w, "idle")
  /\ upset' = upset \cup (IF At(w, "movement") THEN {job[w].item} ELSE {})
  /\ Finish(w)
  /\ UNCHANGED <<item, history, into, documents>>

DocumentStep(w) ==
  \/ DeleteVendor(w) \/ RemoveVendor(w) \/ DeleteRequest(w) \/ RemoveRequest(w)
  \/ CreateQuote(w) \/ InsertQuote(w) \/ DeleteQuote(w) \/ RemoveQuote(w)
  \/ CreateOrder(w) \/ SelectQuote(w) \/ InsertOrder(w) \/ DeleteOrder(w) \/ RemoveOrder(w)
  \/ CreateReceipt(w) \/ InsertReceipt(w) \/ UpdateOrderStatus(w) \/ EndReceipt(w)

Next ==
  \/ \E v \in Vendors : CreateVendor(v)
  \/ \E r \in Requests : CreateRequest(r) \/ UpdateRequest(r)
  \/ \E q \in Quotes : UpdateQuote(q)
  \/ \E o \in Orders : UpdateOrder(o)
  \/ \E x \in Receipts : UpdateReceipt(x) \/ DeleteReceipt(x)
  \/ \E w \in Workers :
       \/ DocumentStep(w)
       \/ StockStep(w) /\ UNCHANGED documents
       \/ Fail(w)

Spec == Init /\ [][Next]_vars
=============================================================================
