--------------------------- MODULE ProcurementProofs ---------------------------
(***************************************************************************)
(* Proofs about the documents of procurement, for any vendors, requests,   *)
(* quotations, orders, receipts and requests in flight.                    *)
(*                                                                         *)
(* A request that has read a document and is about to delete it, or to     *)
(* insert another one that names it, has secured something about it        *)
(* (Secured), which lasts unless another request is about the same         *)
(* document; then that is upset (Told).                                    *)
(***************************************************************************)
EXTENDS ProcurementProperties, TLAPS

StockSteps    == {"idle", "insert", "patch", "write", "movement", "lines"}
DocumentSteps == {"deleteVendor", "deleteRequest", "insertQuote", "deleteQuote", "selectQuote",
                  "insertOrder", "deleteOrder", "insertReceipt", "orderStatus"}

\* A job, all but its documents left open.
JobRecord(j) ==
  j \in [pc : StockSteps \cup DocumentSteps, item : {j.item}, label : {j.label}, move : {j.move},
         lines : {j.lines}, receipt : {j.receipt}, order : Orders \cup {None},
         quote : Quotes \cup {None}, request : Requests \cup {None}, vendor : Vendors \cup {None}]

\* A request that works on a document has one.
Shape(j) ==
  /\ j.pc \in {"insertReceipt", "deleteOrder"} => j.order \in Orders
  /\ j.pc \in {"insertQuote", "deleteRequest"} => j.request \in Requests
  /\ j.pc \in {"selectQuote", "insertOrder", "deleteVendor"} => j.vendor \in Vendors
  /\ j.pc \in {"selectQuote", "deleteQuote"} => j.quote \in Quotes
  /\ j.pc = "orderStatus" => j.receipt \in Receipts

Gone == {"none", "deleted"}

RowOfReceipt(x) ==
  x \in [status : {"none", "kept", "deleted"}, order : Orders \cup {None}, lines : {x.lines}]

Tables ==
  /\ vendor \in [Vendors -> {"none", "kept", "deleted"}]
  /\ request \in [Requests -> RequestStatus \cup Gone]
  /\ quote \in [Quotes -> [status : QuoteStatus \cup Gone, request : Requests \cup {None}]]
  /\ order \in [Orders -> [status : OrderStatus \cup Gone, vendor : Vendors \cup {None},
                           quote : Quotes \cup {None}]]
  /\ DOMAIN receipt = Receipts /\ receipt = [x \in Receipts |-> receipt[x]]
  /\ DOMAIN entered = Receipts /\ entered = [x \in Receipts |-> entered[x]]
  /\ \A x \in Receipts : RowOfReceipt(receipt[x]) /\ RowOfReceipt(entered[x])

Jobs ==
  /\ DOMAIN job = Workers /\ job = [w \in Workers |-> job[w]]
  /\ \A w \in Workers : JobRecord(job[w]) /\ Shape(job[w])

Papers(j) == {j.order, j.quote, j.request, j.vendor} \ {None}

Told == \A v, w \in Workers : v # w => Papers(job[v]) \cap Papers(job[w]) \subseteq upset

Secured(j) ==
  /\ j.pc = "insertReceipt" /\ j.order \notin upset => Exists(order[j.order].status)
  /\ j.pc = "deleteOrder" /\ j.order \notin upset =>
       \A x \in Receipts : receipt[x].status = "kept" => receipt[x].order # j.order
  /\ j.pc = "insertQuote" /\ j.request \notin upset => Exists(request[j.request])
  /\ j.pc = "deleteRequest" /\ j.request \notin upset =>
       \A q \in Quotes : Exists(quote[q].status) => quote[q].request # j.request
  /\ j.pc \in {"selectQuote", "insertOrder"} /\ j.vendor \notin upset => Exists(vendor[j.vendor])
  /\ j.pc = "deleteVendor" /\ j.vendor \notin upset =>
       \A o \in Orders : Exists(order[o].status) => order[o].vendor # j.vendor
  /\ j.pc = "selectQuote" /\ j.quote \notin upset => Exists(quote[j.quote].status)
  /\ j.pc = "insertOrder" /\ j.quote # None /\ j.quote \notin upset \cup edited =>
       quote[j.quote].status = "Selected"
  /\ j.pc = "deleteQuote" /\ j.quote \notin upset \cup edited => quote[j.quote].status # "Selected"
  /\ j.pc = "orderStatus" => /\ entered[j.receipt].status = "kept"
                             /\ entered[j.receipt].lines = j.lines

\* What documents name exists in kind, and what was entered stays.
Named ==
  /\ \A x \in Receipts : /\ receipt[x].status = "kept" => receipt[x].order \in Orders
                         /\ receipt[x].status = "none" => entered[x].status = "none"
                         /\ entered[x].status = "none" => entered[x].order = None
                         /\ entered[x].status # "none" => entered[x].order \in Orders
  /\ \A q \in Quotes : Exists(quote[q].status) => quote[q].request \in Requests
  /\ \A o \in Orders : Exists(order[o].status) => order[o].vendor \in Vendors

PaperInv ==
  /\ Tables /\ Jobs /\ Told /\ Named
  /\ \A w \in Workers : Secured(job[w])
  /\ ParentsKept /\ StatusByReceipt

-----------------------------------------------------------------------------

LEMMA IdleJob ==
  /\ JobRecord(NoJob) /\ Shape(NoJob) /\ Secured(NoJob) /\ Papers(NoJob) = {}
  /\ NoJob.order = None /\ NoJob.quote = None /\ NoJob.request = None /\ NoJob.vendor = None
  /\ NoJob.pc = "idle"
BY DEF JobRecord, NoJob, StockSteps, Shape, Secured, Papers

\* A request starts or goes on with job k, and no document is touched.
LEMMA JobMoves ==
  ASSUME PaperInv, NEW w \in Workers, NEW k, JobRecord(k), Shape(k), Secured(k),
         Become(w, k), upset \subseteq upset',
         vendor' = vendor, request' = request, quote' = quote, order' = order,
         receipt' = receipt, entered' = entered, edited' = edited,
         \A v \in Workers \ {w} : Papers(k) \cap Papers(job[v]) \subseteq upset'
  PROVE  PaperInv'
<1>1. job'[w] = k /\ \A v \in Workers \ {w} : job'[v] = job[v]
  BY DEF PaperInv, Jobs, Become
<1>2. Jobs'
  <2>1. DOMAIN job' = Workers /\ job' = [v \in Workers |-> job'[v]]
    BY DEF PaperInv, Jobs, Become
  <2>2. \A v \in Workers : JobRecord(job'[v]) /\ Shape(job'[v])
    BY <1>1 DEF PaperInv, Jobs
  <2>. QED
    BY <2>1, <2>2 DEF Jobs, JobRecord, Shape
<1>3. Tables'
  BY DEF PaperInv, Tables, RowOfReceipt
<1>4. Told'
  BY <1>1 DEF PaperInv, Told, Papers
<1>5. Named'
  BY DEF PaperInv, Named, Exists
<1>6. ASSUME NEW v \in Workers PROVE Secured(job[v])'
  <2>1. Secured(job'[v])
    BY <1>1 DEF PaperInv
  <2>. QED
    BY <2>1 DEF Secured, Exists
<1>7. ParentsKept'
  BY DEF PaperInv, ParentsKept, Exists
<1>8. StatusByReceipt'
  BY DEF PaperInv, StatusByReceipt, fullyReceived, anyReceived
<1>. QED
  BY <1>2, <1>3, <1>4, <1>5, <1>6, <1>7, <1>8 DEF PaperInv

\* A request reads, and turns to what it is to write.
LEMMA Turns ==
  ASSUME PaperInv, NEW w \in Workers, NEW k, JobRecord(k), Shape(k), Secured(k),
         TurnTo(w, k), UNCHANGED documents
  PROVE  PaperInv'
<1>1. \A j : Papers(j) \subseteq Concerns(j)
  BY DEF Papers, Concerns
<1>2. \A v \in Workers \ {w} : Papers(k) \cap Papers(job[v]) \subseteq upset'
  <2>1. ASSUME NEW v \in Workers \ {w}, NEW d, d \in Papers(k), d \in Papers(job[v])
        PROVE  d \in upset'
    <3>1. d \in Concerns(k) /\ d \in Concerns(job[v])
      BY <1>1, <2>1
    <3>. QED
      BY <3>1 DEF TurnTo
  <2>. QED
    BY <2>1
<1>3. upset \subseteq upset' /\ Become(w, k)
  BY DEF TurnTo
<1>. QED
  BY <1>2, <1>3, JobMoves DEF documents

\* A request that stays about the papers it was about, or drops some.
LEMMA Proceeds ==
  ASSUME PaperInv, NEW w \in Workers, NEW k, JobRecord(k), k.pc \in StockSteps,
         Papers(k) \subseteq Papers(job[w]),
         Become(w, k), upset \subseteq upset', UNCHANGED documents
  PROVE  PaperInv'
<1>1. Shape(k) /\ Secured(k)
  BY DEF Shape, Secured, StockSteps
<1>2. \A v \in Workers \ {w} : Papers(k) \cap Papers(job[v]) \subseteq upset'
  BY DEF PaperInv, Told
<1>. QED
  BY <1>1, <1>2, JobMoves DEF documents

LEMMA StockKeeps ==
  ASSUME PaperInv, NEW w \in Workers, StockStep(w), UNCHANGED documents
  PROVE  PaperInv'
<1>. DEFINE j == job[w]
<1>0. JobRecord(j)
  BY DEF PaperInv, Jobs
<1>1. ASSUME Finish(w), upset \subseteq upset' PROVE PaperInv'
  <2>1. Papers(NoJob) \subseteq Papers(j) /\ NoJob.pc \in StockSteps
    BY IdleJob DEF StockSteps
  <2>. QED
    BY <1>1, <2>1, IdleJob, Proceeds DEF Finish
\* A job made anew has no papers; one that goes on keeps its own.
<1>2. ASSUME NEW s \in StockSteps, NEW i, NEW l, NEW m, NEW k,
             k \in {[NoJob EXCEPT !.pc = s, !.label = l, !.move = m],
                    [NoJob EXCEPT !.pc = s, !.label = l, !.item = i],
                    [NoJob EXCEPT !.pc = s, !.item = i, !.move = m]},
             Become(w, k), upset \subseteq upset'
      PROVE  PaperInv'
  <2>1. ASSUME k = [NoJob EXCEPT !.pc = s, !.label = l, !.move = m]
        PROVE  JobRecord(k) /\ k.pc \in StockSteps /\ Papers(k) = {}
    BY <2>1, IdleJob DEF JobRecord, Papers
  <2>2. ASSUME k = [NoJob EXCEPT !.pc = s, !.label = l, !.item = i]
        PROVE  JobRecord(k) /\ k.pc \in StockSteps /\ Papers(k) = {}
    BY <2>2, IdleJob DEF JobRecord, Papers
  <2>3. ASSUME k = [NoJob EXCEPT !.pc = s, !.item = i, !.move = m]
        PROVE  JobRecord(k) /\ k.pc \in StockSteps /\ Papers(k) = {}
    BY <2>3, IdleJob DEF JobRecord, Papers
  <2>. QED
    BY <1>2, <2>1, <2>2, <2>3, Proceeds
<1>3. ASSUME NEW s \in StockSteps, NEW i, NEW l, NEW m, NEW ls, NEW k,
             k \in {[j EXCEPT !.pc = s], [j EXCEPT !.lines = ls],
                    [j EXCEPT !.pc = s, !.item = i],
                    [j EXCEPT !.pc = s, !.item = i, !.lines = ls],
                    [j EXCEPT !.pc = s, !.item = i, !.move = m],
                    [j EXCEPT !.pc = s, !.label = l, !.move = m]},
             j.pc \in StockSteps, Become(w, k), upset \subseteq upset'
      PROVE  PaperInv'
  <2>. HIDE DEF j
  <2>1. ASSUME k = [j EXCEPT !.pc = s]
        PROVE  JobRecord(k) /\ k.pc \in StockSteps /\ Papers(k) = Papers(j)
    BY <1>0, <2>1 DEF JobRecord, Papers
  <2>2. ASSUME k = [j EXCEPT !.lines = ls]
        PROVE  JobRecord(k) /\ k.pc \in StockSteps /\ Papers(k) = Papers(j)
    BY <1>0, <1>3, <2>2 DEF JobRecord, Papers
  <2>3. ASSUME k = [j EXCEPT !.pc = s, !.item = i]
        PROVE  JobRecord(k) /\ k.pc \in StockSteps /\ Papers(k) = Papers(j)
    BY <1>0, <2>3 DEF JobRecord, Papers
  <2>4. ASSUME k = [j EXCEPT !.pc = s, !.item = i, !.lines = ls]
        PROVE  JobRecord(k) /\ k.pc \in StockSteps /\ Papers(k) = Papers(j)
    BY <1>0, <2>4 DEF JobRecord, Papers
  <2>5. ASSUME k = [j EXCEPT !.pc = s, !.item = i, !.move = m]
        PROVE  JobRecord(k) /\ k.pc \in StockSteps /\ Papers(k) = Papers(j)
    BY <1>0, <2>5 DEF JobRecord, Papers
  <2>6. ASSUME k = [j EXCEPT !.pc = s, !.label = l, !.move = m]
        PROVE  JobRecord(k) /\ k.pc \in StockSteps /\ Papers(k) = Papers(j)
    BY <1>0, <2>6 DEF JobRecord, Papers
  <2>7. JobRecord(k) /\ k.pc \in StockSteps /\ Papers(k) = Papers(j)
    BY <1>3, <2>1, <2>2, <2>3, <2>4, <2>5, <2>6
  <2>. QED
    BY <1>3, <2>7, Proceeds DEF j
<1>4. {"insert", "patch", "write", "movement", "lines"} \subseteq StockSteps
  BY DEF StockSteps
<1>5. CASE CreateItem(w) \/ UpdateItem(w) \/ Adjust(w)
  BY <1>2, <1>4, <1>5 DEF CreateItem, UpdateItem, Adjust, TurnTo
<1>6. CASE InsertItem(w)
  BY <1>1, <1>3, <1>4, <1>6 DEF InsertItem, At
<1>7. CASE PatchItem(w)
  BY <1>1, <1>7 DEF PatchItem
<1>8. CASE WriteQuantity(w)
  BY <1>3, <1>4, <1>8 DEF WriteQuantity, Advance, At
<1>9. CASE RecordMovement(w)
  BY <1>1, <1>3, <1>4, <1>9 DEF RecordMovement, At
<1>10. CASE SkipLine(w)
  BY <1>3, <1>4, <1>10 DEF SkipLine, At
<1>11. CASE ApplyLine(w)
  BY <1>3, <1>4, <1>11 DEF ApplyLine, At, TurnTo
<1>12. CASE NewItem(w)
  BY <1>3, <1>4, <1>12 DEF NewItem, At, TurnTo
<1>13. CASE InsertNewItem(w)
  BY <1>3, <1>4, <1>13 DEF InsertNewItem, At
<1>. QED
  BY <1>5, <1>6, <1>7, <1>8, <1>9, <1>10, <1>11, <1>12, <1>13 DEF StockStep

-----------------------------------------------------------------------------
(* Requests that read                                                      *)

LEMMA DeleteVendorKeeps ==
  ASSUME PaperInv, NEW w \in Workers, DeleteVendor(w)
  PROVE  PaperInv'
<1>1. PICK v \in Vendors :
        /\ ~ \E o \in Orders : Exists(order[o].status) /\ order[o].vendor = v
        /\ TurnTo(w, [NoJob EXCEPT !.pc = "deleteVendor", !.vendor = v])
  BY DEF DeleteVendor
<1>. DEFINE k == [NoJob EXCEPT !.pc = "deleteVendor", !.vendor = v]
<1>2. JobRecord(k) /\ k.pc = "deleteVendor" /\ k.vendor = v
  BY IdleJob DEF JobRecord, DocumentSteps
<1>3. TurnTo(w, k) /\ UNCHANGED documents
  BY <1>1 DEF DeleteVendor
<1>. HIDE DEF k
<1>4. Shape(k) /\ Secured(k)
  BY <1>1, <1>2 DEF Shape, Secured
<1>. QED
  BY <1>2, <1>3, <1>4, Turns

LEMMA DeleteRequestKeeps ==
  ASSUME PaperInv, NEW w \in Workers, DeleteRequest(w)
  PROVE  PaperInv'
<1>1. PICK r \in Requests :
        /\ ~ \E q \in Quotes : Exists(quote[q].status) /\ quote[q].request = r
        /\ TurnTo(w, [NoJob EXCEPT !.pc = "deleteRequest", !.request = r])
  BY DEF DeleteRequest
<1>. DEFINE k == [NoJob EXCEPT !.pc = "deleteRequest", !.request = r]
<1>2. JobRecord(k) /\ k.pc = "deleteRequest" /\ k.request = r
  BY IdleJob DEF JobRecord, DocumentSteps
<1>3. TurnTo(w, k) /\ UNCHANGED documents
  BY <1>1 DEF DeleteRequest
<1>. HIDE DEF k
<1>4. Shape(k) /\ Secured(k)
  BY <1>1, <1>2 DEF Shape, Secured
<1>. QED
  BY <1>2, <1>3, <1>4, Turns

LEMMA CreateQuoteKeeps ==
  ASSUME PaperInv, NEW w \in Workers, CreateQuote(w)
  PROVE  PaperInv'
<1>1. PICK r \in Requests :
        Exists(request[r]) /\ TurnTo(w, [NoJob EXCEPT !.pc = "insertQuote", !.request = r])
  BY DEF CreateQuote
<1>. DEFINE k == [NoJob EXCEPT !.pc = "insertQuote", !.request = r]
<1>2. JobRecord(k) /\ k.pc = "insertQuote" /\ k.request = r
  BY IdleJob DEF JobRecord, DocumentSteps
<1>3. TurnTo(w, k) /\ UNCHANGED documents
  BY <1>1 DEF CreateQuote
<1>. HIDE DEF k
<1>4. Shape(k) /\ Secured(k)
  BY <1>1, <1>2 DEF Shape, Secured
<1>. QED
  BY <1>2, <1>3, <1>4, Turns

LEMMA DeleteQuoteKeeps ==
  ASSUME PaperInv, NEW w \in Workers, DeleteQuote(w)
  PROVE  PaperInv'
<1>1. PICK q \in Quotes :
        /\ quote[q].status # "Selected"
        /\ TurnTo(w, [NoJob EXCEPT !.pc = "deleteQuote", !.quote = q])
  BY DEF DeleteQuote
<1>. DEFINE k == [NoJob EXCEPT !.pc = "deleteQuote", !.quote = q]
<1>2. JobRecord(k) /\ k.pc = "deleteQuote" /\ k.quote = q
  BY IdleJob DEF JobRecord, DocumentSteps
<1>3. TurnTo(w, k) /\ UNCHANGED documents
  BY <1>1 DEF DeleteQuote
<1>. HIDE DEF k
<1>4. Shape(k) /\ Secured(k)
  BY <1>1, <1>2 DEF Shape, Secured
<1>. QED
  BY <1>2, <1>3, <1>4, Turns

LEMMA CreateOrderKeeps ==
  ASSUME PaperInv, NEW w \in Workers, CreateOrder(w)
  PROVE  PaperInv'
<1>1. PICK v \in Vendors, q \in Quotes \cup {None} :
        /\ Exists(vendor[v])
        /\ q # None => Exists(quote[q].status)
        /\ TurnTo(w, [NoJob EXCEPT !.pc = IF q = None THEN "insertOrder" ELSE "selectQuote",
                                   !.vendor = v, !.quote = q])
  BY DEF CreateOrder
<1>. DEFINE s == IF q = None THEN "insertOrder" ELSE "selectQuote"
            k == [NoJob EXCEPT !.pc = s, !.vendor = v, !.quote = q]
<1>2. JobRecord(k) /\ k.pc = s /\ k.vendor = v /\ k.quote = q
  <2>1. s \in DocumentSteps
    BY DEF DocumentSteps
  <2>. HIDE DEF s
  <2>. QED
    BY <2>1, IdleJob DEF JobRecord
<1>3. TurnTo(w, k) /\ UNCHANGED documents
  BY <1>1 DEF CreateOrder
<1>. HIDE DEF k
<1>4. Shape(k)
  BY <1>2 DEF Shape
<1>5. Secured(k)
  BY <1>1, <1>2 DEF Secured
<1>. QED
  BY <1>2, <1>3, <1>4, <1>5, Turns

LEMMA DeleteOrderKeeps ==
  ASSUME PaperInv, NEW w \in Workers, DeleteOrder(w)
  PROVE  PaperInv'
<1>1. PICK o \in Orders :
        /\ ~ \E x \in Receipts : receipt[x].status = "kept" /\ receipt[x].order = o
        /\ TurnTo(w, [NoJob EXCEPT !.pc = "deleteOrder", !.order = o])
  BY DEF DeleteOrder
<1>. DEFINE k == [NoJob EXCEPT !.pc = "deleteOrder", !.order = o]
<1>2. JobRecord(k) /\ k.pc = "deleteOrder" /\ k.order = o
  BY IdleJob DEF JobRecord, DocumentSteps
<1>3. TurnTo(w, k) /\ UNCHANGED documents
  BY <1>1 DEF DeleteOrder
<1>. HIDE DEF k
<1>4. Shape(k) /\ Secured(k)
  BY <1>1, <1>2 DEF Shape, Secured
<1>. QED
  BY <1>2, <1>3, <1>4, Turns

LEMMA CreateReceiptKeeps ==
  ASSUME PaperInv, NEW w \in Workers, CreateReceipt(w)
  PROVE  PaperInv'
<1>1. PICK o \in Orders, list \in Deliveries :
        /\ Exists(order[o].status)
        /\ TurnTo(w, [NoJob EXCEPT !.pc = "insertReceipt", !.order = o, !.lines = list])
  BY DEF CreateReceipt
<1>. DEFINE k == [NoJob EXCEPT !.pc = "insertReceipt", !.order = o, !.lines = list]
<1>2. JobRecord(k) /\ k.pc = "insertReceipt" /\ k.order = o
  BY IdleJob DEF JobRecord, DocumentSteps
<1>3. TurnTo(w, k) /\ UNCHANGED documents
  BY <1>1 DEF CreateReceipt
<1>. HIDE DEF k
<1>4. Shape(k) /\ Secured(k)
  BY <1>1, <1>2 DEF Shape, Secured
<1>. QED
  BY <1>2, <1>3, <1>4, Turns

\* Requests that end as they are.
LEMMA Ends ==
  ASSUME PaperInv, NEW w \in Workers, Finish(w), upset \subseteq upset',
         vendor' = vendor, request' = request, quote' = quote, order' = order,
         receipt' = receipt, entered' = entered, edited' = edited
  PROVE  PaperInv'
BY IdleJob, JobMoves DEF Finish

-----------------------------------------------------------------------------
(* Requests that write                                                     *)

\* The worker that writes ends, the others go on.
LEMMA Finished ==
  ASSUME PaperInv, NEW w \in Workers, Finish(w), upset' = upset
  PROVE  /\ Jobs' /\ Told'
         /\ job'[w] = NoJob /\ \A v \in Workers \ {w} : job'[v] = job[v]
<1>1. job'[w] = NoJob /\ \A v \in Workers \ {w} : job'[v] = job[v]
  BY DEF PaperInv, Jobs, Finish, Become
<1>2. Jobs'
  <2>1. DOMAIN job' = Workers /\ job' = [v \in Workers |-> job'[v]]
    BY DEF PaperInv, Jobs, Finish, Become
  <2>2. \A v \in Workers : JobRecord(job'[v]) /\ Shape(job'[v])
    BY <1>1, IdleJob DEF PaperInv, Jobs
  <2>. QED
    BY <2>1, <2>2 DEF Jobs, JobRecord, Shape
<1>3. Told'
  BY <1>1, IdleJob DEF PaperInv, Told, Papers
<1>. QED
  BY <1>1, <1>2, <1>3

LEMMA RemoveVendorKeeps ==
  ASSUME PaperInv, NEW w \in Workers, RemoveVendor(w)
  PROVE  PaperInv'
<1>. DEFINE d == job[w].vendor
<1>1. d \in Vendors /\ Secured(job[w]) /\ job[w].pc = "deleteVendor"
  BY DEF PaperInv, Jobs, Shape, RemoveVendor, At
<1>2. /\ vendor' = [vendor EXCEPT ![d] = "deleted"]
      /\ UNCHANGED <<upset, request, quote, order, receipt, entered, edited>> /\ Finish(w)
  BY DEF RemoveVendor
<1>3. d # None /\ d \in Papers(job[w])
  BY <1>1, ProcurementAssumption DEF Papers
<1>. HIDE DEF d
<1>4. Jobs' /\ Told' /\ job'[w] = NoJob /\ \A v \in Workers \ {w} : job'[v] = job[v]
  BY <1>2, Finished
<1>5. Tables'
  BY <1>1, <1>2 DEF PaperInv, Tables, RowOfReceipt
<1>6. \A v \in Vendors \ {d} : vendor'[v] = vendor[v]
  BY <1>1, <1>2 DEF PaperInv, Tables
<1>7. Named'
  BY <1>2 DEF PaperInv, Named, Exists
<1>8. ASSUME NEW v \in Workers PROVE Secured(job[v])'
  <2>1. CASE v = w
    BY <1>4, <2>1, IdleJob DEF Secured, StockSteps
  <2>2. CASE v # w
    <3>1. job'[v] = job[v] /\ Secured(job[v]) /\ Shape(job[v])
      BY <1>4, <2>2 DEF PaperInv, Jobs
    <3>2. job[v].vendor = d => d \in upset
      BY <1>3, <2>2 DEF PaperInv, Told, Papers
    <3>. QED
      BY <1>2, <1>6, <3>1, <3>2 DEF Secured, Shape, Exists
  <2>. QED
    BY <2>1, <2>2
<1>9. ParentsKept'
  <2>1. \A o \in Orders : Exists(order[o].status) /\ order[o].vendor \notin upset =>
          order[o].vendor # d
    BY <1>1 DEF Secured, d
  <2>. QED
    BY <1>2, <1>6, <2>1 DEF PaperInv, ParentsKept, Named, Exists
<1>10. StatusByReceipt'
  BY <1>2 DEF PaperInv, StatusByReceipt
<1>. QED
  BY <1>4, <1>5, <1>7, <1>8, <1>9, <1>10 DEF PaperInv

LEMMA RemoveRequestKeeps ==
  ASSUME PaperInv, NEW w \in Workers, RemoveRequest(w)
  PROVE  PaperInv'
<1>. DEFINE d == job[w].request
<1>1. d \in Requests /\ Secured(job[w]) /\ job[w].pc = "deleteRequest"
  BY DEF PaperInv, Jobs, Shape, RemoveRequest, At
<1>2. /\ request' = [request EXCEPT ![d] = "deleted"]
      /\ UNCHANGED <<upset, vendor, quote, order, receipt, entered, edited>> /\ Finish(w)
  BY DEF RemoveRequest
<1>3. d # None /\ d \in Papers(job[w])
  BY <1>1, ProcurementAssumption DEF Papers
<1>. HIDE DEF d
<1>4. Jobs' /\ Told' /\ job'[w] = NoJob /\ \A v \in Workers \ {w} : job'[v] = job[v]
  BY <1>2, Finished
<1>5. Tables'
  BY <1>1, <1>2 DEF PaperInv, Tables, RowOfReceipt, Gone
<1>6. \A r \in Requests \ {d} : request'[r] = request[r]
  BY <1>1, <1>2 DEF PaperInv, Tables
<1>7. Named'
  BY <1>2 DEF PaperInv, Named, Exists
<1>8. ASSUME NEW v \in Workers PROVE Secured(job[v])'
  <2>1. CASE v = w
    BY <1>4, <2>1, IdleJob DEF Secured
  <2>2. CASE v # w
    <3>1. job'[v] = job[v] /\ Secured(job[v]) /\ Shape(job[v])
      BY <1>4, <2>2 DEF PaperInv, Jobs
    <3>2. job[v].request = d => d \in upset
      BY <1>3, <2>2 DEF PaperInv, Told, Papers
    <3>. QED
      BY <1>2, <1>6, <3>1, <3>2 DEF Secured, Shape, Exists
  <2>. QED
    BY <2>1, <2>2
<1>9. ParentsKept'
  <2>1. \A q \in Quotes : Exists(quote[q].status) /\ quote[q].request \notin upset =>
          quote[q].request # d
    BY <1>1 DEF Secured, d
  <2>. QED
    BY <1>2, <1>6, <2>1 DEF PaperInv, ParentsKept, Named, Exists
<1>10. StatusByReceipt'
  BY <1>2 DEF PaperInv, StatusByReceipt
<1>. QED
  BY <1>4, <1>5, <1>7, <1>8, <1>9, <1>10 DEF PaperInv

LEMMA RemoveQuoteKeeps ==
  ASSUME PaperInv, NEW w \in Workers, RemoveQuote(w)
  PROVE  PaperInv'
<1>. DEFINE d == job[w].quote
<1>1. d \in Quotes /\ Secured(job[w]) /\ job[w].pc = "deleteQuote"
  BY DEF PaperInv, Jobs, Shape, RemoveQuote, At
<1>2. /\ quote' = [quote EXCEPT ![d] = NoQuote("deleted")]
      /\ UNCHANGED <<upset, vendor, request, order, receipt, entered, edited>> /\ Finish(w)
  BY DEF RemoveQuote
<1>3. d # None /\ d \in Papers(job[w])
  BY <1>1, ProcurementAssumption DEF Papers
<1>. HIDE DEF d
<1>4. Jobs' /\ Told' /\ job'[w] = NoJob /\ \A v \in Workers \ {w} : job'[v] = job[v]
  BY <1>2, Finished
<1>5. /\ \A q \in Quotes \ {d} : quote'[q] = quote[q]
      /\ quote'[d].status = "deleted"
  BY <1>1, <1>2 DEF PaperInv, Tables, NoQuote
<1>6. Tables'
  <2>1. NoQuote("deleted") \in [status : QuoteStatus \cup Gone, request : Requests \cup {None}]
    BY DEF NoQuote, Gone
  <2>. QED
    BY <1>1, <1>2, <2>1 DEF PaperInv, Tables, RowOfReceipt
<1>7. ~Exists(quote'[d].status)
  BY <1>5 DEF Exists
<1>8. Named'
  BY <1>2, <1>5, <1>7 DEF PaperInv, Named, Exists
<1>9. ASSUME NEW v \in Workers PROVE Secured(job[v])'
  <2>1. CASE v = w
    BY <1>4, <2>1, IdleJob DEF Secured
  <2>2. CASE v # w
    <3>1. job'[v] = job[v] /\ Secured(job[v]) /\ Shape(job[v]) /\ JobRecord(job[v])
      BY <1>4, <2>2 DEF PaperInv, Jobs
    <3>2. job[v].quote = d => d \in upset
      BY <1>3, <2>2 DEF PaperInv, Told, Papers
    <3>3. job[v].quote \in Quotes \cup {None}
      BY <3>1 DEF JobRecord
    <3>. QED
      BY <1>2, <1>5, <1>7, <3>1, <3>2, <3>3 DEF Secured, Shape, Exists
  <2>. QED
    BY <2>1, <2>2
<1>10. ParentsKept'
  <2>1. \A o \in Orders : Exists(order[o].status) /\ order[o].quote \notin upset \cup edited =>
          order[o].quote # d
    BY <1>1, <1>3 DEF Secured, PaperInv, ParentsKept, d
  <2>2. \A o \in Orders : order[o].quote \in Quotes \cup {None}
    BY DEF PaperInv, Tables
  <2>. QED
    BY <1>2, <1>5, <1>7, <2>1, <2>2 DEF PaperInv, ParentsKept, Exists
<1>11. StatusByReceipt'
  BY <1>2 DEF PaperInv, StatusByReceipt
<1>. QED
  BY <1>4, <1>6, <1>8, <1>9, <1>10, <1>11 DEF PaperInv

LEMMA RemoveOrderKeeps ==
  ASSUME PaperInv, NEW w \in Workers, RemoveOrder(w)
  PROVE  PaperInv'
<1>. DEFINE d == job[w].order
<1>1. d \in Orders /\ Secured(job[w]) /\ job[w].pc = "deleteOrder"
  BY DEF PaperInv, Jobs, Shape, RemoveOrder, At
<1>2. /\ order' = [order EXCEPT ![d] = NoOrder("deleted")]
      /\ UNCHANGED <<upset, vendor, request, quote, receipt, entered, edited>> /\ Finish(w)
  BY DEF RemoveOrder
<1>3. d # None /\ d \in Papers(job[w])
  BY <1>1, ProcurementAssumption DEF Papers
<1>. HIDE DEF d
<1>4. Jobs' /\ Told' /\ job'[w] = NoJob /\ \A v \in Workers \ {w} : job'[v] = job[v]
  BY <1>2, Finished
<1>5. /\ \A o \in Orders \ {d} : order'[o] = order[o]
      /\ order'[d].status = "deleted"
  BY <1>1, <1>2 DEF PaperInv, Tables, NoOrder
<1>6. Tables'
  <2>1. NoOrder("deleted") \in [status : OrderStatus \cup Gone, vendor : Vendors \cup {None},
                                quote : Quotes \cup {None}]
    BY DEF NoOrder, Gone
  <2>. QED
    BY <1>1, <1>2, <2>1 DEF PaperInv, Tables, RowOfReceipt
<1>7. ~Exists(order'[d].status)
  BY <1>5 DEF Exists
<1>8. Named'
  BY <1>2, <1>5, <1>7 DEF PaperInv, Named, Exists
<1>9. ASSUME NEW v \in Workers PROVE Secured(job[v])'
  <2>1. CASE v = w
    BY <1>4, <2>1, IdleJob DEF Secured
  <2>2. CASE v # w
    <3>1. job'[v] = job[v] /\ Secured(job[v]) /\ Shape(job[v])
      BY <1>4, <2>2 DEF PaperInv, Jobs
    <3>2. job[v].order = d => d \in upset
      BY <1>3, <2>2 DEF PaperInv, Told, Papers
    <3>. QED
      BY <1>2, <1>5, <1>7, <3>1, <3>2 DEF Secured, Shape, Exists
  <2>. QED
    BY <2>1, <2>2
<1>10. ParentsKept'
  <2>1. \A x \in Receipts : receipt[x].status = "kept" /\ receipt[x].order \notin upset =>
          receipt[x].order # d
    BY <1>1 DEF Secured, d
  <2>. QED
    BY <1>2, <1>5, <1>7, <2>1 DEF PaperInv, ParentsKept, Named, Exists
<1>11. StatusByReceipt'
  BY <1>2, <1>5 DEF PaperInv, StatusByReceipt
<1>. QED
  BY <1>4, <1>6, <1>8, <1>9, <1>10, <1>11 DEF PaperInv

LEMMA InsertQuoteKeeps ==
  ASSUME PaperInv, NEW w \in Workers, InsertQuote(w)
  PROVE  PaperInv'
<1>. DEFINE r == job[w].request
            new == [status |-> "Submitted", request |-> r]
<1>1. r \in Requests /\ Secured(job[w]) /\ job[w].pc = "insertQuote"
  BY DEF PaperInv, Jobs, Shape, InsertQuote, At
<1>2. PICK q \in Quotes : quote[q].status = "none" /\ quote' = [quote EXCEPT ![q] = new]
  BY DEF InsertQuote
<1>3. UNCHANGED <<upset, vendor, request, order, receipt, entered, edited>> /\ Finish(w)
  BY DEF InsertQuote
<1>4. r \notin upset => Exists(request[r])
  BY <1>1 DEF Secured
<1>. HIDE DEF r
<1>5. /\ new \in [status : QuoteStatus \cup Gone, request : Requests \cup {None}]
      /\ new.status = "Submitted" /\ new.request = r
  BY <1>1 DEF QuoteStatus
<1>. HIDE DEF new
<1>6. Jobs' /\ Told' /\ job'[w] = NoJob /\ \A v \in Workers \ {w} : job'[v] = job[v]
  BY <1>3, Finished
<1>7. quote'[q] = new /\ \A p \in Quotes \ {q} : quote'[p] = quote[p]
  BY <1>2 DEF PaperInv, Tables
<1>8. Tables'
  BY <1>2, <1>3, <1>5 DEF PaperInv, Tables, RowOfReceipt
<1>9. Named'
  BY <1>1, <1>3, <1>5, <1>7 DEF PaperInv, Named, Exists
<1>10. ASSUME NEW v \in Workers PROVE Secured(job[v])'
  <2>1. CASE v = w
    BY <1>6, <2>1, IdleJob DEF Secured
  <2>2. CASE v # w
    <3>1. job'[v] = job[v] /\ Secured(job[v]) /\ Shape(job[v]) /\ JobRecord(job[v])
      BY <1>6, <2>2 DEF PaperInv, Jobs
    <3>2. job[v].quote \in Quotes \cup {None}
      BY <3>1 DEF JobRecord
    <3>3. job[v].pc = "deleteRequest" /\ job[v].request = r => r \in upset
      <4>1. r \in Papers(job[w])
        BY <1>1, ProcurementAssumption DEF Papers, r
      <4>. QED
        BY <2>2, <4>1 DEF PaperInv, Told, Papers
    <3>. QED
      BY <1>2, <1>3, <1>5, <1>7, <3>1, <3>2, <3>3 DEF Secured, Shape, Exists
  <2>. QED
    BY <2>1, <2>2
<1>11. ParentsKept'
  <2>1. \A o \in Orders : order[o].quote \in Quotes \cup {None}
    BY DEF PaperInv, Tables
  <2>. QED
    BY <1>2, <1>3, <1>4, <1>5, <1>7, <2>1 DEF PaperInv, ParentsKept, Exists
<1>12. StatusByReceipt'
  BY <1>3 DEF PaperInv, StatusByReceipt
<1>. QED
  BY <1>6, <1>8, <1>9, <1>10, <1>11, <1>12 DEF PaperInv

LEMMA InsertOrderKeeps ==
  ASSUME PaperInv, NEW w \in Workers, InsertOrder(w)
  PROVE  PaperInv'
<1>. DEFINE d == job[w].vendor
            q == job[w].quote
            new == [status |-> "Draft", vendor |-> d, quote |-> q]
<1>1. d \in Vendors /\ q \in Quotes \cup {None} /\ Secured(job[w]) /\ job[w].pc = "insertOrder"
  BY DEF PaperInv, Jobs, Shape, JobRecord, InsertOrder, At
<1>2. PICK o \in Orders : order[o].status = "none" /\ order' = [order EXCEPT ![o] = new]
  BY DEF InsertOrder
<1>3. UNCHANGED <<upset, vendor, request, quote, receipt, entered, edited>> /\ Finish(w)
  BY DEF InsertOrder
<1>4. /\ d \notin upset => Exists(vendor[d])
      /\ q # None /\ q \notin upset \cup edited => quote[q].status = "Selected"
  BY <1>1 DEF Secured
<1>5. d \in Papers(job[w]) /\ d # None
  BY <1>1, ProcurementAssumption DEF Papers
<1>. HIDE DEF d, q
<1>6. /\ new \in [status : OrderStatus \cup Gone, vendor : Vendors \cup {None},
                  quote : Quotes \cup {None}]
      /\ new.status = "Draft" /\ new.vendor = d /\ new.quote = q
  BY <1>1 DEF OrderStatus
<1>. HIDE DEF new
<1>7. Jobs' /\ Told' /\ job'[w] = NoJob /\ \A v \in Workers \ {w} : job'[v] = job[v]
  BY <1>3, Finished
<1>8. order'[o] = new /\ \A p \in Orders \ {o} : order'[p] = order[p]
  BY <1>2 DEF PaperInv, Tables
<1>9. Tables'
  BY <1>2, <1>3, <1>6 DEF PaperInv, Tables, RowOfReceipt
<1>10. Named'
  BY <1>1, <1>3, <1>6, <1>8 DEF PaperInv, Named, Exists
<1>11. ASSUME NEW v \in Workers PROVE Secured(job[v])'
  <2>1. CASE v = w
    BY <1>7, <2>1, IdleJob DEF Secured
  <2>2. CASE v # w
    <3>1. job'[v] = job[v] /\ Secured(job[v]) /\ Shape(job[v])
      BY <1>7, <2>2 DEF PaperInv, Jobs
    <3>2. job[v].pc = "deleteVendor" /\ job[v].vendor = d => d \in upset
      BY <1>5, <2>2 DEF PaperInv, Told, Papers
    <3>. QED
      BY <1>2, <1>3, <1>6, <1>8, <3>1, <3>2 DEF Secured, Shape, Exists
  <2>. QED
    BY <2>1, <2>2
<1>12. ParentsKept'
  BY <1>2, <1>3, <1>4, <1>6, <1>8 DEF PaperInv, ParentsKept, Named, Exists
<1>13. StatusByReceipt'
  BY <1>3, <1>6, <1>8 DEF PaperInv, StatusByReceipt
<1>. QED
  BY <1>7, <1>9, <1>10, <1>11, <1>12, <1>13 DEF PaperInv

\* The request that writes goes on as k.
LEMMA GoneOn ==
  ASSUME PaperInv, NEW w \in Workers, NEW k, JobRecord(k), Shape(k), Become(w, k), upset' = upset,
         Papers(k) \subseteq Papers(job[w])
  PROVE  /\ Jobs' /\ Told'
         /\ job'[w] = k /\ \A v \in Workers \ {w} : job'[v] = job[v]
<1>1. job'[w] = k /\ \A v \in Workers \ {w} : job'[v] = job[v]
  BY DEF PaperInv, Jobs, Become
<1>2. Jobs'
  <2>1. DOMAIN job' = Workers /\ job' = [v \in Workers |-> job'[v]]
    BY DEF PaperInv, Jobs, Become
  <2>2. \A v \in Workers : JobRecord(job'[v]) /\ Shape(job'[v])
    BY <1>1 DEF PaperInv, Jobs
  <2>. QED
    BY <2>1, <2>2 DEF Jobs, JobRecord, Shape
<1>3. Told'
  <2>1. ASSUME NEW u \in Workers, NEW v \in Workers, u # v
        PROVE  Papers(job'[u]) \cap Papers(job'[v]) \subseteq upset'
    <3>1. Papers(job'[u]) \subseteq Papers(job[u]) /\ Papers(job'[v]) \subseteq Papers(job[v])
      BY <1>1
    <3>2. Papers(job[u]) \cap Papers(job[v]) \subseteq upset
      BY <2>1 DEF PaperInv, Told
    <3>. QED
      BY <3>1, <3>2
  <2>. QED
    BY <2>1 DEF Told, Papers
<1>. QED
  BY <1>1, <1>2, <1>3

LEMMA SelectQuoteKeeps ==
  ASSUME PaperInv, NEW w \in Workers, SelectQuote(w)
  PROVE  PaperInv'
<1>. DEFINE j == job[w]
            q == j.quote
            k == [j EXCEPT !.pc = "insertOrder"]
<1>1. JobRecord(j) /\ q \in Quotes /\ j.vendor \in Vendors /\ Secured(j) /\ j.pc = "selectQuote"
  BY DEF PaperInv, Jobs, Shape, SelectQuote, At
<1>2. /\ quote' = IF Exists(quote[q].status) THEN [quote EXCEPT ![q].status = "Selected"] ELSE quote
      /\ UNCHANGED <<upset, vendor, request, order, receipt, entered, edited>> /\ Become(w, k)
  BY DEF SelectQuote, Advance
<1>3. /\ JobRecord(k) /\ k.pc = "insertOrder" /\ k.order = j.order /\ k.quote = j.quote
      /\ k.vendor = j.vendor /\ k.request = j.request
  <2>. HIDE DEF j
  <2>. QED
    BY <1>1 DEF JobRecord, DocumentSteps
<1>. HIDE DEF k
<1>4. Shape(k) /\ Papers(k) \subseteq Papers(j)
  BY <1>1, <1>3 DEF Shape, Papers
<1>5. Jobs' /\ Told' /\ job'[w] = k /\ \A v \in Workers \ {w} : job'[v] = job[v]
  BY <1>2, <1>3, <1>4, GoneOn
<1>6. /\ j.vendor \notin upset => Exists(vendor[j.vendor])
      /\ q \notin upset => Exists(quote[q].status)
  BY <1>1 DEF Secured
<1>7. q \in Papers(j)
  BY <1>1, ProcurementAssumption DEF Papers
<1>. HIDE DEF j, q
<1>8. /\ \A p \in Quotes \ {q} : quote'[p] = quote[p]
      /\ quote'[q].request = quote[q].request
      /\ quote'[q].status = IF Exists(quote[q].status) THEN "Selected" ELSE quote[q].status
      /\ quote' \in [Quotes -> [status : QuoteStatus \cup Gone, request : Requests \cup {None}]]
  BY <1>1, <1>2 DEF PaperInv, Tables, QuoteStatus
<1>9. /\ \A p \in Quotes : quote'[p].request = quote[p].request
      /\ \A p \in Quotes : Exists(quote'[p].status) <=> Exists(quote[p].status)
  BY <1>8 DEF Exists
<1>10. Tables'
  BY <1>2, <1>8 DEF PaperInv, Tables, RowOfReceipt
<1>11. Named'
  BY <1>2, <1>9 DEF PaperInv, Named, Exists
<1>12. ASSUME NEW v \in Workers PROVE Secured(job[v])'
  <2>1. CASE v = w
    BY <1>2, <1>3, <1>5, <1>6, <1>8, <2>1 DEF Secured, Exists, j, q
  <2>2. CASE v # w
    <3>1. job'[v] = job[v] /\ Secured(job[v]) /\ Shape(job[v]) /\ JobRecord(job[v])
      BY <1>5, <2>2 DEF PaperInv, Jobs
    <3>2. job[v].quote \in Quotes \cup {None}
      BY <3>1 DEF JobRecord
    <3>3. job[v].quote = q => q \in upset
      BY <1>1, <1>7, <2>2, ProcurementAssumption DEF PaperInv, Told, Papers, j
    <3>. QED
      BY <1>2, <1>8, <1>9, <3>1, <3>2, <3>3 DEF Secured, Shape, Exists
  <2>. QED
    BY <2>1, <2>2
<1>13. ParentsKept'
  <2>1. \A o \in Orders : order[o].quote \in Quotes \cup {None}
    BY DEF PaperInv, Tables
  <2>2. \A p \in Quotes : quote[p].status = "Selected" => quote'[p].status = "Selected"
    BY <1>8 DEF Exists
  <2>. QED
    BY <1>2, <1>9, <2>1, <2>2 DEF PaperInv, ParentsKept, Exists
<1>14. StatusByReceipt'
  BY <1>2 DEF PaperInv, StatusByReceipt
<1>. QED
  BY <1>5, <1>10, <1>11, <1>12, <1>13, <1>14 DEF PaperInv

LEMMA InsertReceiptKeeps ==
  ASSUME PaperInv, NEW w \in Workers, InsertReceipt(w)
  PROVE  PaperInv'
<1>. DEFINE j == job[w]
            o == j.order
            new == [status |-> "kept", order |-> o, lines |-> j.lines]
<1>1. JobRecord(j) /\ o \in Orders /\ Secured(j) /\ j.pc = "insertReceipt"
  BY DEF PaperInv, Jobs, Shape, InsertReceipt, At
<1>2. PICK x \in Receipts :
        /\ receipt[x].status = "none" /\ receipt' = [receipt EXCEPT ![x] = new]
        /\ entered' = [entered EXCEPT ![x] = receipt'[x]]
        /\ Become(w, [j EXCEPT !.pc = "orderStatus", !.receipt = x, !.order = None])
  BY DEF InsertReceipt
<1>. DEFINE k == [j EXCEPT !.pc = "orderStatus", !.receipt = x, !.order = None]
<1>3. UNCHANGED <<upset, vendor, request, quote, order, edited>> /\ Become(w, k)
  BY <1>2 DEF InsertReceipt
<1>4. /\ JobRecord(k) /\ k.pc = "orderStatus" /\ k.order = None /\ k.quote = j.quote
      /\ k.vendor = j.vendor /\ k.request = j.request /\ k.receipt = x /\ k.lines = j.lines
  <2>. HIDE DEF j
  <2>. QED
    BY <1>1 DEF JobRecord, DocumentSteps
<1>. HIDE DEF k
<1>5. Shape(k) /\ Papers(k) \subseteq Papers(j)
  BY <1>4 DEF Shape, Papers
<1>6. Jobs' /\ Told' /\ job'[w] = k /\ \A v \in Workers \ {w} : job'[v] = job[v]
  BY <1>3, <1>4, <1>5, GoneOn
<1>7. o \notin upset => Exists(order[o].status)
  BY <1>1 DEF Secured
<1>8. o \in Papers(j) /\ o # None
  BY <1>1, ProcurementAssumption DEF Papers
<1>9. RowOfReceipt(new) /\ new.status = "kept" /\ new.order = o /\ new.lines = j.lines
  BY <1>1 DEF RowOfReceipt
<1>. HIDE DEF new, o, j
<1>10. /\ receipt'[x] = new /\ \A y \in Receipts \ {x} : receipt'[y] = receipt[y]
       /\ entered'[x] = new /\ \A y \in Receipts \ {x} : entered'[y] = entered[y]
       /\ DOMAIN receipt' = Receipts /\ receipt' = [y \in Receipts |-> receipt'[y]]
       /\ DOMAIN entered' = Receipts /\ entered' = [y \in Receipts |-> entered'[y]]
  BY <1>2 DEF PaperInv, Tables
<1>11. Tables'
  <2>1. \A y \in Receipts : RowOfReceipt(receipt'[y]) /\ RowOfReceipt(entered'[y])
    BY <1>9, <1>10 DEF PaperInv, Tables
  <2>. QED
    BY <1>3, <1>10, <2>1 DEF PaperInv, Tables, RowOfReceipt
<1>12. Named'
  BY <1>1, <1>3, <1>9, <1>10 DEF PaperInv, Named, Exists
<1>13. entered[x].status = "none" /\ entered[x].order = None
  BY <1>2 DEF PaperInv, Named
<1>14. ASSUME NEW v \in Workers PROVE Secured(job[v])'
  <2>1. CASE v = w
    BY <1>4, <1>6, <1>9, <1>10, <2>1 DEF Secured
  <2>2. CASE v # w
    <3>1. job'[v] = job[v] /\ Secured(job[v]) /\ Shape(job[v])
      BY <1>6, <2>2 DEF PaperInv, Jobs
    <3>2. job[v].order = o => o \in upset
      BY <1>8, <2>2 DEF PaperInv, Told, Papers, j
    <3>3. job[v].pc = "orderStatus" => job[v].receipt \in Receipts \ {x}
      BY <1>13, <3>1 DEF Secured, Shape
    <3>. QED
      BY <1>3, <1>9, <1>10, <3>1, <3>2, <3>3 DEF Secured, Shape, Exists
  <2>. QED
    BY <2>1, <2>2
<1>15. ParentsKept'
  BY <1>3, <1>7, <1>9, <1>10 DEF PaperInv, ParentsKept, Exists
<1>16. StatusByReceipt'
  <2>1. \A p \in Orders, y \in Receipts : entered[y].order = p => entered'[y] = entered[y]
    BY <1>10, <1>13, ProcurementAssumption
  <2>. QED
    BY <1>3, <2>1 DEF PaperInv, StatusByReceipt, fullyReceived, anyReceived
<1>. QED
  BY <1>6, <1>11, <1>12, <1>14, <1>15, <1>16 DEF PaperInv

\* The receipt the status follows is a witness for it.
LEMMA UpdateOrderStatusKeeps ==
  ASSUME PaperInv, NEW w \in Workers, UpdateOrderStatus(w)
  PROVE  PaperInv'
<1>. DEFINE j == job[w]
            x == j.receipt
            o == entered[x].order
            k == [j EXCEPT !.pc = "lines"]
<1>1. /\ JobRecord(j) /\ x \in Receipts /\ Secured(j) /\ j.pc = "orderStatus"
  BY DEF PaperInv, Jobs, Shape, UpdateOrderStatus, At
<1>2. /\ order' = IF Exists(order[o].status)
                  THEN [order EXCEPT ![o].status = StatusAfter(j.lines, @)] ELSE order
      /\ UNCHANGED <<upset, vendor, request, quote, receipt, entered, edited>> /\ Become(w, k)
  BY DEF UpdateOrderStatus, Advance
<1>3. /\ JobRecord(k) /\ k.pc = "lines" /\ k.order = j.order /\ k.quote = j.quote
      /\ k.vendor = j.vendor /\ k.request = j.request
  <2>. HIDE DEF j
  <2>. QED
    BY <1>1 DEF JobRecord, StockSteps
<1>. HIDE DEF k
<1>4. Shape(k) /\ Papers(k) \subseteq Papers(j)
  BY <1>3 DEF Shape, Papers
<1>5. Jobs' /\ Told' /\ job'[w] = k /\ \A v \in Workers \ {w} : job'[v] = job[v]
  BY <1>2, <1>3, <1>4, GoneOn
<1>6. entered[x].lines = j.lines /\ o \in Orders
  BY <1>1 DEF Secured, PaperInv, Named
<1>. DEFINE s == StatusAfter(j.lines, order[o].status)
<1>7. /\ fullyReceived(j.lines) => s = "Completed"
      /\ ~fullyReceived(j.lines) /\ anyReceived(j.lines) => s = "PartiallyReceived"
      /\ ~fullyReceived(j.lines) /\ ~anyReceived(j.lines) => s = order[o].status
  BY DEF StatusAfter
<1>. HIDE DEF j, x, o, s
<1>8. /\ \A p \in Orders \ {o} : order'[p] = order[p]
      /\ order'[o].vendor = order[o].vendor /\ order'[o].quote = order[o].quote
      /\ order'[o].status = IF Exists(order[o].status) THEN s ELSE order[o].status
      /\ order' \in [Orders -> [status : OrderStatus \cup Gone, vendor : Vendors \cup {None},
                                quote : Quotes \cup {None}]]
  <2>1. s \in OrderStatus \cup Gone
    BY <1>6, <1>7 DEF PaperInv, Tables, OrderStatus
  <2>2. order' = IF Exists(order[o].status) THEN [order EXCEPT ![o].status = s] ELSE order
    BY <1>2 DEF s
  <2>. QED
    BY <1>6, <2>1, <2>2 DEF PaperInv, Tables
<1>9. /\ \A p \in Orders : order'[p].vendor = order[p].vendor /\ order'[p].quote = order[p].quote
      /\ \A p \in Orders : Exists(order'[p].status) <=> Exists(order[p].status)
  BY <1>7, <1>8 DEF Exists
<1>10. Tables'
  BY <1>2, <1>8 DEF PaperInv, Tables, RowOfReceipt
<1>11. Named'
  BY <1>2, <1>9 DEF PaperInv, Named, Exists
<1>12. ASSUME NEW v \in Workers PROVE Secured(job[v])'
  <2>1. CASE v = w
    BY <1>3, <1>5, <2>1 DEF Secured
  <2>2. CASE v # w
    <3>1. job'[v] = job[v] /\ Secured(job[v]) /\ Shape(job[v])
      BY <1>5, <2>2 DEF PaperInv, Jobs
    <3>. QED
      BY <1>2, <1>9, <3>1 DEF Secured, Shape, Exists
  <2>. QED
    BY <2>1, <2>2
<1>13. ParentsKept'
  BY <1>2, <1>9 DEF PaperInv, ParentsKept, Named, Exists
<1>14. StatusByReceipt'
  <2>1. ASSUME NEW p \in Orders \ edited
        PROVE  /\ order'[p].status = "Completed" =>
                    \E y \in Receipts : entered[y].order = p /\ fullyReceived(entered[y].lines)
               /\ order'[p].status = "PartiallyReceived" =>
                    \E y \in Receipts : /\ entered[y].order = p
                                        /\ anyReceived(entered[y].lines)
                                        /\ ~fullyReceived(entered[y].lines)
    <3>1. CASE order'[p].status = order[p].status
      BY <2>1, <3>1 DEF PaperInv, StatusByReceipt
    <3>2. CASE order'[p].status # order[p].status
      <4>1. p = o /\ order'[p].status = s /\ entered[x].order = p
        BY <1>8, <2>1, <3>2 DEF o
      <4>. QED
        BY <1>1, <1>6, <1>7, <3>2, <4>1
    <3>. QED
      BY <3>1, <3>2
  <2>. QED
    BY <1>2, <2>1 DEF StatusByReceipt, fullyReceived, anyReceived
<1>. QED
  BY <1>5, <1>10, <1>11, <1>12, <1>13, <1>14 DEF PaperInv

-----------------------------------------------------------------------------
(* Requests that write one row, once                                       *)

LEMMA Untouched ==
  ASSUME PaperInv, AtOnce
  PROVE  Jobs' /\ Told' /\ job' = job /\ upset' = upset
BY DEF PaperInv, Jobs, JobRecord, Shape, Told, Papers, AtOnce, stockVars

LEMMA VendorKeeps ==
  ASSUME PaperInv, NEW v \in Vendors, CreateVendor(v)
  PROVE  PaperInv'
<1>1. /\ vendor' = [vendor EXCEPT ![v] = "kept"] /\ AtOnce
      /\ UNCHANGED <<request, quote, order, receipt, entered, edited>>
  BY DEF CreateVendor
<1>2. Jobs' /\ Told' /\ job' = job /\ upset' = upset
  BY <1>1, Untouched
<1>3. \A u \in Vendors : Exists(vendor[u]) => Exists(vendor'[u])
  BY <1>1 DEF PaperInv, Tables, Exists
<1>4. Tables'
  BY <1>1 DEF PaperInv, Tables, RowOfReceipt
<1>5. Named'
  BY <1>1 DEF PaperInv, Named, Exists
<1>6. ASSUME NEW w \in Workers PROVE Secured(job[w])'
  <2>1. Secured(job[w]) /\ Shape(job[w])
    BY DEF PaperInv, Jobs
  <2>. QED
    BY <1>1, <1>2, <1>3, <2>1 DEF Secured, Shape, Exists
<1>7. ParentsKept'
  BY <1>1, <1>2, <1>3 DEF PaperInv, ParentsKept, Named, Exists
<1>8. StatusByReceipt'
  BY <1>1 DEF PaperInv, StatusByReceipt
<1>. QED
  BY <1>2, <1>4, <1>5, <1>6, <1>7, <1>8 DEF PaperInv

\* Operators set no request to what is not a status.
LEMMA RequestKeeps ==
  ASSUME PaperInv, NEW r \in Requests, CreateRequest(r) \/ UpdateRequest(r)
  PROVE  PaperInv'
<1>1. PICK s \in RequestStatus : request' = [request EXCEPT ![r] = s]
  BY ProcurementAssumption DEF CreateRequest, UpdateRequest, RequestStatus
<1>2. AtOnce /\ UNCHANGED <<vendor, quote, order, receipt, entered, edited>>
  BY DEF CreateRequest, UpdateRequest
<1>3. Jobs' /\ Told' /\ job' = job /\ upset' = upset
  BY <1>2, Untouched
<1>4. \A p \in Requests : Exists(request[p]) => Exists(request'[p])
  BY <1>1 DEF PaperInv, Tables, Exists, RequestStatus
<1>5. Tables'
  BY <1>1, <1>2 DEF PaperInv, Tables, RowOfReceipt
<1>6. Named'
  BY <1>2 DEF PaperInv, Named, Exists
<1>7. ASSUME NEW w \in Workers PROVE Secured(job[w])'
  <2>1. Secured(job[w]) /\ Shape(job[w])
    BY DEF PaperInv, Jobs
  <2>. QED
    BY <1>2, <1>3, <1>4, <2>1 DEF Secured, Shape, Exists
<1>8. ParentsKept'
  BY <1>2, <1>3, <1>4 DEF PaperInv, ParentsKept, Named, Exists
<1>9. StatusByReceipt'
  BY <1>2 DEF PaperInv, StatusByReceipt
<1>. QED
  BY <1>3, <1>5, <1>6, <1>7, <1>8, <1>9 DEF PaperInv

LEMMA UpdateQuoteKeeps ==
  ASSUME PaperInv, NEW q \in Quotes, UpdateQuote(q)
  PROVE  PaperInv'
<1>1. PICK s \in QuoteEdits : quote' = [quote EXCEPT ![q].status = s]
  BY DEF UpdateQuote
<1>2. /\ AtOnce /\ UNCHANGED <<vendor, request, order, receipt, entered>>
      /\ edited' = edited \cup {q} /\ Exists(quote[q].status)
  BY DEF UpdateQuote
<1>3. Jobs' /\ Told' /\ job' = job /\ upset' = upset
  BY <1>2, Untouched
<1>4. s \in QuoteStatus
  BY ProcurementAssumption
<1>5. /\ \A p \in Quotes \ {q} : quote'[p] = quote[p]
      /\ quote'[q].request = quote[q].request /\ quote'[q].status = s
      /\ quote' \in [Quotes -> [status : QuoteStatus \cup Gone, request : Requests \cup {None}]]
  BY <1>1, <1>4 DEF PaperInv, Tables
<1>6. /\ \A p \in Quotes : quote'[p].request = quote[p].request
      /\ \A p \in Quotes : Exists(quote'[p].status) <=> Exists(quote[p].status)
  BY <1>2, <1>4, <1>5 DEF Exists, QuoteStatus
<1>7. Tables'
  BY <1>2, <1>5 DEF PaperInv, Tables, RowOfReceipt
<1>8. Named'
  BY <1>2, <1>6 DEF PaperInv, Named, Exists
<1>9. ASSUME NEW w \in Workers PROVE Secured(job[w])'
  <2>1. Secured(job[w]) /\ Shape(job[w]) /\ job[w].quote \in Quotes \cup {None}
    BY DEF PaperInv, Jobs, JobRecord
  <2>. QED
    BY <1>2, <1>3, <1>5, <1>6, <2>1 DEF Secured, Shape, Exists
<1>10. ParentsKept'
  <2>1. \A o \in Orders : order[o].quote \in Quotes \cup {None}
    BY DEF PaperInv, Tables
  <2>. QED
    BY <1>2, <1>3, <1>5, <1>6, <2>1 DEF PaperInv, ParentsKept, Exists
<1>11. StatusByReceipt'
  BY <1>2 DEF PaperInv, StatusByReceipt
<1>. QED
  BY <1>3, <1>7, <1>8, <1>9, <1>10, <1>11 DEF PaperInv

LEMMA UpdateOrderKeeps ==
  ASSUME PaperInv, NEW o \in Orders, UpdateOrder(o)
  PROVE  PaperInv'
<1>1. PICK s \in OrderEdits : order' = [order EXCEPT ![o].status = s]
  BY DEF UpdateOrder
<1>2. /\ AtOnce /\ UNCHANGED <<vendor, request, quote, receipt, entered>>
      /\ edited' = edited \cup {o} /\ Exists(order[o].status)
  BY DEF UpdateOrder
<1>3. Jobs' /\ Told' /\ job' = job /\ upset' = upset
  BY <1>2, Untouched
<1>4. s \in OrderStatus
  BY ProcurementAssumption
<1>5. /\ \A p \in Orders \ {o} : order'[p] = order[p]
      /\ order'[o].vendor = order[o].vendor /\ order'[o].quote = order[o].quote
      /\ order'[o].status = s
      /\ order' \in [Orders -> [status : OrderStatus \cup Gone, vendor : Vendors \cup {None},
                                quote : Quotes \cup {None}]]
  BY <1>1, <1>4 DEF PaperInv, Tables
<1>6. /\ \A p \in Orders : order'[p].vendor = order[p].vendor /\ order'[p].quote = order[p].quote
      /\ \A p \in Orders : Exists(order'[p].status) <=> Exists(order[p].status)
  BY <1>2, <1>4, <1>5 DEF Exists, OrderStatus
<1>7. Tables'
  BY <1>2, <1>5 DEF PaperInv, Tables, RowOfReceipt
<1>8. Named'
  BY <1>2, <1>6 DEF PaperInv, Named, Exists
<1>9. ASSUME NEW w \in Workers PROVE Secured(job[w])'
  <2>1. Secured(job[w]) /\ Shape(job[w])
    BY DEF PaperInv, Jobs
  <2>. QED
    BY <1>2, <1>3, <1>6, <2>1 DEF Secured, Shape, Exists
<1>10. ParentsKept'
  BY <1>2, <1>3, <1>6 DEF PaperInv, ParentsKept, Named, Exists
<1>11. StatusByReceipt'
  BY <1>2, <1>5 DEF PaperInv, StatusByReceipt
<1>. QED
  BY <1>3, <1>7, <1>8, <1>9, <1>10, <1>11 DEF PaperInv

LEMMA ReceiptKeeps ==
  ASSUME PaperInv, NEW x \in Receipts, UpdateReceipt(x) \/ DeleteReceipt(x)
  PROVE  PaperInv'
<1>1. /\ AtOnce /\ UNCHANGED <<vendor, request, quote, order, entered, edited>>
      /\ receipt[x].status = "kept"
  BY DEF UpdateReceipt, DeleteReceipt
<1>2. Jobs' /\ Told' /\ job' = job /\ upset' = upset
  BY <1>1, Untouched
<1>3. PICK new : receipt' = [receipt EXCEPT ![x] = new] /\ RowOfReceipt(new)
                 /\ \/ new.status = "kept" /\ new.order = receipt[x].order
                    \/ new.status = "deleted"
  <2>1. ASSUME UpdateReceipt(x)
        PROVE  \E new : receipt' = [receipt EXCEPT ![x] = new] /\ RowOfReceipt(new)
                        /\ new.status = "kept" /\ new.order = receipt[x].order
    <3>1. PICK list : receipt' = [receipt EXCEPT ![x].lines = list]
      BY <2>1 DEF UpdateReceipt
    <3>. DEFINE new == [receipt[x] EXCEPT !.lines = list]
    <3>2. RowOfReceipt(receipt[x])
      BY DEF PaperInv, Tables
    <3>3. RowOfReceipt(new) /\ new.status = "kept" /\ new.order = receipt[x].order
      BY <1>1, <3>2 DEF RowOfReceipt
    <3>. QED
      BY <3>1, <3>3
  <2>2. ASSUME DeleteReceipt(x)
        PROVE  \E new : receipt' = [receipt EXCEPT ![x] = new] /\ RowOfReceipt(new)
                        /\ new.status = "deleted"
    <3>1. RowOfReceipt(NoReceipt("deleted")) /\ NoReceipt("deleted").status = "deleted"
      BY DEF RowOfReceipt, NoReceipt
    <3>. QED
      BY <2>2, <3>1 DEF DeleteReceipt
  <2>. QED
    BY <2>1, <2>2
<1>4. /\ receipt'[x] = new /\ \A y \in Receipts \ {x} : receipt'[y] = receipt[y]
      /\ DOMAIN receipt' = Receipts /\ receipt' = [y \in Receipts |-> receipt'[y]]
  BY <1>3 DEF PaperInv, Tables
<1>5. Tables'
  <2>1. \A y \in Receipts : RowOfReceipt(receipt'[y])
    BY <1>3, <1>4 DEF PaperInv, Tables
  <2>. QED
    BY <1>1, <1>4, <2>1 DEF PaperInv, Tables, RowOfReceipt
<1>6. Named'
  BY <1>1, <1>3, <1>4 DEF PaperInv, Named, Exists
<1>7. ASSUME NEW w \in Workers PROVE Secured(job[w])'
  <2>1. Secured(job[w]) /\ Shape(job[w])
    BY DEF PaperInv, Jobs
  <2>. QED
    BY <1>1, <1>2, <1>3, <1>4, <2>1 DEF Secured, Shape, Exists
<1>8. ParentsKept'
  BY <1>1, <1>2, <1>3, <1>4 DEF PaperInv, ParentsKept, Named, Exists
<1>9. StatusByReceipt'
  BY <1>1 DEF PaperInv, StatusByReceipt, fullyReceived, anyReceived
<1>. QED
  BY <1>2, <1>5, <1>6, <1>7, <1>8, <1>9 DEF PaperInv

-----------------------------------------------------------------------------

LEMMA DocumentsKeep ==
  ASSUME PaperInv, NEW w \in Workers, DocumentStep(w)
  PROVE  PaperInv'
<1>1. CASE DeleteVendor(w) \/ RemoveVendor(w)
  BY <1>1, DeleteVendorKeeps, RemoveVendorKeeps
<1>2. CASE DeleteRequest(w) \/ RemoveRequest(w)
  BY <1>2, DeleteRequestKeeps, RemoveRequestKeeps
<1>3. CASE CreateQuote(w) \/ InsertQuote(w) \/ DeleteQuote(w) \/ RemoveQuote(w)
  BY <1>3, CreateQuoteKeeps, InsertQuoteKeeps, DeleteQuoteKeeps, RemoveQuoteKeeps
<1>4. CASE CreateOrder(w) \/ SelectQuote(w) \/ InsertOrder(w)
  BY <1>4, CreateOrderKeeps, SelectQuoteKeeps, InsertOrderKeeps
<1>5. CASE DeleteOrder(w) \/ RemoveOrder(w)
  BY <1>5, DeleteOrderKeeps, RemoveOrderKeeps
<1>6. CASE CreateReceipt(w) \/ InsertReceipt(w) \/ UpdateOrderStatus(w)
  BY <1>6, CreateReceiptKeeps, InsertReceiptKeeps, UpdateOrderStatusKeeps
<1>7. CASE EndReceipt(w)
  BY <1>7, Ends DEF EndReceipt
<1>. QED
  BY <1>1, <1>2, <1>3, <1>4, <1>5, <1>6, <1>7 DEF DocumentStep

LEMMA PaperInit == Init => PaperInv
<1>. SUFFICES ASSUME Init PROVE PaperInv
  OBVIOUS
<1>1. /\ vendor = [v \in Vendors |-> "none"] /\ request = [r \in Requests |-> "none"]
      /\ quote = [q \in Quotes |-> NoQuote("none")] /\ order = [o \in Orders |-> NoOrder("none")]
      /\ receipt = [x \in Receipts |-> NoReceipt("none")]
      /\ entered = [x \in Receipts |-> NoReceipt("none")]
      /\ job = [w \in Workers |-> NoJob]
  BY DEF Init, StockInit
<1>2. /\ NoQuote("none") \in [status : QuoteStatus \cup Gone, request : Requests \cup {None}]
      /\ NoOrder("none") \in [status : OrderStatus \cup Gone, vendor : Vendors \cup {None},
                              quote : Quotes \cup {None}]
      /\ RowOfReceipt(NoReceipt("none"))
      /\ NoQuote("none").status = "none" /\ NoOrder("none").status = "none"
      /\ NoReceipt("none").status = "none" /\ NoReceipt("none").order = None
  BY DEF NoQuote, NoOrder, NoReceipt, RowOfReceipt, Gone
<1>3. Tables
  BY <1>1, <1>2 DEF Tables, Gone
<1>4. Jobs /\ Told /\ \A w \in Workers : Secured(job[w])
  BY <1>1, IdleJob DEF Jobs, Told
<1>5. Named
  BY <1>1, <1>2 DEF Named, Exists
<1>6. ParentsKept
  BY <1>1, <1>2 DEF ParentsKept, Exists
<1>7. StatusByReceipt
  BY <1>1, <1>2 DEF StatusByReceipt
<1>. QED
  BY <1>3, <1>4, <1>5, <1>6, <1>7 DEF PaperInv

LEMMA PaperStep == PaperInv /\ [Next]_vars => PaperInv'
<1>. SUFFICES ASSUME PaperInv, [Next]_vars PROVE PaperInv'
  OBVIOUS
<1>1. ASSUME NEW v \in Vendors, CreateVendor(v) PROVE PaperInv'
  BY <1>1, VendorKeeps
<1>2. ASSUME NEW r \in Requests, CreateRequest(r) \/ UpdateRequest(r) PROVE PaperInv'
  BY <1>2, RequestKeeps
<1>3. ASSUME NEW q \in Quotes, UpdateQuote(q) PROVE PaperInv'
  BY <1>3, UpdateQuoteKeeps
<1>4. ASSUME NEW o \in Orders, UpdateOrder(o) PROVE PaperInv'
  BY <1>4, UpdateOrderKeeps
<1>5. ASSUME NEW x \in Receipts, UpdateReceipt(x) \/ DeleteReceipt(x) PROVE PaperInv'
  BY <1>5, ReceiptKeeps
<1>6. ASSUME NEW w \in Workers, DocumentStep(w) PROVE PaperInv'
  BY <1>6, DocumentsKeep
<1>7. ASSUME NEW w \in Workers, StockStep(w) /\ UNCHANGED documents PROVE PaperInv'
  BY <1>7, StockKeeps
<1>8. ASSUME NEW w \in Workers, Fail(w) PROVE PaperInv'
  BY <1>8, Ends DEF Fail, documents
<1>9. CASE UNCHANGED vars
  <2>1. AtOnce /\ UNCHANGED documents
    BY <1>9 DEF vars, AtOnce
  <2>2. Jobs' /\ Told' /\ job' = job /\ upset' = upset
    BY <2>1, Untouched
  <2>3. Tables' /\ Named'
    BY <2>1 DEF PaperInv, Tables, RowOfReceipt, Named, Exists, documents
  <2>4. \A w \in Workers : Secured(job[w])'
    BY <2>1, <2>2 DEF PaperInv, Secured, Exists, documents
  <2>5. ParentsKept' /\ StatusByReceipt'
    BY <2>1, <2>2 DEF PaperInv, ParentsKept, StatusByReceipt, Exists, fullyReceived, anyReceived,
                      documents
  <2>. QED
    BY <2>2, <2>3, <2>4, <2>5 DEF PaperInv
<1>. QED
  BY <1>1, <1>2, <1>3, <1>4, <1>5, <1>6, <1>7, <1>8, <1>9 DEF Next

\* The documents and the requests about them keep the invariant.
THEOREM PapersCorrect == Spec => []PaperInv
BY PaperInit, PaperStep, PTL DEF Spec

\* No delete leaves behind a document that names what was deleted, unless it ran
\* while that document was being entered; for any number of documents and requests.
THEOREM ParentsKeptHolds == Spec => []ParentsKept
<1>1. PaperInv => ParentsKept
  BY DEF PaperInv
<1>. QED
  BY <1>1, PapersCorrect, PTL

\* An order nobody set by hand has the status one of its receipts gave it.
THEOREM StatusByReceiptHolds == Spec => []StatusByReceipt
<1>1. PaperInv => StatusByReceipt
  BY DEF PaperInv
<1>. QED
  BY <1>1, PapersCorrect, PTL

---- \* Stock, for any items, receipts and requests in flight
(***************************************************************************)
(* StockInv types the stock and the requests that move it.  LedgerInv is   *)
(* why HistoryExplainsStock holds: unless upset, an item is moved by one   *)
(* request at a time (Sole), that request's movement leads from the        *)
(* balance the history ends with (Carries), and the quantity on the item   *)
(* is that balance, or the request's once written (Explained).  ReceiptInv *)
(* is why ReceivedOnce holds: it says of a receipt half way which lines    *)
(* went to which items and what was moved for them (Midway).  The          *)
(* definitions named ...Does say what a step of a worker does to all that. *)
(***************************************************************************)

Move == [type : {"IN", "OUT", "ADJUST"}, qty : Int, balance : Int, receipt : Receipts \cup {None}]
ItemRow == [sku : Names \cup {None}, name : Names \cup {None}, qty : Int]

\* Where a request moves an item, is about to write one's label, or runs a receipt.
Moving    == {"write", "movement"}
Labelling == {"insert", "patch"}
OnReceipt == {"orderStatus", "lines", "insert", "write", "movement"}

StockJob(j) ==
  /\ j.item \in Items \cup {None} /\ j.move \in Move /\ j.lines \in Seq(ReceiptLine)
  /\ j.receipt \in Receipts \cup {None}
  /\ j.pc \in Moving \cup {"patch"} => j.item \in Items
  /\ j.pc \in Labelling => j.label[1] \in Names /\ j.label[2] \in Names
  /\ j.pc \in {"orderStatus", "lines"} => j.receipt \in Receipts
  /\ j.pc \notin OnReceipt => j.receipt = None
  /\ j.pc \in Moving \cup {"insert"} /\ j.receipt # None => j.lines # <<>>

\* An item that is there has a SKU; one that is not has no history, and nobody is
\* about it.
StockInv ==
  /\ item \in [Items -> ItemRow] /\ history \in [Items -> Seq(Move)]
  /\ DOMAIN into = Receipts /\ into = [x \in Receipts |-> into[x]]
  /\ \A w \in Workers : StockJob(job[w])
  /\ \A i \in Items : item[i].sku = None => item[i] = NoItem /\ history[i] = <<>>
  /\ \A w \in Workers : job[w].pc \in Moving \cup {"patch"} => Kept(job[w].item)

-----------------------------------------------------------------------------
(* What a step does.                                                       *)

\* The stock fields of the job a worker turns to, and that the others keep theirs.
Turned(w, pc, i, m, ls, x) ==
  /\ job'[w].pc = pc /\ job'[w].item = i /\ job'[w].move = m
  /\ job'[w].lines = ls /\ job'[w].receipt = x
  /\ \A v \in Workers \ {w} : job'[v] = job[v]
  /\ upset \subseteq upset'

Opening == Movement("IN", 0, 0, None)

LEMMA NoJobFields ==
  /\ NoJob.pc = "idle" /\ NoJob.item = None /\ NoJob.move = Opening /\ NoJob.lines = <<>>
  /\ NoJob.receipt = None /\ JobRecord(NoJob)
BY IdleJob DEF NoJob, Opening

\* Becoming a job moves no other.
LEMMA Becomes ==
  ASSUME PaperInv, NEW w \in Workers, NEW k, Become(w, k)
  PROVE  job'[w] = k /\ \A v \in Workers \ {w} : job'[v] = job[v]
BY DEF PaperInv, Jobs, Become

LEMMA JobIs == ASSUME PaperInv, NEW w \in Workers PROVE JobRecord(job[w])
BY DEF PaperInv, Jobs

\* No worker is left with anything of a receipt or of stock in hand.
LEMMA Finishes ==
  ASSUME PaperInv, NEW w \in Workers, Finish(w), upset \subseteq upset'
  PROVE  Turned(w, "idle", None, Opening, <<>>, None)
BY NoJobFields, Becomes DEF Finish, Turned

\* A request that works on documents, no receipt among them, goes on with documents:
\* it has no stock in hand, but perhaps the lines it came with.
OnPapers == {"idle"} \cup (DocumentSteps \ {"orderStatus"})

Aside(w) ==
  /\ job[w].pc \in OnPapers /\ job'[w].pc \in OnPapers
  /\ job'[w].item \in {None, job[w].item} /\ job'[w].move \in {Opening, job[w].move}
  /\ job'[w].lines \in Deliveries \cup {<<>>, job[w].lines}
  /\ job'[w].receipt \in {None, job[w].receipt}
  /\ \A v \in Workers \ {w} : job'[v] = job[v]
  /\ upset \subseteq upset'
  /\ UNCHANGED <<item, history, into, receipt, entered, counted>>

LEMMA DocumentBegins ==
  ASSUME PaperInv, NEW w \in Workers,
         \/ DeleteVendor(w) \/ DeleteRequest(w) \/ CreateQuote(w) \/ DeleteQuote(w)
         \/ CreateOrder(w) \/ DeleteOrder(w) \/ CreateReceipt(w)
  PROVE  Aside(w)
<1>. SUFFICES \E s \in DocumentSteps \ {"orderStatus"}, ls \in Deliveries \cup {<<>>} :
       Turned(w, s, None, Opening, ls, None)
  BY DEF Aside, Turned, OnPapers, At, documents, DeleteVendor, DeleteRequest, CreateQuote,
         DeleteQuote, CreateOrder, DeleteOrder, CreateReceipt
<1>1. ASSUME NEW s \in DocumentSteps \ {"orderStatus"}, NEW ls \in Deliveries \cup {<<>>},
             NEW o, NEW q, NEW r, NEW v, NEW k,
             k \in {[NoJob EXCEPT !.pc = s, !.vendor = v], [NoJob EXCEPT !.pc = s, !.request = r],
                    [NoJob EXCEPT !.pc = s, !.quote = q], [NoJob EXCEPT !.pc = s, !.order = o],
                    [NoJob EXCEPT !.pc = s, !.vendor = v, !.quote = q],
                    [NoJob EXCEPT !.pc = s, !.order = o, !.lines = ls]},
             TurnTo(w, k)
      PROVE  \E ks \in Deliveries \cup {<<>>} : Turned(w, s, None, Opening, ks, None)
  <2>1. /\ k.pc = s /\ k.item = None /\ k.move = Opening /\ k.receipt = None
        /\ k.lines \in Deliveries \cup {<<>>}
    <3>1. ASSUME k = [NoJob EXCEPT !.pc = s, !.vendor = v]
          PROVE  k.pc = s /\ k.item = None /\ k.move = Opening /\ k.receipt = None /\ k.lines = <<>>
      BY <3>1 DEF NoJob, Opening
    <3>2. ASSUME k = [NoJob EXCEPT !.pc = s, !.request = r]
          PROVE  k.pc = s /\ k.item = None /\ k.move = Opening /\ k.receipt = None /\ k.lines = <<>>
      BY <3>2 DEF NoJob, Opening
    <3>3. ASSUME k = [NoJob EXCEPT !.pc = s, !.quote = q]
          PROVE  k.pc = s /\ k.item = None /\ k.move = Opening /\ k.receipt = None /\ k.lines = <<>>
      BY <3>3 DEF NoJob, Opening
    <3>4. ASSUME k = [NoJob EXCEPT !.pc = s, !.order = o]
          PROVE  k.pc = s /\ k.item = None /\ k.move = Opening /\ k.receipt = None /\ k.lines = <<>>
      BY <3>4 DEF NoJob, Opening
    <3>5. ASSUME k = [NoJob EXCEPT !.pc = s, !.vendor = v, !.quote = q]
          PROVE  k.pc = s /\ k.item = None /\ k.move = Opening /\ k.receipt = None /\ k.lines = <<>>
      BY <3>5 DEF NoJob, Opening
    <3>6. ASSUME k = [NoJob EXCEPT !.pc = s, !.order = o, !.lines = ls]
          PROVE  k.pc = s /\ k.item = None /\ k.move = Opening /\ k.receipt = None /\ k.lines = ls
      BY <3>6 DEF NoJob, Opening
    <3>. QED
      BY <1>1, <3>1, <3>2, <3>3, <3>4, <3>5, <3>6
  <2>2. Become(w, k) /\ upset \subseteq upset'
    BY <1>1 DEF TurnTo
  <2>3. Turned(w, s, None, Opening, k.lines, None)
    BY <2>1, <2>2, Becomes DEF Turned
  <2>. QED
    BY <2>1, <2>3
<1>2. {"deleteVendor", "deleteRequest", "insertQuote", "deleteQuote", "selectQuote",
       "insertOrder", "deleteOrder", "insertReceipt"} \subseteq DocumentSteps \ {"orderStatus"}
  BY DEF DocumentSteps
<1>3. CASE DeleteVendor(w)
  BY <1>1, <1>2, <1>3 DEF DeleteVendor
<1>4. CASE DeleteRequest(w)
  BY <1>1, <1>2, <1>4 DEF DeleteRequest
<1>5. CASE CreateQuote(w)
  BY <1>1, <1>2, <1>5 DEF CreateQuote
<1>6. CASE DeleteQuote(w)
  BY <1>1, <1>2, <1>6 DEF DeleteQuote
<1>7. CASE CreateOrder(w)
  <2>1. PICK v, q : TurnTo(w, [NoJob EXCEPT !.pc = IF q = None THEN "insertOrder" ELSE "selectQuote",
                                           !.vendor = v, !.quote = q])
    BY <1>7 DEF CreateOrder
  <2>2. (IF q = None THEN "insertOrder" ELSE "selectQuote") \in DocumentSteps \ {"orderStatus"}
    BY <1>2
  <2>. QED
    BY <1>1, <1>7, <2>1, <2>2 DEF CreateOrder
<1>8. CASE DeleteOrder(w)
  BY <1>1, <1>2, <1>8 DEF DeleteOrder
<1>9. CASE CreateReceipt(w)
  BY <1>1, <1>2, <1>9 DEF CreateReceipt
<1>. QED
  BY <1>3, <1>4, <1>5, <1>6, <1>7, <1>8, <1>9

LEMMA DocumentGoesOn ==
  ASSUME PaperInv, NEW w \in Workers,
         \/ RemoveVendor(w) \/ RemoveRequest(w) \/ InsertQuote(w) \/ RemoveQuote(w)
         \/ SelectQuote(w) \/ InsertOrder(w) \/ RemoveOrder(w)
  PROVE  Aside(w)
<1>1. job[w].pc \in OnPapers /\ UNCHANGED <<item, history, into, upset, receipt, entered, counted>>
  BY DEF OnPapers, DocumentSteps, At, RemoveVendor, RemoveRequest, InsertQuote, RemoveQuote,
         SelectQuote, InsertOrder, RemoveOrder
<1>2. CASE Finish(w)
  BY <1>1, <1>2, Finishes DEF Aside, Turned, OnPapers
<1>3. CASE SelectQuote(w)
  <2>. DEFINE k == [job[w] EXCEPT !.pc = "insertOrder"]
  <2>1. /\ k.pc = "insertOrder" /\ k.item = job[w].item /\ k.move = job[w].move
        /\ k.lines = job[w].lines /\ k.receipt = job[w].receipt
    BY JobIs DEF JobRecord
  <2>2. Become(w, k)
    BY <1>3 DEF SelectQuote, Advance
  <2>. HIDE DEF k
  <2>. QED
    BY <1>1, <2>1, <2>2, Becomes DEF Aside, OnPapers, DocumentSteps
<1>. QED
  BY <1>2, <1>3 DEF RemoveVendor, RemoveRequest, InsertQuote, RemoveQuote, InsertOrder, RemoveOrder

InsertReceiptDoes(w) == \E x \in Receipts :
  /\ job[w].pc = "insertReceipt" /\ receipt[x].status = "none"
  /\ receipt'[x].status = "kept" /\ entered'[x].lines = job[w].lines
  /\ \A y \in Receipts \ {x} : receipt'[y] = receipt[y] /\ entered'[y] = entered[y]
  /\ Turned(w, "orderStatus", job[w].item, job[w].move, job[w].lines, x)
  /\ UNCHANGED <<item, history, into, counted>>

LEMMA InsertReceiptIs ==
  ASSUME PaperInv, NEW w \in Workers, InsertReceipt(w) PROVE InsertReceiptDoes(w)
<1>. DEFINE j == job[w]
<1>1. PICK x \in Receipts :
        /\ receipt[x].status = "none"
        /\ receipt' = [receipt EXCEPT ![x] =
                         [status |-> "kept", order |-> j.order, lines |-> j.lines]]
        /\ entered' = [entered EXCEPT ![x] = receipt'[x]]
        /\ Become(w, [j EXCEPT !.pc = "orderStatus", !.receipt = x, !.order = None])
  BY DEF InsertReceipt
<1>. DEFINE k == [j EXCEPT !.pc = "orderStatus", !.receipt = x, !.order = None]
<1>2. /\ k.pc = "orderStatus" /\ k.item = j.item /\ k.move = j.move /\ k.lines = j.lines
      /\ k.receipt = x
  BY JobIs DEF JobRecord
<1>3. Become(w, k)
  BY <1>1
<1>. HIDE DEF k
<1>4. Turned(w, "orderStatus", j.item, j.move, j.lines, x)
  BY <1>2, <1>3, Becomes DEF Turned, InsertReceipt
<1>5. DOMAIN receipt = Receipts /\ DOMAIN entered = Receipts
  BY DEF PaperInv, Tables
<1>6. /\ receipt'[x].status = "kept" /\ entered'[x].lines = j.lines
      /\ \A y \in Receipts \ {x} : receipt'[y] = receipt[y] /\ entered'[y] = entered[y]
  BY <1>1, <1>5
<1>. QED
  BY <1>1, <1>4, <1>6 DEF InsertReceipt, At, InsertReceiptDoes

UpdateOrderStatusDoes(w) ==
  /\ job[w].pc = "orderStatus"
  /\ Turned(w, "lines", job[w].item, job[w].move, job[w].lines, job[w].receipt)
  /\ UNCHANGED <<item, history, into, receipt, entered, counted>>

LEMMA UpdateOrderStatusIs ==
  ASSUME PaperInv, NEW w \in Workers, UpdateOrderStatus(w) PROVE UpdateOrderStatusDoes(w)
<1>. DEFINE k == [job[w] EXCEPT !.pc = "lines"]
<1>1. /\ k.pc = "lines" /\ k.item = job[w].item /\ k.move = job[w].move
      /\ k.lines = job[w].lines /\ k.receipt = job[w].receipt
  BY JobIs DEF JobRecord
<1>2. Become(w, k)
  BY DEF UpdateOrderStatus, Advance
<1>. HIDE DEF k
<1>. QED
  BY <1>1, <1>2, Becomes DEF Turned, UpdateOrderStatus, UpdateOrderStatusDoes, At

EndReceiptDoes(w) ==
  /\ job[w].pc = "lines" /\ job[w].lines = <<>>
  /\ Turned(w, "idle", None, Opening, <<>>, None)
  /\ counted' = counted \cup {job[w].receipt}
  /\ UNCHANGED <<item, history, into, receipt, entered>>

LEMMA EndReceiptIs ==
  ASSUME PaperInv, NEW w \in Workers, EndReceipt(w) PROVE EndReceiptDoes(w)
BY Finishes DEF EndReceipt, EndReceiptDoes, At

FailDoes(w) ==
  /\ job[w].pc # "idle" /\ (job[w].pc = "movement" => job[w].item \in upset')
  /\ Turned(w, "idle", None, Opening, <<>>, None)
  /\ UNCHANGED <<item, history, into, receipt, entered, counted>>

LEMMA FailIs ==
  ASSUME PaperInv, NEW w \in Workers, Fail(w) PROVE FailDoes(w)
BY Finishes DEF Fail, FailDoes, At, documents

-----------------------------------------------------------------------------
(* Steps of stock.  Receipts as such are left alone.                       *)

\* No other request moves item i, or i is upset.
Alone(w, i) == \A v \in Workers \ {w} :
  job[v].pc \in Moving /\ job[v].item = i => i \in upset'

LEMMA TurnsTo ==
  ASSUME PaperInv, NEW w \in Workers, NEW k, TurnTo(w, k)
  PROVE  /\ job'[w] = k /\ \A v \in Workers \ {w} : job'[v] = job[v]
         /\ upset \subseteq upset'
         /\ k.pc \in Moving /\ k.item \in Items => Alone(w, k.item)
<1>1. Become(w, k) /\ upset \subseteq upset'
  BY DEF TurnTo
<1>2. ASSUME k.pc \in Moving, k.item \in Items, NEW v \in Workers \ {w},
             job[v].pc \in Moving, job[v].item = k.item
      PROVE  k.item \in upset'
  <2>1. k.item # None
    BY <1>2, StockAssumption
  <2>2. k.item \in Concerns(k) /\ k.item \in Concerns(job[v])
    BY <1>2, <2>1 DEF Concerns, Moving
  <2>. QED
    BY <2>2 DEF TurnTo
<1>. QED
  BY <1>1, <1>2, Becomes DEF Alone

CreateItemDoes(w) == \E l \in Labels, q \in Sums \cup {0} :
  /\ job[w].pc = "idle" /\ job'[w].label = l
  /\ Turned(w, "insert", None, Movement("IN", q, q, None), <<>>, None)
  /\ UNCHANGED <<item, history, into>>

LEMMA CreateItemIs ==
  ASSUME PaperInv, NEW w \in Workers, CreateItem(w) PROVE CreateItemDoes(w)
<1>1. PICK l \in Labels, q \in Sums \cup {0} :
        TurnTo(w, [NoJob EXCEPT !.pc = "insert", !.label = l, !.move = Movement("IN", q, q, None)])
  BY DEF CreateItem
<1>. DEFINE m == Movement("IN", q, q, None)
            k == [NoJob EXCEPT !.pc = "insert", !.label = l, !.move = m]
<1>2. /\ k.pc = "insert" /\ k.item = None /\ k.move = m /\ k.lines = <<>> /\ k.receipt = None
      /\ k.label = l
  BY NoJobFields DEF NoJob
<1>3. TurnTo(w, k)
  BY <1>1
<1>. HIDE DEF k
<1>4. Turned(w, "insert", None, m, <<>>, None) /\ job'[w].label = l
  BY <1>2, <1>3, TurnsTo DEF Turned
<1>. QED
  BY <1>4 DEF CreateItem, CreateItemDoes, At

UpdateItemDoes(w) == \E i \in Items, l \in Labels :
  /\ job[w].pc = "idle" /\ Kept(i) /\ job'[w].label = l
  /\ Turned(w, "patch", i, Opening, <<>>, None)
  /\ UNCHANGED <<item, history, into>>

LEMMA UpdateItemIs ==
  ASSUME PaperInv, NEW w \in Workers, UpdateItem(w) PROVE UpdateItemDoes(w)
<1>1. PICK i \in Items, l \in Labels :
        Kept(i) /\ TurnTo(w, [NoJob EXCEPT !.pc = "patch", !.label = l, !.item = i])
  BY DEF UpdateItem
<1>. DEFINE k == [NoJob EXCEPT !.pc = "patch", !.label = l, !.item = i]
<1>2. /\ k.pc = "patch" /\ k.item = i /\ k.move = Opening /\ k.lines = <<>> /\ k.receipt = None
      /\ k.label = l
  BY NoJobFields DEF NoJob
<1>3. TurnTo(w, k)
  BY <1>1
<1>. HIDE DEF k
<1>4. Turned(w, "patch", i, Opening, <<>>, None) /\ job'[w].label = l
  BY <1>2, <1>3, TurnsTo DEF Turned
<1>. QED
  BY <1>1, <1>4 DEF UpdateItem, UpdateItemDoes, At

AdjustDoes(w) == \E i \in Items, type \in {"IN", "OUT", "ADJUST"}, q \in Sums :
  /\ job[w].pc = "idle" /\ Kept(i) /\ Alone(w, i)
  /\ Turned(w, "write", i, Adjusted(type, q, item[i].qty), <<>>, None)
  /\ UNCHANGED <<item, history, into>>

LEMMA AdjustIs ==
  ASSUME PaperInv, NEW w \in Workers, Adjust(w) PROVE AdjustDoes(w)
<1>1. PICK i \in Items, type \in {"IN", "OUT", "ADJUST"}, q \in Sums :
        Kept(i) /\ TurnTo(w, [NoJob EXCEPT !.pc = "write", !.item = i,
                                           !.move = Adjusted(type, q, item[i].qty)])
  BY DEF Adjust
<1>. DEFINE m == Adjusted(type, q, item[i].qty)
            k == [NoJob EXCEPT !.pc = "write", !.item = i, !.move = m]
<1>. HIDE DEF m
<1>2. k.pc = "write" /\ k.item = i /\ k.move = m /\ k.lines = <<>> /\ k.receipt = None
  BY NoJobFields DEF NoJob
<1>3. TurnTo(w, k)
  BY <1>1 DEF m
<1>. HIDE DEF k
<1>4. Turned(w, "write", i, m, <<>>, None) /\ Alone(w, i)
  BY <1>2, <1>3, TurnsTo DEF Turned, Moving
<1>. QED
  BY <1>1, <1>4 DEF Adjust, AdjustDoes, At, m

\* The item a worker inserts, with a quantity.
Inserted(w, i, q) ==
  /\ i \in Items /\ ~Kept(i)
  /\ item' = [item EXCEPT ![i] = [sku |-> job[w].label[1], name |-> job[w].label[2], qty |-> q]]

InsertItemDoes(w) == \E i \in Items :
  /\ job[w].pc = "insert" /\ job[w].receipt = None
  /\ Inserted(w, i, job[w].move.qty)
  /\ IF job[w].move.qty > 0
     THEN Turned(w, "movement", i, job[w].move, job[w].lines, None)
     ELSE Turned(w, "idle", None, Opening, <<>>, None)
  /\ UNCHANGED <<history, into, upset>>

LEMMA InsertItemIs ==
  ASSUME PaperInv, NEW w \in Workers, InsertItem(w) PROVE InsertItemDoes(w)
<1>1. PICK i \in Items :
        /\ Inserted(w, i, job[w].move.qty)
        /\ IF job[w].move.qty > 0
           THEN Become(w, [job[w] EXCEPT !.pc = "movement", !.item = i])
           ELSE Finish(w)
  BY DEF InsertItem, Inserted
<1>. DEFINE k == [job[w] EXCEPT !.pc = "movement", !.item = i]
<1>2. /\ k.pc = "movement" /\ k.item = i /\ k.move = job[w].move /\ k.lines = job[w].lines
      /\ k.receipt = job[w].receipt
  BY JobIs DEF JobRecord
<1>3. job[w].move.qty > 0 => Become(w, k)
  BY <1>1
<1>. HIDE DEF k
<1>4. job[w].move.qty > 0 => Turned(w, "movement", i, job[w].move, job[w].lines, None)
  BY <1>2, <1>3, Becomes DEF Turned, InsertItem
<1>5. ~(job[w].move.qty > 0) => Turned(w, "idle", None, Opening, <<>>, None)
  BY <1>1, Finishes DEF InsertItem
<1>. QED
  BY <1>1, <1>4, <1>5 DEF InsertItem, InsertItemDoes, At

PatchItemDoes(w) ==
  /\ job[w].pc = "patch"
  /\ item' = [item EXCEPT ![job[w].item].sku = job[w].label[1],
                          ![job[w].item].name = job[w].label[2]]
  /\ Turned(w, "idle", None, Opening, <<>>, None)
  /\ UNCHANGED <<history, into, upset>>

LEMMA PatchItemIs ==
  ASSUME PaperInv, NEW w \in Workers, PatchItem(w) PROVE PatchItemDoes(w)
BY Finishes DEF PatchItem, PatchItemDoes, At

WriteQuantityDoes(w) ==
  /\ job[w].pc = "write"
  /\ item' = [item EXCEPT ![job[w].item].qty = job[w].move.balance]
  /\ Turned(w, "movement", job[w].item, job[w].move, job[w].lines, job[w].receipt)
  /\ UNCHANGED <<history, into, upset>>

LEMMA WriteQuantityIs ==
  ASSUME PaperInv, NEW w \in Workers, WriteQuantity(w) PROVE WriteQuantityDoes(w)
<1>. DEFINE k == [job[w] EXCEPT !.pc = "movement"]
<1>1. /\ k.pc = "movement" /\ k.item = job[w].item /\ k.move = job[w].move
      /\ k.lines = job[w].lines /\ k.receipt = job[w].receipt
  BY JobIs DEF JobRecord
<1>2. Become(w, k)
  BY DEF WriteQuantity, Advance
<1>. HIDE DEF k
<1>. QED
  BY <1>1, <1>2, Becomes DEF Turned, WriteQuantity, WriteQuantityDoes, At

RecordMovementDoes(w) ==
  /\ job[w].pc = "movement"
  /\ history' = [history EXCEPT ![job[w].item] = Append(@, job[w].move)]
  /\ IF job[w].receipt = None THEN Turned(w, "idle", None, Opening, <<>>, None)
     ELSE Turned(w, "lines", None, job[w].move, Tail(job[w].lines), job[w].receipt)
  /\ UNCHANGED <<item, into, upset>>

\* A receipt's request is after its movement where it is between lines.
LEMMA RecordMovementIs ==
  ASSUME PaperInv, NEW w \in Workers, RecordMovement(w) PROVE RecordMovementDoes(w)
<1>. DEFINE ls == Tail(job[w].lines)
            k == [job[w] EXCEPT !.pc = "lines", !.item = None, !.lines = ls]
<1>. HIDE DEF ls
<1>1. /\ k.pc = "lines" /\ k.item = None /\ k.move = job[w].move
      /\ k.lines = ls /\ k.receipt = job[w].receipt
  BY JobIs DEF JobRecord
<1>2. job[w].receipt # None => Become(w, k)
  BY DEF RecordMovement, ls
<1>. HIDE DEF k
<1>3. job[w].receipt # None => Turned(w, "lines", None, job[w].move, ls, job[w].receipt)
  BY <1>1, <1>2, Becomes DEF Turned, RecordMovement
<1>4. job[w].receipt = None => Turned(w, "idle", None, Opening, <<>>, None)
  BY Finishes DEF RecordMovement
<1>. QED
  BY <1>3, <1>4 DEF RecordMovement, RecordMovementDoes, At, ls

\* A request at a line of its receipt.
AtLine(w) == job[w].pc = "lines" /\ job[w].lines # <<>>

SkipLineDoes(w) ==
  /\ AtLine(w) /\ accepted(Head(job[w].lines)) = 0
  /\ Turned(w, "lines", job[w].item, job[w].move, Tail(job[w].lines), job[w].receipt)
  /\ UNCHANGED <<item, history, into>>

\* Both a line skipped and a line that is applied already leave the rest.
LEMMA NextLine ==
  ASSUME PaperInv, NEW w \in Workers, job[w].pc = "lines", upset \subseteq upset',
         Become(w, [job[w] EXCEPT !.lines = Tail(@)])
  PROVE  Turned(w, "lines", job[w].item, job[w].move, Tail(job[w].lines), job[w].receipt)
<1>. DEFINE ls == Tail(job[w].lines)
            k == [job[w] EXCEPT !.lines = ls]
<1>. HIDE DEF ls
<1>1. /\ k.pc = "lines" /\ k.item = job[w].item /\ k.move = job[w].move
      /\ k.lines = ls /\ k.receipt = job[w].receipt
  BY JobIs DEF JobRecord
<1>2. Become(w, k)
  BY DEF ls
<1>. HIDE DEF k
<1>3. Turned(w, "lines", job[w].item, job[w].move, ls, job[w].receipt)
  BY <1>1, <1>2, Becomes DEF Turned
<1>. QED
  BY <1>3 DEF ls

LEMMA SkipLineIs ==
  ASSUME PaperInv, NEW w \in Workers, SkipLine(w) PROVE SkipLineDoes(w)
BY NextLine DEF SkipLine, SkipLineDoes, AtLine, At

ApplyLineDoes(w) ==
  /\ AtLine(w) /\ accepted(Head(job[w].lines)) > 0
  /\ \E i \in Items :
       /\ Kept(i) /\ GoesTo(w, i)
       /\ LET a == accepted(Head(job[w].lines)) IN
          IF Referenced(job[w].receipt, i)
          THEN Turned(w, "lines", job[w].item, job[w].move, Tail(job[w].lines), job[w].receipt)
          ELSE /\ Turned(w, "write", i, Movement("IN", a, item[i].qty + a, job[w].receipt),
                         job[w].lines, job[w].receipt)
               /\ Alone(w, i)
  /\ UNCHANGED <<item, history>>

LEMMA ApplyLineIs ==
  ASSUME PaperInv, NEW w \in Workers, ApplyLine(w) PROVE ApplyLineDoes(w)
<1>. DEFINE a == accepted(Head(job[w].lines))
<1>. HIDE DEF a
<1>1. PICK i \in Found(Head(job[w].lines).item) :
        /\ GoesTo(w, i)
        /\ IF Referenced(job[w].receipt, i)
           THEN TurnTo(w, [job[w] EXCEPT !.lines = Tail(@)])
           ELSE TurnTo(w, [job[w] EXCEPT !.pc = "write", !.item = i,
                             !.move = Movement("IN", a, item[i].qty + a, job[w].receipt)])
  BY DEF ApplyLine, a
<1>2. i \in Items /\ Kept(i)
  BY DEF Found, BySku, ByName
<1>. DEFINE m == Movement("IN", a, item[i].qty + a, job[w].receipt)
            k == [job[w] EXCEPT !.pc = "write", !.item = i, !.move = m]
<1>. HIDE DEF m
<1>3. /\ k.pc = "write" /\ k.item = i /\ k.move = m
      /\ k.lines = job[w].lines /\ k.receipt = job[w].receipt
  BY JobIs DEF JobRecord
<1>4. ~Referenced(job[w].receipt, i) => TurnTo(w, k)
  BY <1>1 DEF m
<1>. HIDE DEF k
<1>5. ~Referenced(job[w].receipt, i) =>
        Turned(w, "write", i, m, job[w].lines, job[w].receipt) /\ Alone(w, i)
  BY <1>2, <1>3, <1>4, TurnsTo DEF Turned, Moving
<1>6. Referenced(job[w].receipt, i) =>
        Turned(w, "lines", job[w].item, job[w].move, Tail(job[w].lines), job[w].receipt)
  BY <1>1, NextLine DEF TurnTo, ApplyLine, At
<1>. QED
  BY <1>1, <1>2, <1>5, <1>6 DEF ApplyLine, ApplyLineDoes, AtLine, At, a, m

NewItemDoes(w) ==
  /\ AtLine(w) /\ accepted(Head(job[w].lines)) > 0
  /\ LET line == Head(job[w].lines)
         a == accepted(line) IN
     /\ job'[w].label = <<line.item, line.item>>
     /\ Turned(w, "insert", job[w].item, Movement("IN", a, a, job[w].receipt),
               job[w].lines, job[w].receipt)
  /\ UNCHANGED <<item, history, into>>

LEMMA NewItemIs ==
  ASSUME PaperInv, NEW w \in Workers, NewItem(w) PROVE NewItemDoes(w)
<1>. DEFINE line == Head(job[w].lines)
            a == accepted(line)
            l == <<line.item, line.item>>
            m == Movement("IN", a, a, job[w].receipt)
<1>1. TurnTo(w, [job[w] EXCEPT !.pc = "insert", !.label = l, !.move = m])
  BY DEF NewItem
<1>. HIDE DEF l, m
<1>. DEFINE k == [job[w] EXCEPT !.pc = "insert", !.label = l, !.move = m]
<1>2. /\ k.pc = "insert" /\ k.item = job[w].item /\ k.move = m /\ k.label = l
      /\ k.lines = job[w].lines /\ k.receipt = job[w].receipt
  BY JobIs DEF JobRecord
<1>3. TurnTo(w, k)
  BY <1>1
<1>. HIDE DEF k
<1>4. /\ job'[w].label = l
      /\ Turned(w, "insert", job[w].item, m, job[w].lines, job[w].receipt)
  BY <1>2, <1>3, TurnsTo DEF Turned
<1>. QED
  BY <1>4 DEF NewItem, NewItemDoes, AtLine, At, l, m

InsertNewItemDoes(w) == \E i \in Items :
  /\ job[w].pc = "insert" /\ job[w].receipt # None
  /\ Inserted(w, i, 0) /\ GoesTo(w, i)
  /\ Turned(w, "write", i, job[w].move, job[w].lines, job[w].receipt)
  /\ UNCHANGED <<history, upset>>

LEMMA InsertNewItemIs ==
  ASSUME PaperInv, NEW w \in Workers, InsertNewItem(w) PROVE InsertNewItemDoes(w)
<1>1. PICK i \in Items :
        /\ Inserted(w, i, 0) /\ GoesTo(w, i)
        /\ Become(w, [job[w] EXCEPT !.pc = "write", !.item = i])
  BY DEF InsertNewItem, Inserted
<1>. DEFINE k == [job[w] EXCEPT !.pc = "write", !.item = i]
<1>2. /\ k.pc = "write" /\ k.item = i /\ k.move = job[w].move /\ k.lines = job[w].lines
      /\ k.receipt = job[w].receipt
  BY JobIs DEF JobRecord
<1>3. Become(w, k)
  BY <1>1
<1>. HIDE DEF k
<1>4. Turned(w, "write", i, job[w].move, job[w].lines, job[w].receipt)
  BY <1>2, <1>3, Becomes DEF Turned, InsertNewItem
<1>. QED
  BY <1>1, <1>4 DEF InsertNewItem, InsertNewItemDoes, At

StockDoes(w) ==
  \/ CreateItemDoes(w) \/ InsertItemDoes(w) \/ UpdateItemDoes(w) \/ PatchItemDoes(w)
  \/ AdjustDoes(w) \/ WriteQuantityDoes(w) \/ RecordMovementDoes(w) \/ SkipLineDoes(w)
  \/ ApplyLineDoes(w) \/ NewItemDoes(w) \/ InsertNewItemDoes(w)

\* A worker's step.
WorkerDoes(w) ==
  \/ Aside(w) \/ InsertReceiptDoes(w) \/ UpdateOrderStatusDoes(w) \/ EndReceiptDoes(w)
  \/ FailDoes(w)
  \/ StockDoes(w) /\ UNCHANGED <<receipt, entered, counted>>

\* A step of no worker: an edit at once, of a receipt perhaps, or none.
Editing ==
  /\ \A x \in Receipts : receipt'[x].status = "none" <=> receipt[x].status = "none"
  /\ UNCHANGED <<item, history, job, into, upset, entered, counted>>

LEMMA Steps ==
  ASSUME PaperInv, [Next]_vars
  PROVE  Editing \/ \E w \in Workers : WorkerDoes(w)
<1>1. ASSUME NEW w \in Workers, DocumentStep(w) PROVE WorkerDoes(w)
  BY <1>1, DocumentBegins, DocumentGoesOn, InsertReceiptIs, UpdateOrderStatusIs, EndReceiptIs
  DEF DocumentStep, WorkerDoes
<1>2. ASSUME NEW w \in Workers, StockStep(w), UNCHANGED documents PROVE WorkerDoes(w)
  <2>1. StockDoes(w)
    BY <1>2, CreateItemIs, InsertItemIs, UpdateItemIs, PatchItemIs, AdjustIs, WriteQuantityIs,
       RecordMovementIs, SkipLineIs, ApplyLineIs, NewItemIs, InsertNewItemIs
    DEF StockStep, StockDoes
  <2>. QED
    BY <1>2, <2>1 DEF WorkerDoes, documents
<1>3. ASSUME NEW w \in Workers, Fail(w) PROVE WorkerDoes(w)
  BY <1>3, FailIs DEF WorkerDoes
<1>4. DOMAIN receipt = Receipts
  BY DEF PaperInv, Tables
<1>5. ASSUME NEW x \in Receipts, UpdateReceipt(x) PROVE Editing
  <2>1. PICK list : receipt' = [receipt EXCEPT ![x].lines = list]
    BY <1>5 DEF UpdateReceipt
  <2>2. receipt'[x].status = receipt[x].status
    BY <1>4, <2>1 DEF PaperInv, Tables, RowOfReceipt
  <2>. QED
    BY <1>4, <1>5, <2>1, <2>2 DEF UpdateReceipt, Editing, AtOnce, stockVars
<1>6. ASSUME NEW x \in Receipts, DeleteReceipt(x) PROVE Editing
  <2>1. receipt' = [receipt EXCEPT ![x] = NoReceipt("deleted")] /\ receipt[x].status = "kept"
    BY <1>6 DEF DeleteReceipt
  <2>2. receipt'[x].status = "deleted"
    BY <1>4, <2>1 DEF NoReceipt
  <2>. QED
    BY <1>4, <1>6, <2>1, <2>2 DEF DeleteReceipt, Editing, AtOnce, stockVars
<1>7. CASE \/ \E v \in Vendors : CreateVendor(v)
           \/ \E r \in Requests : CreateRequest(r) \/ UpdateRequest(r)
           \/ \E q \in Quotes : UpdateQuote(q)
           \/ \E o \in Orders : UpdateOrder(o)
  BY <1>7 DEF CreateVendor, CreateRequest, UpdateRequest, UpdateQuote, UpdateOrder, AtOnce,
              stockVars, Editing
<1>8. CASE UNCHANGED vars
  BY <1>8 DEF vars, stockVars, documents, Editing
<1>. QED
  BY <1>1, <1>2, <1>3, <1>5, <1>6, <1>7, <1>8 DEF Next

-----------------------------------------------------------------------------
(* Types.                                                                  *)

LEMMA StockHolds ==
  ASSUME StockInv, NEW w \in Workers, \A v \in Workers \ {w} : job'[v] = job[v],
         StockJob(job'[w]),
         job'[w].pc \in Moving \cup {"patch"} => item'[job'[w].item] # NoItem,
         item' \in [Items -> ItemRow], history' \in [Items -> Seq(Move)],
         DOMAIN into' = Receipts, into' = [x \in Receipts |-> into'[x]],
         \A i \in Items : item'[i].sku = None => item'[i] = NoItem /\ history'[i] = <<>>,
         \A i \in Items : item[i] # NoItem => item'[i] # NoItem
  PROVE  StockInv'
<1>1. \A v \in Workers : StockJob(job'[v])
  BY DEF StockInv
<1>2. \A v \in Workers : job'[v].pc \in Moving \cup {"patch"} => item'[job'[v].item] # NoItem
  BY DEF StockInv, StockJob, Kept
<1>. QED
  BY <1>1, <1>2 DEF StockInv, StockJob, Kept

\* The tables are left alone, but perhaps for the lines noted.
LEMMA StockJobHolds ==
  ASSUME StockInv, NEW w \in Workers, \A v \in Workers \ {w} : job'[v] = job[v],
         StockJob(job'[w]),
         job'[w].pc \in Moving \cup {"patch"} => item[job'[w].item] # NoItem,
         item' = item, history' = history,
         DOMAIN into' = Receipts, into' = [x \in Receipts |-> into'[x]]
  PROVE  StockInv'
BY StockHolds DEF StockInv

LEMMA OpeningMove == Opening \in Move
BY DEF Opening, Move, Movement

LEMMA EmptyLines == <<>> \in Seq(ReceiptLine)
OBVIOUS

LEMMA IdleStock ==
  ASSUME NEW w \in Workers, Turned(w, "idle", None, Opening, <<>>, None)
  PROVE  StockJob(job'[w])
BY OpeningMove, EmptyLines DEF Turned, StockJob, Moving, Labelling, OnReceipt

LEMMA AcceptedNat ==
  ASSUME NEW l \in ReceiptLine PROVE accepted(l) \in Nat
BY DEF ReceiptLine, accepted

\* Noting where a line goes changes nothing else.
LEMMA GoesToIs ==
  ASSUME StockInv, NEW w \in Workers, job[w].receipt \in Receipts, NEW i, GoesTo(w, i)
  PROVE  LET x == job[w].receipt
             n == Len(job[w].lines) IN
         /\ DOMAIN into' = Receipts /\ into' = [y \in Receipts |-> into'[y]]
         /\ DOMAIN into'[x] = DOMAIN into[x] \cup {n}
         /\ into'[x][n] = i /\ \A k \in DOMAIN into[x] \ {n} : into'[x][k] = into[x][k]
         /\ \A y \in Receipts \ {x} : into'[y] = into[y]
<1>. DEFINE x == job[w].receipt
            n == Len(job[w].lines)
            f == [k \in DOMAIN into[x] \cup {n} |-> IF k = n THEN i ELSE into[x][k]]
<1>1. into' = [into EXCEPT ![x] = f]
  BY DEF GoesTo
<1>2. /\ DOMAIN f = DOMAIN into[x] \cup {n} /\ f[n] = i
      /\ \A k \in DOMAIN into[x] \ {n} : f[k] = into[x][k]
  OBVIOUS
<1>. HIDE DEF f, x, n
<1>3. DOMAIN into = Receipts /\ x \in Receipts
  BY DEF StockInv, x
<1>4. into'[x] = f /\ \A y \in Receipts \ {x} : into'[y] = into[y]
  BY <1>1, <1>3
<1>5. DOMAIN into' = Receipts /\ into' = [y \in Receipts |-> into'[y]]
  BY <1>1, <1>3
<1>. QED
  BY <1>2, <1>4, <1>5 DEF x, n

LEMMA NewItemKept ==
  ASSUME StockInv, NEW w \in Workers, job[w].pc = "insert", NEW i, NEW q \in Int,
         Inserted(w, i, q)
  PROVE  /\ item' \in [Items -> ItemRow] /\ item'[i].qty = q /\ item'[i] # NoItem
         /\ item'[i].sku \in Names
         /\ \A h \in Items \ {i} : item'[h] = item[h]
<1>. DEFINE s == job[w].label[1]
            n == job[w].label[2]
            r == [sku |-> s, name |-> n, qty |-> q]
<1>1. s \in Names /\ n \in Names
  BY DEF StockInv, StockJob, Labelling
<1>2. i \in Items /\ item' = [item EXCEPT ![i] = r] /\ item \in [Items -> ItemRow]
  BY DEF Inserted, StockInv
<1>. HIDE DEF s, n
<1>3. r \in ItemRow /\ r.qty = q /\ r.sku \in Names
  BY <1>1 DEF ItemRow
<1>. HIDE DEF r
<1>4. r # NoItem
  BY <1>3, StockAssumption DEF NoItem
<1>. QED
  BY <1>2, <1>3, <1>4

LEMMA AsideStock ==
  ASSUME StockInv, NEW w \in Workers, Aside(w) PROVE StockInv'
<1>1. Deliveries \subseteq Seq(ReceiptLine)
  BY ProcurementAssumption
<1>2. StockJob(job'[w])
  BY <1>1, OpeningMove, EmptyLines, ZenonT(30)
  DEF Aside, StockInv, StockJob, OnPapers, DocumentSteps, Moving, Labelling, OnReceipt
<1>3. job'[w].pc \notin Moving \cup {"patch"}
  BY DEF Aside, OnPapers, DocumentSteps, Moving
<1>. QED
  BY <1>2, <1>3, StockJobHolds DEF Aside, StockInv

LEMMA ReceiptStock ==
  ASSUME StockInv, NEW w \in Workers,
         InsertReceiptDoes(w) \/ UpdateOrderStatusDoes(w) \/ EndReceiptDoes(w) \/ FailDoes(w)
  PROVE  StockInv'
<1>1. CASE InsertReceiptDoes(w)
  <2>1. PICK x \in Receipts :
          /\ Turned(w, "orderStatus", job[w].item, job[w].move, job[w].lines, x)
          /\ UNCHANGED <<item, history, into>>
    BY <1>1 DEF InsertReceiptDoes
  <2>2. StockJob(job'[w]) /\ job'[w].pc \notin Moving \cup {"patch"}
    BY <2>1 DEF Turned, StockInv, StockJob, OnReceipt, Moving, Labelling
  <2>. QED
    BY <2>1, <2>2, StockJobHolds DEF Turned, StockInv
<1>2. CASE UpdateOrderStatusDoes(w)
  <2>1. StockJob(job'[w]) /\ job'[w].pc \notin Moving \cup {"patch"}
    BY <1>2 DEF UpdateOrderStatusDoes, Turned, StockInv, StockJob, OnReceipt, Moving, Labelling
  <2>. QED
    BY <1>2, <2>1, StockJobHolds DEF UpdateOrderStatusDoes, Turned, StockInv
<1>3. CASE EndReceiptDoes(w) \/ FailDoes(w)
  <2>1. Turned(w, "idle", None, Opening, <<>>, None) /\ UNCHANGED <<item, history, into>>
    BY <1>3 DEF EndReceiptDoes, FailDoes
  <2>2. StockJob(job'[w])
    BY <2>1, IdleStock
  <2>. QED
    BY <2>1, <2>2, StockJobHolds DEF Turned, StockInv, Moving
<1>. QED
  BY <1>1, <1>2, <1>3

LEMMA AdjustedMove ==
  ASSUME NEW type \in {"IN", "OUT", "ADJUST"}, NEW q \in Nat, NEW b \in Int
  PROVE  /\ Adjusted(type, q, b) \in Move /\ Adjusted(type, q, b).receipt = None
         /\ LET m == Adjusted(type, q, b) IN
            \/ m.type = "IN" /\ m.balance = b + m.qty
            \/ m.type = "OUT" /\ m.balance = b - m.qty
            \/ m.type = "ADJUST" /\ (m.qty = Distance(b, m.balance)
                                     \/ (m.balance = b /\ m.qty = m.balance))
<1>1. CASE type = "IN"
  BY <1>1 DEF Adjusted, Movement, Move
<1>2. CASE type = "OUT"
  BY <1>2 DEF Adjusted, Movement, Move
<1>3. CASE type = "ADJUST"
  <2>1. Distance(q, b) \in Int /\ Distance(q, b) = Distance(b, q)
    BY DEF Distance
  <2>2. Adjusted(type, q, b) =
          [type |-> "ADJUST", qty |-> IF q = b THEN q ELSE Distance(q, b), balance |-> q,
           receipt |-> None]
    BY <1>3 DEF Adjusted, Movement
  <2>. QED
    BY <2>1, <2>2 DEF Move
<1>. QED
  BY <1>1, <1>2, <1>3

\* Requests of the operator that begin.
LEMMA BeginStock ==
  ASSUME StockInv, NEW w \in Workers, CreateItemDoes(w) \/ UpdateItemDoes(w) \/ AdjustDoes(w)
  PROVE  StockInv'
<1>0. Sums \subseteq Nat
  BY StockAssumption
<1>1. CASE CreateItemDoes(w)
  <2>1. PICK l \in Labels, q \in Sums \cup {0} :
          /\ job'[w].label = l /\ Turned(w, "insert", None, Movement("IN", q, q, None), <<>>, None)
          /\ UNCHANGED <<item, history, into>>
    BY <1>1 DEF CreateItemDoes
  <2>2. Movement("IN", q, q, None) \in Move
    BY <1>0 DEF Movement, Move
  <2>3. l[1] \in Names /\ l[2] \in Names
    BY StockAssumption
  <2>4. StockJob(job'[w]) /\ job'[w].pc \notin Moving \cup {"patch"}
    BY <2>1, <2>2, <2>3, EmptyLines DEF Turned, StockJob, Moving, Labelling, OnReceipt
  <2>. QED
    BY <2>1, <2>4, StockJobHolds DEF Turned, StockInv
<1>2. CASE UpdateItemDoes(w)
  <2>1. PICK i \in Items, l \in Labels :
          /\ Kept(i) /\ job'[w].label = l /\ Turned(w, "patch", i, Opening, <<>>, None)
          /\ UNCHANGED <<item, history, into>>
    BY <1>2 DEF UpdateItemDoes
  <2>2. l[1] \in Names /\ l[2] \in Names
    BY StockAssumption
  <2>3. StockJob(job'[w])
    BY <2>1, <2>2, OpeningMove, EmptyLines DEF Turned, StockJob, Moving, Labelling, OnReceipt
  <2>. QED
    BY <2>1, <2>3, StockJobHolds DEF Turned, StockInv, Kept
<1>3. CASE AdjustDoes(w)
  <2>1. PICK i \in Items, type \in {"IN", "OUT", "ADJUST"}, q \in Sums :
          /\ Kept(i) /\ Turned(w, "write", i, Adjusted(type, q, item[i].qty), <<>>, None)
          /\ UNCHANGED <<item, history, into>>
    BY <1>3 DEF AdjustDoes
  <2>2. item[i].qty \in Int
    BY DEF StockInv, ItemRow
  <2>3. Adjusted(type, q, item[i].qty) \in Move
    BY <1>0, <2>2, AdjustedMove
  <2>4. StockJob(job'[w])
    BY <2>1, <2>3, EmptyLines DEF Turned, StockJob, Moving, Labelling, OnReceipt
  <2>. QED
    BY <2>1, <2>4, StockJobHolds DEF Turned, StockInv, Kept
<1>. QED
  BY <1>1, <1>2, <1>3

LEMMA InsertItemStock ==
  ASSUME StockInv, NEW w \in Workers, InsertItemDoes(w) PROVE StockInv'
<1>1. PICK i \in Items :
        /\ Inserted(w, i, job[w].move.qty)
        /\ IF job[w].move.qty > 0
           THEN Turned(w, "movement", i, job[w].move, job[w].lines, None)
           ELSE Turned(w, "idle", None, Opening, <<>>, None)
  BY DEF InsertItemDoes
<1>. DEFINE q == job[w].move.qty
<1>2. q \in Int /\ job[w].pc = "insert" /\ UNCHANGED <<history, into>>
  BY DEF StockInv, StockJob, Move, InsertItemDoes
<1>3. /\ item' \in [Items -> ItemRow] /\ item'[i] # NoItem /\ item'[i].sku \in Names
      /\ \A h \in Items \ {i} : item'[h] = item[h]
  BY <1>1, <1>2, NewItemKept
<1>4. StockJob(job'[w])
  <2>1. CASE q > 0
    BY <1>1, <2>1 DEF Turned, StockInv, StockJob, Moving, Labelling, OnReceipt
  <2>2. CASE ~(q > 0)
    BY <1>1, <2>2, IdleStock
  <2>. QED
    BY <2>1, <2>2
<1>5. job'[w].pc \in Moving \cup {"patch"} => item'[job'[w].item] # NoItem
  BY <1>1, <1>3 DEF Turned, Moving
<1>6. \A v \in Workers \ {w} : job'[v] = job[v]
  BY <1>1 DEF Turned
<1>7. None \notin Names
  BY StockAssumption
<1>8. history' \in [Items -> Seq(Move)] /\ DOMAIN into' = Receipts
      /\ into' = [x \in Receipts |-> into'[x]]
  BY <1>2 DEF StockInv
<1>9. \A h \in Items : item'[h].sku = None => item'[h] = NoItem /\ history'[h] = <<>>
  BY <1>2, <1>3, <1>7 DEF StockInv
<1>10. \A h \in Items : item[h] # NoItem => item'[h] # NoItem
  BY <1>3
<1>. QED
  BY <1>3, <1>4, <1>5, <1>6, <1>8, <1>9, <1>10, StockHolds

LEMMA PatchItemStock ==
  ASSUME StockInv, NEW w \in Workers, PatchItemDoes(w) PROVE StockInv'
<1>. DEFINE i == job[w].item
            s == job[w].label[1]
            n == job[w].label[2]
<1>1. i \in Items /\ s \in Names /\ n \in Names /\ Kept(i)
  BY DEF StockInv, StockJob, Labelling, PatchItemDoes
<1>2. /\ item' = [item EXCEPT ![i].sku = s, ![i].name = n]
      /\ Turned(w, "idle", None, Opening, <<>>, None) /\ UNCHANGED <<history, into>>
  BY DEF PatchItemDoes
<1>. HIDE DEF i, s, n
<1>3. item[i] \in ItemRow /\ item \in [Items -> ItemRow]
  BY <1>1 DEF StockInv
<1>4. item'[i] = [[item[i] EXCEPT !.sku = s] EXCEPT !.name = n]
      /\ \A h \in Items \ {i} : item'[h] = item[h]
  BY <1>1, <1>2, <1>3
<1>5. item'[i] \in ItemRow /\ item'[i].sku = s
  BY <1>1, <1>3, <1>4 DEF ItemRow
<1>6. item' \in [Items -> ItemRow]
  BY <1>1, <1>2, <1>3, <1>4, <1>5
<1>7. None \notin Names
  BY StockAssumption
<1>8. item'[i] # NoItem
  BY <1>1, <1>5, <1>7 DEF NoItem
<1>9. StockJob(job'[w])
  BY <1>2, IdleStock
<1>10. \A v \in Workers \ {w} : job'[v] = job[v]
  BY <1>2 DEF Turned
<1>11. job'[w].pc \notin Moving \cup {"patch"}
  BY <1>2 DEF Turned, Moving
<1>12. \A h \in Items : item'[h].sku = None => item'[h] = NoItem /\ history'[h] = <<>>
  BY <1>1, <1>2, <1>4, <1>5, <1>7 DEF StockInv
<1>13. \A h \in Items : item[h] # NoItem => item'[h] # NoItem
  BY <1>4, <1>8
<1>14. history' \in [Items -> Seq(Move)] /\ DOMAIN into' = Receipts
      /\ into' = [x \in Receipts |-> into'[x]]
  BY <1>2 DEF StockInv
<1>. QED
  BY <1>6, <1>9, <1>10, <1>11, <1>12, <1>13, <1>14, StockHolds

LEMMA WriteQuantityStock ==
  ASSUME StockInv, NEW w \in Workers, WriteQuantityDoes(w)
  PROVE  /\ StockInv' /\ item'[job[w].item].qty = job[w].move.balance
         /\ \A h \in Items \ {job[w].item} : item'[h] = item[h]
<1>. DEFINE i == job[w].item
            b == job[w].move.balance
<1>1. i \in Items /\ b \in Int /\ Kept(i)
  BY DEF StockInv, StockJob, Moving, Move, WriteQuantityDoes
<1>2. /\ item' = [item EXCEPT ![i].qty = b] /\ UNCHANGED <<history, into>>
      /\ Turned(w, "movement", i, job[w].move, job[w].lines, job[w].receipt)
  BY DEF WriteQuantityDoes
<1>. HIDE DEF i, b
<1>3. item[i] \in ItemRow /\ item \in [Items -> ItemRow]
  BY <1>1 DEF StockInv
<1>4. item'[i] = [item[i] EXCEPT !.qty = b] /\ \A h \in Items \ {i} : item'[h] = item[h]
  BY <1>1, <1>2, <1>3
<1>5. item'[i] \in ItemRow /\ item'[i].sku = item[i].sku /\ item'[i].qty = b
  BY <1>1, <1>3, <1>4 DEF ItemRow
<1>6. item' \in [Items -> ItemRow]
  BY <1>1, <1>2, <1>3, <1>4, <1>5
<1>7. item[i].sku # None
  BY <1>1 DEF StockInv, Kept
<1>8. item'[i] # NoItem
  BY <1>5, <1>7 DEF NoItem
<1>9. StockJob(job'[w])
  BY <1>1, <1>2 DEF Turned, StockInv, StockJob, Moving, Labelling, OnReceipt, WriteQuantityDoes
<1>10. \A v \in Workers \ {w} : job'[v] = job[v]
  BY <1>2 DEF Turned
<1>11. item'[job'[w].item] # NoItem
  BY <1>2, <1>8 DEF Turned
<1>12. \A h \in Items : item'[h].sku = None => item'[h] = NoItem /\ history'[h] = <<>>
  BY <1>2, <1>4, <1>5, <1>7 DEF StockInv
<1>13. \A h \in Items : item[h] # NoItem => item'[h] # NoItem
  BY <1>4, <1>8
<1>14. history' \in [Items -> Seq(Move)] /\ DOMAIN into' = Receipts
      /\ into' = [x \in Receipts |-> into'[x]]
  BY <1>2 DEF StockInv
<1>15. job'[w].pc \in Moving \cup {"patch"} => item'[job'[w].item] # NoItem
  BY <1>11
<1>16. StockInv'
  BY <1>6, <1>9, <1>10, <1>12, <1>13, <1>14, <1>15, StockHolds
<1>. QED
  BY <1>4, <1>5, <1>16 DEF i, b

LEMMA RecordMovementStock ==
  ASSUME StockInv, NEW w \in Workers, RecordMovementDoes(w)
  PROVE  /\ StockInv' /\ history'[job[w].item] = Append(history[job[w].item], job[w].move)
         /\ \A h \in Items \ {job[w].item} : history'[h] = history[h]
<1>. DEFINE i == job[w].item
            m == job[w].move
<1>1. i \in Items /\ m \in Move /\ Kept(i) /\ job[w].receipt \in Receipts \cup {None}
      /\ job[w].lines \in Seq(ReceiptLine)
  BY DEF StockInv, StockJob, Moving, RecordMovementDoes
<1>2. /\ history' = [history EXCEPT ![i] = Append(@, m)] /\ UNCHANGED <<item, into>>
      /\ IF job[w].receipt = None THEN Turned(w, "idle", None, Opening, <<>>, None)
         ELSE Turned(w, "lines", None, m, Tail(job[w].lines), job[w].receipt)
  BY DEF RecordMovementDoes
<1>. HIDE DEF i, m
<1>3. history \in [Items -> Seq(Move)]
  BY DEF StockInv
<1>4. /\ history' \in [Items -> Seq(Move)] /\ history'[i] = Append(history[i], m)
      /\ \A h \in Items \ {i} : history'[h] = history[h]
  BY <1>1, <1>2, <1>3
<1>5. item[i].sku # None
  BY <1>1 DEF StockInv, Kept
<1>6. job[w].receipt # None => Tail(job[w].lines) \in Seq(ReceiptLine)
  BY <1>1 DEF StockInv, StockJob, RecordMovementDoes, Moving
<1>7. StockJob(job'[w]) /\ job'[w].pc \notin Moving \cup {"patch"}
  <2>1. CASE job[w].receipt = None
    BY <1>2, <2>1, IdleStock DEF Turned, Moving
  <2>2. CASE job[w].receipt # None
    BY <1>1, <1>2, <1>6, <2>2 DEF Turned, StockJob, Moving, Labelling, OnReceipt
  <2>. QED
    BY <2>1, <2>2
<1>8. \A v \in Workers \ {w} : job'[v] = job[v]
  BY <1>2 DEF Turned
<1>9. \A h \in Items : item'[h].sku = None => item'[h] = NoItem /\ history'[h] = <<>>
  BY <1>2, <1>4, <1>5 DEF StockInv
<1>10. item' \in [Items -> ItemRow] /\ DOMAIN into' = Receipts
       /\ into' = [x \in Receipts |-> into'[x]]
  BY <1>2 DEF StockInv
<1>11. \A h \in Items : item[h] # NoItem => item'[h] # NoItem
  BY <1>2
<1>12. job'[w].pc \in Moving \cup {"patch"} => item'[job'[w].item] # NoItem
  BY <1>7
<1>13. history' \in [Items -> Seq(Move)]
  BY <1>4
<1>14. StockInv'
  BY <1>7, <1>8, <1>9, <1>10, <1>11, <1>12, <1>13, StockHolds
<1>. QED
  BY <1>4, <1>14 DEF i, m

LEMMA LineStock ==
  ASSUME StockInv, NEW w \in Workers,
         SkipLineDoes(w) \/ ApplyLineDoes(w) \/ NewItemDoes(w)
  PROVE  StockInv'
<1>1. /\ job[w].pc = "lines" /\ job[w].lines \in Seq(ReceiptLine) /\ job[w].lines # <<>>
      /\ job[w].receipt \in Receipts /\ job[w].item \in Items \cup {None} /\ job[w].move \in Move
  BY DEF SkipLineDoes, ApplyLineDoes, NewItemDoes, AtLine, StockInv, StockJob
<1>. DEFINE line == Head(job[w].lines)
            a == accepted(line)
<1>2. line \in ReceiptLine /\ Tail(job[w].lines) \in Seq(ReceiptLine) /\ line.item \in Names
  <2>1. line \in ReceiptLine /\ Tail(job[w].lines) \in Seq(ReceiptLine)
    BY <1>1
  <2>2. line.item \in Names
    BY <2>1 DEF ReceiptLine
  <2>. QED
    BY <2>1, <2>2
<1>3. a \in Nat
  BY <1>2, AcceptedNat
<1>. HIDE DEF line, a
<1>4. ASSUME Turned(w, "lines", job[w].item, job[w].move, Tail(job[w].lines), job[w].receipt)
      PROVE  StockJob(job'[w]) /\ job'[w].pc \notin Moving \cup {"patch"}
  BY <1>1, <1>2, <1>4 DEF Turned, StockJob, Moving, Labelling, OnReceipt
<1>5. CASE SkipLineDoes(w)
  BY <1>4, <1>5, StockJobHolds DEF SkipLineDoes, Turned, StockInv
<1>6. CASE ApplyLineDoes(w)
  <2>1. PICK i \in Items :
          /\ Kept(i) /\ GoesTo(w, i)
          /\ IF Referenced(job[w].receipt, i)
             THEN Turned(w, "lines", job[w].item, job[w].move, Tail(job[w].lines), job[w].receipt)
             ELSE Turned(w, "write", i, Movement("IN", a, item[i].qty + a, job[w].receipt),
                         job[w].lines, job[w].receipt)
    BY <1>6 DEF ApplyLineDoes, a, line
  <2>2. DOMAIN into' = Receipts /\ into' = [x \in Receipts |-> into'[x]]
    BY <1>1, <2>1, GoesToIs
  <2>3. Movement("IN", a, item[i].qty + a, job[w].receipt) \in Move
    BY <1>1, <1>3 DEF StockInv, ItemRow, Movement, Move
  <2>4. StockJob(job'[w])
    BY <1>1, <1>4, <2>1, <2>3 DEF Turned, StockJob, Moving, Labelling, OnReceipt
  <2>5. job'[w].pc \in Moving \cup {"patch"} => item[job'[w].item] # NoItem
    BY <1>4, <2>1 DEF Turned, Kept
  <2>6. \A v \in Workers \ {w} : job'[v] = job[v]
    BY <2>1 DEF Turned
  <2>. QED
    BY <1>6, <2>2, <2>4, <2>5, <2>6, StockJobHolds DEF ApplyLineDoes
<1>7. CASE NewItemDoes(w)
  <2>. DEFINE m == Movement("IN", a, a, job[w].receipt)
  <2>1. job'[w].label = <<line.item, line.item>>
        /\ Turned(w, "insert", job[w].item, m, job[w].lines, job[w].receipt)
    BY <1>7 DEF NewItemDoes, a, line
  <2>2. m \in Move
    BY <1>1, <1>3 DEF Movement, Move
  <2>. HIDE DEF m
  <2>3. StockJob(job'[w]) /\ job'[w].pc \notin Moving \cup {"patch"}
    BY <1>1, <1>2, <2>1, <2>2 DEF Turned, StockJob, Moving, Labelling, OnReceipt
  <2>. QED
    BY <1>7, <2>1, <2>3, StockJobHolds DEF NewItemDoes, Turned, StockInv
<1>. QED
  BY <1>5, <1>6, <1>7

LEMMA InsertNewItemStock ==
  ASSUME StockInv, NEW w \in Workers, InsertNewItemDoes(w) PROVE StockInv'
<1>1. PICK i \in Items :
        /\ Inserted(w, i, 0) /\ GoesTo(w, i)
        /\ Turned(w, "write", i, job[w].move, job[w].lines, job[w].receipt)
  BY DEF InsertNewItemDoes
<1>2. job[w].pc = "insert" /\ job[w].receipt \in Receipts /\ history' = history
  BY DEF InsertNewItemDoes, StockInv, StockJob
<1>3. /\ item' \in [Items -> ItemRow] /\ item'[i] # NoItem /\ item'[i].sku \in Names
      /\ \A h \in Items \ {i} : item'[h] = item[h]
  BY <1>1, <1>2, NewItemKept
<1>4. DOMAIN into' = Receipts /\ into' = [x \in Receipts |-> into'[x]]
  BY <1>1, <1>2, GoesToIs
<1>5. StockJob(job'[w])
  BY <1>1, <1>2 DEF Turned, StockInv, StockJob, Moving, Labelling, OnReceipt
<1>6. job'[w].pc \in Moving \cup {"patch"} => item'[job'[w].item] # NoItem
  BY <1>1, <1>3 DEF Turned
<1>7. \A v \in Workers \ {w} : job'[v] = job[v]
  BY <1>1 DEF Turned
<1>8. None \notin Names
  BY StockAssumption
<1>9. \A h \in Items : item'[h].sku = None => item'[h] = NoItem /\ history'[h] = <<>>
  BY <1>2, <1>3, <1>8 DEF StockInv
<1>10. history' \in [Items -> Seq(Move)] /\ \A h \in Items : item[h] # NoItem => item'[h] # NoItem
  BY <1>2, <1>3 DEF StockInv
<1>. QED
  BY <1>3, <1>4, <1>5, <1>6, <1>7, <1>9, <1>10, StockHolds

LEMMA StockAtFirst == Init => StockInv
<1>. SUFFICES ASSUME Init PROVE StockInv
  OBVIOUS
<1>1. /\ item = [i \in Items |-> NoItem] /\ history = [i \in Items |-> <<>>]
      /\ job = [w \in Workers |-> NoJob] /\ into = [x \in Receipts |-> <<>>]
  BY DEF Init, StockInit
<1>2. NoItem \in ItemRow
  BY DEF NoItem, ItemRow
<1>3. StockJob(NoJob)
  BY NoJobFields, OpeningMove, EmptyLines DEF StockJob, Moving, Labelling, OnReceipt
<1>. QED
  BY <1>1, <1>2, <1>3, NoJobFields DEF StockInv, Moving

LEMMA StockStays == PaperInv /\ StockInv /\ [Next]_vars => StockInv'
<1>. SUFFICES ASSUME PaperInv, StockInv, [Next]_vars PROVE StockInv'
  OBVIOUS
<1>1. CASE Editing
  BY <1>1 DEF Editing, StockInv, StockJob, Kept
<1>2. ASSUME NEW w \in Workers, WorkerDoes(w) PROVE StockInv'
  BY <1>2, AsideStock, ReceiptStock, BeginStock, InsertItemStock, PatchItemStock,
     WriteQuantityStock, RecordMovementStock, LineStock, InsertNewItemStock
  DEF WorkerDoes, StockDoes
<1>. QED
  BY <1>1, <1>2, Steps

-----------------------------------------------------------------------------
(* The ledger.                                                             *)

\* Movement m leads from balance b to its own.
Leads(m, b) ==
  \/ m.type = "IN"  /\ m.balance = b + m.qty
  \/ m.type = "OUT" /\ m.balance = b - m.qty
  \/ m.type = "ADJUST" /\ (m.qty = Distance(b, m.balance) \/ (m.balance = b /\ m.qty = m.balance))

LastBalance(h) == Before(h, Len(h) + 1)
Ledger(h) == \A k \in DOMAIN h : Follows(h, k)

\* No two requests move an item, unless it is upset.
Sole == \A v, w \in Workers :
  v # w /\ job[v].pc \in Moving /\ job[w].pc \in Moving /\ job[v].item = job[w].item =>
    job[v].item \in upset

\* The movement a request carries leads to the quantity it is to write from that of
\* the item; once written, from the last balance of the history.
Carries(j) ==
  /\ j.pc = "insert" => j.move.type = "IN" /\ j.move.balance = j.move.qty /\ j.move.qty >= 0
  /\ j.pc = "write" /\ j.item \notin upset => Leads(j.move, item[j.item].qty)
  /\ j.pc = "movement" /\ j.item \notin upset =>
       item[j.item].qty = j.move.balance /\ Leads(j.move, LastBalance(history[j.item]))

Explained(i) ==
  (\A w \in Workers : job[w].pc = "movement" => job[w].item # i) =>
    item[i].qty = LastBalance(history[i])

LedgerInv ==
  /\ Sole /\ \A w \in Workers : Carries(job[w])
  /\ \A i \in Items \ upset : Ledger(history[i]) /\ Explained(i)

LEMMA FollowsIs == ASSUME NEW h, NEW k PROVE Follows(h, k) <=> Leads(h[k], Before(h, k))
BY DEF Follows, Leads

LEMMA EmptyLedger == Ledger(<<>>) /\ LastBalance(<<>>) = 0
BY DEF Ledger, LastBalance, Before

LEMMA LedgerGrows ==
  ASSUME NEW h \in Seq(Move), NEW m \in Move
  PROVE  /\ LastBalance(Append(h, m)) = m.balance
         /\ Ledger(h) /\ Leads(m, LastBalance(h)) => Ledger(Append(h, m))
<1>. DEFINE g == Append(h, m)
<1>1. /\ Len(g) = Len(h) + 1 /\ Len(h) \in Nat /\ g[Len(h) + 1] = m
      /\ \A k \in 1..Len(h) : g[k] = h[k]
      /\ DOMAIN g = 1..(Len(h) + 1) /\ DOMAIN h = 1..Len(h)
  OBVIOUS
<1>. HIDE DEF g
<1>2. LastBalance(g) = m.balance
  BY <1>1 DEF LastBalance, Before
<1>3. ASSUME Ledger(h), Leads(m, LastBalance(h)), NEW k \in DOMAIN g PROVE Follows(g, k)
  <2>1. CASE k = Len(h) + 1
    <3>1. Before(g, k) = LastBalance(h)
      BY <1>1, <2>1 DEF LastBalance, Before
    <3>. QED
      BY <1>1, <1>3, <2>1, <3>1, FollowsIs
  <2>2. CASE k \in 1..Len(h)
    <3>1. Before(g, k) = Before(h, k) /\ g[k] = h[k]
      BY <1>1, <2>2 DEF Before
    <3>2. Follows(h, k)
      BY <1>1, <1>3, <2>2 DEF Ledger
    <3>. QED
      BY <3>1, <3>2, FollowsIs
  <2>. QED
    BY <1>1, <2>1, <2>2
<1>. QED
  BY <1>2, <1>3 DEF Ledger, g

\* A request goes on, and neither quantities nor histories change.
LEMMA LedgerMoves ==
  ASSUME LedgerInv, StockInv, NEW w \in Workers, \A v \in Workers \ {w} : job'[v] = job[v],
         upset \subseteq upset', history' = history,
         \A i \in Items : item'[i].qty = item[i].qty,
         StockJob(job'[w]), Carries(job'[w]),
         job'[w].pc \in Moving => Alone(w, job'[w].item),
         job[w].pc = "movement" => job[w].item \in upset'
  PROVE  LedgerInv'
<1>1. Sole'
  BY DEF LedgerInv, Sole, Alone
<1>2. ASSUME NEW v \in Workers PROVE Carries(job[v])'
  <2>1. Carries(job'[v]) /\ StockJob(job'[v])
    BY DEF LedgerInv, StockInv
  <2>2. PICK j : j = job'[v]
    OBVIOUS
  <2>3. j.pc \in Moving => item'[j.item].qty = item[j.item].qty
    BY <2>1, <2>2 DEF StockJob
  <2>4. Carries(j)'
    BY <2>1, <2>2, <2>3 DEF Carries, Moving, LastBalance, Before
  <2>. QED
    BY <2>2, <2>4 DEF Carries
<1>3. ASSUME NEW i \in Items \ upset' PROVE (Ledger(history[i]) /\ Explained(i))'
  <2>1. Ledger(history[i]) /\ Explained(i)
    BY DEF LedgerInv
  <2>2. (\A v \in Workers : job'[v].pc = "movement" => job'[v].item # i) =>
          \A v \in Workers : job[v].pc = "movement" => job[v].item # i
    OBVIOUS
  <2>. QED
    BY <2>1, <2>2 DEF Ledger, Follows, Explained, LastBalance, Before
<1>. QED
  BY <1>1, <1>2, <1>3 DEF LedgerInv

\* A request changes item i or its history.
LEMMA LedgerChanges ==
  ASSUME LedgerInv, StockInv, NEW w \in Workers, \A v \in Workers \ {w} : job'[v] = job[v],
         upset' = upset, NEW i \in Items,
         \A h \in Items \ {i} : item'[h] = item[h] /\ history'[h] = history[h],
         \A v \in Workers \ {w} : job[v].pc \in Moving /\ job[v].item = i => i \in upset,
         job'[w].pc \in Moving => job'[w].item = i,
         job[w].pc = "movement" => job[w].item = i,
         job'[w].pc # "insert",
         i \notin upset => Ledger(history'[i]),
         i \notin upset /\ job'[w].pc # "movement" => item'[i].qty = LastBalance(history'[i]),
         i \notin upset /\ job'[w].pc = "write" => Leads(job'[w].move, item'[i].qty),
         i \notin upset /\ job'[w].pc = "movement" =>
            item'[i].qty = job'[w].move.balance /\ Leads(job'[w].move, LastBalance(history'[i]))
  PROVE  LedgerInv'
<1>1. Sole'
  BY DEF LedgerInv, Sole
<1>2. ASSUME NEW v \in Workers PROVE Carries(job[v])'
  <2>1. CASE v = w
    BY <2>1 DEF Carries, Moving, LastBalance, Before, Leads
  <2>2. CASE v # w
    <3>1. Carries(job[v]) /\ StockJob(job[v]) /\ job'[v] = job[v]
      BY <2>2 DEF LedgerInv, StockInv
    <3>2. job[v].pc \in Moving /\ job[v].item \notin upset =>
            item'[job[v].item] = item[job[v].item] /\ history'[job[v].item] = history[job[v].item]
      BY <2>2, <3>1 DEF StockJob
    <3>. QED
      BY <3>1, <3>2 DEF Carries, Moving, LastBalance, Before, Leads
  <2>. QED
    BY <2>1, <2>2
<1>3. ASSUME NEW h \in Items \ upset' PROVE (Ledger(history[h]) /\ Explained(h))'
  <2>1. CASE h = i
    <3>1. Ledger(history[h])'
      BY <2>1 DEF Ledger, Follows, Before
    <3>2. Explained(h)'
      BY <2>1 DEF Explained, LastBalance, Before, Moving
    <3>. QED
      BY <3>1, <3>2
  <2>2. CASE h # i
    <3>1. Ledger(history[h]) /\ Explained(h)
      BY DEF LedgerInv
    <3>2. history'[h] = history[h] /\ item'[h] = item[h]
      BY <2>2
    <3>3. (\A v \in Workers : job'[v].pc = "movement" => job'[v].item # h) =>
            \A v \in Workers : job[v].pc = "movement" => job[v].item # h
      BY <2>2
    <3>. QED
      BY <3>1, <3>2, <3>3 DEF Ledger, Follows, Explained, LastBalance, Before
  <2>. QED
    BY <2>1, <2>2
<1>. QED
  BY <1>1, <1>2, <1>3 DEF LedgerInv

\* A request that neither moves an item nor is about to insert one, and does not
\* leave a movement behind.
LEMMA LedgerAside ==
  ASSUME LedgerInv, StockInv, StockInv', NEW w \in Workers,
         \A v \in Workers \ {w} : job'[v] = job[v], upset \subseteq upset',
         history' = history, \A i \in Items : item'[i].qty = item[i].qty,
         job'[w].pc \notin Moving \cup {"insert"},
         job[w].pc = "movement" => job[w].item \in upset'
  PROVE  LedgerInv'
<1>1. Carries(job'[w]) /\ ~(job'[w].pc \in Moving)
  BY DEF Carries, Moving
<1>2. StockJob(job'[w])
  <2>1. \A v \in Workers : StockJob(job[v])'
    BY DEF StockInv
  <2>. QED
    BY <2>1 DEF StockJob
<1>. QED
  BY <1>1, <1>2, LedgerMoves

LEMMA DocumentLedger ==
  ASSUME LedgerInv, StockInv, StockInv', NEW w \in Workers,
         \/ Aside(w) \/ InsertReceiptDoes(w) \/ UpdateOrderStatusDoes(w) \/ EndReceiptDoes(w)
         \/ FailDoes(w)
  PROVE  LedgerInv'
<1>1. CASE Aside(w)
  BY <1>1, LedgerAside DEF Aside, OnPapers, DocumentSteps, Moving
<1>2. CASE InsertReceiptDoes(w)
  BY <1>2, LedgerAside DEF InsertReceiptDoes, Turned, Moving
<1>3. CASE UpdateOrderStatusDoes(w)
  BY <1>3, LedgerAside DEF UpdateOrderStatusDoes, Turned, Moving
<1>4. CASE EndReceiptDoes(w)
  BY <1>4, LedgerAside DEF EndReceiptDoes, Turned, Moving
<1>5. CASE FailDoes(w)
  BY <1>5, LedgerAside DEF FailDoes, Turned, Moving
<1>. QED
  BY <1>1, <1>2, <1>3, <1>4, <1>5

LEMMA PrimedJob ==
  ASSUME StockInv', NEW w \in Workers PROVE StockJob(job'[w])
<1>1. \A v \in Workers : StockJob(job[v])'
  BY DEF StockInv
<1>. QED
  BY <1>1 DEF StockJob

LEMMA BeginLedger ==
  ASSUME LedgerInv, StockInv, StockInv', NEW w \in Workers,
         CreateItemDoes(w) \/ UpdateItemDoes(w) \/ AdjustDoes(w)
  PROVE  LedgerInv'
<1>0. Sums \subseteq Nat
  BY StockAssumption
<1>1. CASE CreateItemDoes(w)
  <2>1. PICK q \in Sums \cup {0} :
          Turned(w, "insert", None, Movement("IN", q, q, None), <<>>, None)
    BY <1>1 DEF CreateItemDoes
  <2>2. Carries(job'[w])
    <3>. DEFINE m == Movement("IN", q, q, None)
    <3>1. m.type = "IN" /\ m.balance = q /\ m.qty = q /\ q >= 0
      BY <1>0 DEF Movement
    <3>2. job'[w].move = m /\ job'[w].pc = "insert"
      BY <2>1 DEF Turned
    <3>. HIDE DEF m
    <3>. QED
      BY <3>1, <3>2 DEF Carries
  <2>3. UNCHANGED <<item, history>> /\ job[w].pc = "idle"
    BY <1>1 DEF CreateItemDoes
  <2>4. /\ job'[w].pc = "insert" /\ upset \subseteq upset'
        /\ \A v \in Workers \ {w} : job'[v] = job[v]
    BY <2>1 DEF Turned
  <2>. QED
    BY <2>2, <2>3, <2>4, PrimedJob, LedgerMoves DEF Moving
<1>2. CASE UpdateItemDoes(w)
  BY <1>2, LedgerAside DEF UpdateItemDoes, Turned, Moving
<1>3. CASE AdjustDoes(w)
  <2>1. PICK i \in Items, type \in {"IN", "OUT", "ADJUST"}, q \in Sums :
          /\ job[w].pc = "idle" /\ Alone(w, i)
          /\ Turned(w, "write", i, Adjusted(type, q, item[i].qty), <<>>, None)
          /\ UNCHANGED <<item, history, into>>
    BY <1>3 DEF AdjustDoes
  <2>2. item[i].qty \in Int
    BY DEF StockInv, ItemRow
  <2>3. Leads(Adjusted(type, q, item[i].qty), item[i].qty)
    BY <1>0, <2>2, AdjustedMove DEF Leads
  <2>4. Carries(job'[w]) /\ job'[w].item = i
    BY <2>1, <2>3 DEF Turned, Carries
  <2>5. upset \subseteq upset' /\ \A v \in Workers \ {w} : job'[v] = job[v]
    BY <2>1 DEF Turned
  <2>. QED
    BY <2>1, <2>4, <2>5, PrimedJob, LedgerMoves
<1>. QED
  BY <1>1, <1>2, <1>3

\* Nobody moves an item that is not there.
LEMMA NoneMoves ==
  ASSUME StockInv, NEW i \in Items, ~Kept(i), NEW v \in Workers, job[v].pc \in Moving
  PROVE  job[v].item # i
BY DEF StockInv

LEMMA InsertItemLedger ==
  ASSUME LedgerInv, StockInv, NEW w \in Workers, InsertItemDoes(w) PROVE LedgerInv'
<1>1. PICK i \in Items :
        /\ Inserted(w, i, job[w].move.qty)
        /\ IF job[w].move.qty > 0
           THEN Turned(w, "movement", i, job[w].move, job[w].lines, None)
           ELSE Turned(w, "idle", None, Opening, <<>>, None)
  BY DEF InsertItemDoes
<1>. DEFINE q == job[w].move.qty
<1>2. /\ q \in Int /\ job[w].pc = "insert" /\ history' = history /\ upset' = upset
      /\ job[w].move.type = "IN" /\ job[w].move.balance = q /\ q >= 0
  BY DEF StockInv, StockJob, Move, InsertItemDoes, LedgerInv, Carries
<1>3. item'[i].qty = q /\ \A h \in Items \ {i} : item'[h] = item[h]
  BY <1>1, <1>2, NewItemKept
<1>4. \A v \in Workers \ {w} : job[v].pc \in Moving => job[v].item # i
  BY <1>1, NoneMoves DEF Inserted
<1>5. history[i] = <<>>
  BY <1>1, StockAssumption DEF Inserted, Kept, StockInv, NoItem
<1>6. Ledger(history'[i]) /\ LastBalance(history'[i]) = 0
  BY <1>2, <1>5, EmptyLedger
<1>7. /\ \A v \in Workers \ {w} : job'[v] = job[v]
      /\ q > 0 => /\ job'[w].pc = "movement" /\ job'[w].item = i /\ job'[w].move = job[w].move
      /\ ~(q > 0) => job'[w].pc = "idle"
  BY <1>1 DEF Turned
<1>8. Leads(job[w].move, 0)
  BY <1>2 DEF Leads
<1>9. job'[w].pc # "movement" => item'[i].qty = 0
  BY <1>2, <1>3, <1>7
<1>10. job'[w].pc = "movement" =>
         item'[i].qty = job'[w].move.balance /\ Leads(job'[w].move, LastBalance(history'[i]))
  BY <1>2, <1>3, <1>6, <1>7, <1>8
<1>11. job'[w].pc \in {"movement", "idle"} /\ (job'[w].pc \in Moving => job'[w].item = i)
  BY <1>7 DEF Moving
<1>12. \A h \in Items \ {i} : item'[h] = item[h] /\ history'[h] = history[h]
  BY <1>2, <1>3
<1>. QED
  BY <1>2, <1>4, <1>6, <1>7, <1>9, <1>10, <1>11, <1>12, LedgerChanges

LEMMA PatchItemLedger ==
  ASSUME LedgerInv, StockInv, StockInv', NEW w \in Workers, PatchItemDoes(w) PROVE LedgerInv'
<1>. DEFINE i == job[w].item
            s == job[w].label[1]
            n == job[w].label[2]
<1>1. i \in Items /\ item \in [Items -> ItemRow]
  BY DEF StockInv, StockJob, PatchItemDoes
<1>2. item' = [item EXCEPT ![i].sku = s, ![i].name = n]
  BY DEF PatchItemDoes
<1>. HIDE DEF i, s, n
<1>3. item'[i] = [[item[i] EXCEPT !.sku = s] EXCEPT !.name = n]
      /\ \A h \in Items \ {i} : item'[h] = item[h]
  BY <1>1, <1>2
<1>4. item'[i].qty = item[i].qty
  BY <1>1, <1>3 DEF ItemRow
<1>5. \A h \in Items : item'[h].qty = item[h].qty
  BY <1>3, <1>4
<1>. QED
  BY <1>5, LedgerAside DEF PatchItemDoes, Turned, Moving

LEMMA WriteQuantityLedger ==
  ASSUME LedgerInv, StockInv, NEW w \in Workers, WriteQuantityDoes(w) PROVE LedgerInv'
<1>. DEFINE i == job[w].item
            m == job[w].move
<1>1. /\ i \in Items /\ job[w].pc = "write" /\ upset' = upset /\ history' = history
      /\ job'[w].pc = "movement" /\ job'[w].item = i /\ job'[w].move = m
      /\ \A v \in Workers \ {w} : job'[v] = job[v]
  BY DEF StockInv, StockJob, WriteQuantityDoes, Turned, Moving
<1>2. item'[i].qty = m.balance /\ \A h \in Items \ {i} : item'[h] = item[h]
  BY WriteQuantityStock
<1>3. \A v \in Workers \ {w} : job[v].pc \in Moving /\ job[v].item = i => i \in upset
  BY <1>1 DEF LedgerInv, Sole, Moving
<1>4. i \notin upset => Ledger(history[i]) /\ Explained(i) /\ Leads(m, item[i].qty)
  BY <1>1 DEF LedgerInv, Carries
<1>5. i \notin upset => item[i].qty = LastBalance(history[i])
  BY <1>1, <1>3, <1>4 DEF Explained, Moving
<1>. HIDE DEF i, m
<1>6. \A h \in Items \ {i} : item'[h] = item[h] /\ history'[h] = history[h]
  BY <1>1, <1>2
<1>7. i \notin upset => Leads(m, LastBalance(history'[i])) /\ Ledger(history'[i])
  BY <1>1, <1>4, <1>5
<1>. QED
  BY <1>1, <1>2, <1>3, <1>6, <1>7, LedgerChanges

LEMMA RecordMovementLedger ==
  ASSUME LedgerInv, StockInv, NEW w \in Workers, RecordMovementDoes(w) PROVE LedgerInv'
<1>. DEFINE i == job[w].item
            m == job[w].move
<1>1. /\ i \in Items /\ m \in Move /\ job[w].pc = "movement" /\ upset' = upset /\ item' = item
      /\ job'[w].pc \in {"idle", "lines"}
      /\ \A v \in Workers \ {w} : job'[v] = job[v]
  BY DEF StockInv, StockJob, RecordMovementDoes, Turned, Moving
<1>2. history'[i] = Append(history[i], m) /\ \A h \in Items \ {i} : history'[h] = history[h]
  BY RecordMovementStock
<1>3. \A v \in Workers \ {w} : job[v].pc \in Moving /\ job[v].item = i => i \in upset
  BY <1>1 DEF LedgerInv, Sole, Moving
<1>4. i \notin upset => /\ Ledger(history[i]) /\ item[i].qty = m.balance
                        /\ Leads(m, LastBalance(history[i]))
  BY <1>1 DEF LedgerInv, Carries
<1>5. history[i] \in Seq(Move)
  BY <1>1 DEF StockInv
<1>6. job[w].item = i
  OBVIOUS
<1>. HIDE DEF i, m
<1>7. LastBalance(history'[i]) = m.balance /\ (i \notin upset => Ledger(history'[i]))
  BY <1>1, <1>2, <1>4, <1>5, LedgerGrows
<1>8. \A h \in Items \ {i} : item'[h] = item[h] /\ history'[h] = history[h]
  BY <1>1, <1>2
<1>9. job'[w].pc \notin Moving /\ job'[w].pc \notin {"insert", "write", "movement"}
  BY <1>1 DEF Moving
<1>10. i \notin upset => item'[i].qty = LastBalance(history'[i])
  BY <1>1, <1>4, <1>7
<1>. QED
  BY <1>1, <1>3, <1>6, <1>7, <1>8, <1>9, <1>10, LedgerChanges

LEMMA LineLedger ==
  ASSUME LedgerInv, StockInv, StockInv', NEW w \in Workers,
         SkipLineDoes(w) \/ ApplyLineDoes(w) \/ NewItemDoes(w)
  PROVE  LedgerInv'
<1>1. job[w].pc = "lines" /\ UNCHANGED <<item, history>>
  BY DEF SkipLineDoes, ApplyLineDoes, NewItemDoes, AtLine
<1>2. ASSUME Turned(w, "lines", job[w].item, job[w].move, Tail(job[w].lines), job[w].receipt)
      PROVE  LedgerInv'
  BY <1>1, <1>2, LedgerAside DEF Turned, Moving
<1>. DEFINE a == accepted(Head(job[w].lines))
<1>3. a \in Nat
  <2>1. job[w].lines \in Seq(ReceiptLine) /\ job[w].lines # <<>>
    BY DEF SkipLineDoes, ApplyLineDoes, NewItemDoes, AtLine, StockInv, StockJob
  <2>2. Head(job[w].lines) \in ReceiptLine
    BY <2>1
  <2>. QED
    BY <2>2, AcceptedNat
<1>. HIDE DEF a
<1>4. CASE SkipLineDoes(w)
  BY <1>2, <1>4 DEF SkipLineDoes
<1>5. CASE ApplyLineDoes(w)
  <2>1. PICK i \in Items :
          IF Referenced(job[w].receipt, i)
          THEN Turned(w, "lines", job[w].item, job[w].move, Tail(job[w].lines), job[w].receipt)
          ELSE /\ Turned(w, "write", i, Movement("IN", a, item[i].qty + a, job[w].receipt),
                         job[w].lines, job[w].receipt)
               /\ Alone(w, i)
    BY <1>5 DEF ApplyLineDoes, a
  <2>2. CASE ~Referenced(job[w].receipt, i)
    <3>. DEFINE m == Movement("IN", a, item[i].qty + a, job[w].receipt)
    <3>1. Leads(m, item[i].qty)
      BY DEF Leads, Movement
    <3>. HIDE DEF m
    <3>2. /\ job'[w].pc = "write" /\ job'[w].item = i /\ job'[w].move = m /\ Alone(w, i)
          /\ upset \subseteq upset'
          /\ \A v \in Workers \ {w} : job'[v] = job[v]
      BY <2>1, <2>2 DEF Turned, m
    <3>3. Carries(job'[w])
      BY <3>1, <3>2 DEF Carries
    <3>. QED
      BY <1>1, <3>2, <3>3, PrimedJob, LedgerMoves
  <2>. QED
    BY <1>2, <2>1, <2>2
<1>6. CASE NewItemDoes(w)
  <2>. DEFINE m == Movement("IN", a, a, job[w].receipt)
  <2>1. m.type = "IN" /\ m.balance = a /\ m.qty = a
    BY DEF Movement
  <2>. HIDE DEF m
  <2>2. /\ job'[w].pc = "insert" /\ job'[w].move = m /\ upset \subseteq upset'
        /\ \A v \in Workers \ {w} : job'[v] = job[v]
    BY <1>6 DEF NewItemDoes, Turned, m, a
  <2>3. a > 0
    BY <1>6 DEF NewItemDoes, a
  <2>4. Carries(job'[w])
    BY <1>3, <2>1, <2>2, <2>3 DEF Carries
  <2>. QED
    BY <1>1, <2>2, <2>4, PrimedJob, LedgerMoves DEF Moving
<1>. QED
  BY <1>4, <1>5, <1>6

LEMMA InsertNewItemLedger ==
  ASSUME LedgerInv, StockInv, NEW w \in Workers, InsertNewItemDoes(w) PROVE LedgerInv'
<1>1. PICK i \in Items :
        /\ Inserted(w, i, 0)
        /\ Turned(w, "write", i, job[w].move, job[w].lines, job[w].receipt)
  BY DEF InsertNewItemDoes
<1>2. /\ job[w].pc = "insert" /\ history' = history /\ upset' = upset
      /\ job[w].move.type = "IN" /\ job[w].move.balance = job[w].move.qty
      /\ job[w].move.qty \in Int
  BY DEF StockInv, StockJob, Move, InsertNewItemDoes, LedgerInv, Carries
<1>3. item'[i].qty = 0 /\ \A h \in Items \ {i} : item'[h] = item[h]
  BY <1>1, <1>2, NewItemKept
<1>4. \A v \in Workers \ {w} : job[v].pc \in Moving => job[v].item # i
  BY <1>1, NoneMoves DEF Inserted
<1>5. history[i] = <<>>
  BY <1>1, StockAssumption DEF Inserted, Kept, StockInv, NoItem
<1>6. Ledger(history'[i]) /\ LastBalance(history'[i]) = 0
  BY <1>2, <1>5, EmptyLedger
<1>7. /\ \A v \in Workers \ {w} : job'[v] = job[v]
      /\ job'[w].pc = "write" /\ job'[w].item = i /\ job'[w].move = job[w].move
  BY <1>1 DEF Turned
<1>8. Leads(job'[w].move, item'[i].qty)
  BY <1>2, <1>3, <1>7 DEF Leads
<1>9. \A h \in Items \ {i} : item'[h] = item[h] /\ history'[h] = history[h]
  BY <1>2, <1>3
<1>. QED
  BY <1>2, <1>3, <1>4, <1>6, <1>7, <1>8, <1>9, LedgerChanges

LEMMA LedgerAtFirst == Init => LedgerInv
<1>. SUFFICES ASSUME Init PROVE LedgerInv
  OBVIOUS
<1>1. /\ item = [i \in Items |-> NoItem] /\ history = [i \in Items |-> <<>>]
      /\ job = [w \in Workers |-> NoJob]
  BY DEF Init, StockInit
<1>2. Sole /\ \A w \in Workers : Carries(job[w])
  BY <1>1, NoJobFields DEF Sole, Carries, Moving
<1>3. ASSUME NEW i \in Items PROVE Ledger(history[i]) /\ Explained(i)
  BY <1>1, EmptyLedger DEF Explained, NoItem
<1>. QED
  BY <1>2, <1>3 DEF LedgerInv

LEMMA LedgerStays == PaperInv /\ StockInv /\ LedgerInv /\ [Next]_vars => LedgerInv'
<1>. SUFFICES ASSUME PaperInv, StockInv, LedgerInv, [Next]_vars PROVE LedgerInv'
  OBVIOUS
<1>1. StockInv'
  BY StockStays
<1>2. CASE Editing
  BY <1>2 DEF Editing, LedgerInv, Sole, Carries, Ledger, Follows, Explained, LastBalance, Before
<1>3. ASSUME NEW w \in Workers, WorkerDoes(w) PROVE LedgerInv'
  BY <1>1, <1>3, DocumentLedger, BeginLedger, InsertItemLedger, PatchItemLedger,
     WriteQuantityLedger, RecordMovementLedger, LineLedger, InsertNewItemLedger
  DEF WorkerDoes, StockDoes
<1>. QED
  BY <1>2, <1>3, Steps

LEMMA LedgerExplains == LedgerInv => HistoryExplainsStock
<1>. SUFFICES ASSUME LedgerInv, NEW i \in Items \ upset
              PROVE  /\ \A k \in DOMAIN history[i] : Follows(history[i], k)
                     /\ ~(\E w \in Workers : At(w, "movement") /\ job[w].item = i) =>
                          item[i].qty = Before(history[i], Len(history[i]) + 1)
  BY DEF HistoryExplainsStock
<1>1. Ledger(history[i]) /\ Explained(i)
  BY DEF LedgerInv
<1>. QED
  BY <1>1 DEF Ledger, Explained, LastBalance, At

\* The stock history of an item is a ledger that explains the quantity on the item,
\* whatever requests adjust, receive, insert and relabel at once, unless they met on
\* the item or one died between its two writes.
THEOREM HistoryExplainsStockHolds == Spec => []HistoryExplainsStock
<1>1. Init => PaperInv /\ StockInv /\ LedgerInv
  BY PaperInit, StockAtFirst, LedgerAtFirst
<1>2. PaperInv /\ StockInv /\ LedgerInv /\ [Next]_vars => (PaperInv /\ StockInv /\ LedgerInv)'
  BY PaperStep, StockStays, LedgerStays
<1>. QED
  BY <1>1, <1>2, LedgerExplains, PTL DEF Spec

-----------------------------------------------------------------------------
(* Receipts.                                                               *)

\* Every line of x with something accepted has been sent on, but for the last l.
Sent(x, l) == DOMAIN into[x] = {n \in (l + 1)..Len(entered[x].lines) : Taken(x, n) > 0}

\* Item i has nothing of x; is to be moved for line n; has been moved, once.
Nothing(x, i) == Went(x, i) = {} /\ Movements(x, i) = {}
Due(x, i, n)  == Went(x, i) = {n} /\ Movements(x, i) = {}
Booked(x, i) ==
  \E n \in Went(x, i), k \in DOMAIN history[i] :
    /\ \A m \in Went(x, i) : m <= n
    /\ Movements(x, i) = {k}
    /\ history[i][k].type = "IN" /\ history[i][k].qty = Taken(x, n)

\* The lines a request has yet to send on.
Left(j) == IF j.pc \in Moving THEN Len(j.lines) - 1 ELSE Len(j.lines)

\* Where a request j is with receipt x: its lines are the last ones of x, the others
\* are sent on, and the items they went to moved, but for the one it is about to move.
Midway(j, x) ==
  /\ Len(j.lines) <= Len(entered[x].lines)
  /\ \A n \in 1..Len(j.lines) : NthLast(j.lines, n) = NthLast(entered[x].lines, n)
  /\ Sent(x, Left(j))
  /\ j.pc \in Moving \cup {"insert"} =>
       /\ j.move.type = "IN" /\ j.move.receipt = x
       /\ j.move.qty = Taken(x, Len(j.lines)) /\ j.move.qty > 0
  /\ j.pc \in Moving => Due(x, j.item, Len(j.lines))
  /\ \A i \in Items : (j.pc \in Moving /\ i = j.item) \/ Nothing(x, i) \/ Booked(x, i)

Idle(x) == \A w \in Workers : job[w].receipt # x

ReceiptRight(x) ==
  /\ entered[x].lines \in Seq(ReceiptLine)
  /\ receipt[x].status = "none" => /\ Idle(x) /\ x \notin counted /\ DOMAIN into[x] = {}
                                   /\ \A i \in Items : Movements(x, i) = {}
  /\ x \in counted => /\ Idle(x) /\ Sent(x, 0)
                      /\ \A i \in Items : Nothing(x, i) \/ Booked(x, i)
  /\ \A w \in Workers : job[w].receipt = x => Midway(job[w], x)
  /\ \A v, w \in Workers : job[v].receipt = x /\ job[w].receipt = x => v = w

ReceiptInv ==
  /\ counted \subseteq Receipts
  /\ \A x \in Receipts : ReceiptRight(x)
  /\ \A w \in Workers : job[w].pc \in Moving \cup {"insert"} /\ job[w].receipt = None =>
                          job[w].move.receipt = None

\* Nothing of receipt x changes: what was noted of it, its request, its movements.
Unmoved(x) ==
  /\ into'[x] = into[x] /\ entered'[x] = entered[x]
  /\ \A i \in Items : /\ Movements(x, i)' = Movements(x, i)
                      /\ \A k \in Movements(x, i) : history'[i][k] = history[i][k]

LEMMA UnmovedItems ==
  ASSUME NEW x, NEW i \in Items, Unmoved(x)
  PROVE  /\ Nothing(x, i) => Nothing(x, i)'
         /\ \A n : Due(x, i, n) => Due(x, i, n)'
         /\ Booked(x, i) => Booked(x, i)'
<1>1. /\ Went(x, i)' = Went(x, i) /\ Movements(x, i)' = Movements(x, i)
      /\ \A n : Taken(x, n)' = Taken(x, n)
  BY DEF Unmoved, Went, Taken
<1>2. ASSUME Booked(x, i) PROVE Booked(x, i)'
  <2>1. PICK n \in Went(x, i), k \in DOMAIN history[i] :
          /\ \A m \in Went(x, i) : m <= n
          /\ Movements(x, i) = {k}
          /\ history[i][k].type = "IN" /\ history[i][k].qty = Taken(x, n)
    BY <1>2 DEF Booked
  <2>2. history'[i][k] = history[i][k] /\ k \in Movements(x, i)'
    BY <1>1, <2>1 DEF Unmoved
  <2>3. k \in DOMAIN history'[i]
    BY <2>2 DEF Movements
  <2>. QED
    BY <1>1, <2>1, <2>2, <2>3 DEF Booked
<1>. QED
  BY <1>1, <1>2 DEF Nothing, Due

LEMMA UnmovedSent ==
  ASSUME NEW x, NEW l, Unmoved(x) PROVE Sent(x, l)' <=> Sent(x, l)
BY DEF Unmoved, Sent, Taken

\* A request that goes on with what it had of its receipt.
LEMMA UnmovedMidway ==
  ASSUME NEW x, NEW j, Unmoved(x), Midway(j, x), j.pc \in Moving => j.item \in Items
  PROVE  Midway(j, x)'
<1>1. Sent(x, Left(j))' <=> Sent(x, Left(j))
  BY UnmovedSent
<1>2. \A i \in Items : /\ Nothing(x, i) => Nothing(x, i)'
                       /\ Booked(x, i) => Booked(x, i)'
  BY UnmovedItems
<1>3. j.pc \in Moving => Due(x, j.item, Len(j.lines))'
  BY UnmovedItems DEF Midway
<1>4. entered'[x] = entered[x]
  BY DEF Unmoved
<1>. QED
  BY <1>1, <1>2, <1>3, <1>4 DEF Midway, Taken

LEMMA ReceiptSame ==
  ASSUME StockInv, NEW x \in Receipts, ReceiptRight(x), Unmoved(x),
         receipt'[x].status = "none" <=> receipt[x].status = "none",
         x \in counted' <=> x \in counted,
         \A w \in Workers : job'[w].receipt = x => job'[w] = job[w]
  PROVE  ReceiptRight(x)'
<1>1. Idle(x) => Idle(x)'
  BY DEF Idle
<1>2. entered'[x] = entered[x] /\ into'[x] = into[x]
  BY DEF Unmoved
<1>3. receipt'[x].status = "none" => \A i \in Items : Movements(x, i)' = {}
  BY DEF ReceiptRight, Unmoved
<1>4. x \in counted' => Sent(x, 0)' /\ \A i \in Items : (Nothing(x, i) \/ Booked(x, i))'
  BY UnmovedItems, UnmovedSent DEF ReceiptRight
<1>5. ASSUME NEW w \in Workers, job'[w].receipt = x PROVE Midway(job[w], x)'
  <2>1. PICK j : j = job'[w]
    OBVIOUS
  <2>2. Midway(j, x) /\ (j.pc \in Moving => j.item \in Items)
    BY <1>5, <2>1 DEF ReceiptRight, StockInv, StockJob
  <2>3. Midway(j, x)'
    BY <2>2, UnmovedMidway
  <2>. QED
    BY <2>1, <2>3 DEF Midway, Left
<1>6. \A v, w \in Workers : job'[v].receipt = x /\ job'[w].receipt = x => v = w
  BY DEF ReceiptRight
<1>. QED
  BY <1>1, <1>2, <1>3, <1>4, <1>5, <1>6 DEF ReceiptRight

\* Receipts that a worker's step does not turn to, and leaves unmoved.
LEMMA ReceiptBeside ==
  ASSUME StockInv, NEW w \in Workers, \A v \in Workers \ {w} : job'[v] = job[v],
         NEW x \in Receipts, ReceiptRight(x), job'[w].receipt # x, Unmoved(x),
         receipt'[x].status = "none" <=> receipt[x].status = "none",
         x \in counted' <=> x \in counted
  PROVE  ReceiptRight(x)'
<1>1. \A v \in Workers : job'[v].receipt = x => job'[v] = job[v]
  OBVIOUS
<1>. QED
  BY <1>1, ReceiptSame

\* The receipt of a request that goes on with it.
LEMMA ReceiptGoesOn ==
  ASSUME StockInv, NEW w \in Workers, \A v \in Workers \ {w} : job'[v] = job[v],
         NEW x \in Receipts, ReceiptRight(x), job[w].receipt = x, job'[w].receipt = x,
         UNCHANGED <<receipt, entered, counted>>, Midway(job[w], x)'
  PROVE  ReceiptRight(x)'
<1>1. ~Idle(x) /\ receipt[x].status # "none" /\ x \notin counted
  BY DEF ReceiptRight, Idle
<1>2. \A v \in Workers : job'[v].receipt = x => v = w
  BY DEF ReceiptRight
<1>3. \A v \in Workers : job'[v].receipt = x => Midway(job[v], x)'
  BY <1>2
<1>4. entered'[x].lines \in Seq(ReceiptLine)
  BY DEF ReceiptRight
<1>5. \A u, v \in Workers : job'[u].receipt = x /\ job'[v].receipt = x => u = v
  BY <1>2
<1>. QED
  BY <1>1, <1>3, <1>4, <1>5 DEF ReceiptRight

LEMMA UnmovedWhere ==
  ASSUME NEW x, history' = history, into'[x] = into[x], entered'[x] = entered[x]
  PROVE  Unmoved(x)
BY DEF Unmoved, Movements

LEMMA ReceiptIs ==
  ASSUME ReceiptInv, NEW w \in Workers, NEW x \in Receipts, job[w].receipt = x
  PROVE  ReceiptRight(x) /\ Midway(job[w], x)
BY DEF ReceiptInv, ReceiptRight

\* Midway reads no more of a request than this.
LEMMA MidwayIs ==
  ASSUME NEW j, NEW k, NEW x, Midway(j, x), k.lines = j.lines, k.pc \notin Moving,
         j.pc \notin Moving,
         k.pc = "insert" => /\ k.move.type = "IN" /\ k.move.receipt = x
                            /\ k.move.qty = Taken(x, Len(k.lines)) /\ k.move.qty > 0
  PROVE  Midway(k, x)
<1>1. Left(k) = Left(j)
  BY DEF Left
<1>2. k.pc \in Moving \cup {"insert"} =>
       /\ k.move.type = "IN" /\ k.move.receipt = x
       /\ k.move.qty = Taken(x, Len(k.lines)) /\ k.move.qty > 0
  OBVIOUS
<1>. QED
  BY <1>1, <1>2 DEF Midway

\* The lines of a request from the first on.
LEMMA TailLines ==
  ASSUME NEW s \in Seq(ReceiptLine), s # <<>>
  PROVE  /\ Len(s) \in Nat /\ Len(s) > 0 /\ Len(Tail(s)) = Len(s) - 1
         /\ Head(s) \in ReceiptLine /\ NthLast(s, Len(s)) = Head(s)
         /\ \A n \in 1..Len(Tail(s)) : NthLast(Tail(s), n) = NthLast(s, n)
<1>1. /\ Len(s) \in Nat /\ Len(s) > 0 /\ Len(Tail(s)) = Len(s) - 1 /\ Head(s) = s[1]
      /\ Head(s) \in ReceiptLine
  OBVIOUS
<1>2. ASSUME NEW n \in 1..Len(Tail(s)) PROVE NthLast(Tail(s), n) = NthLast(s, n)
  <2>1. /\ Len(Tail(s)) + 1 - n \in 1..Len(Tail(s))
        /\ Len(Tail(s)) + 1 - n + 1 = Len(s) + 1 - n
    BY <1>1
  <2>2. \A k \in 1..Len(Tail(s)) : Tail(s)[k] = s[k + 1]
    OBVIOUS
  <2>. QED
    BY <2>1, <2>2 DEF NthLast
<1>. QED
  BY <1>1, <1>2 DEF NthLast

LEMMA AsideReceipts ==
  ASSUME StockInv, ReceiptInv, NEW w \in Workers, Aside(w) \/ FailDoes(w) PROVE ReceiptInv'
<1>1. /\ job'[w].pc \notin Moving \cup {"insert"} /\ job'[w].receipt = None
      /\ \A v \in Workers \ {w} : job'[v] = job[v]
      /\ UNCHANGED <<history, into, receipt, entered, counted>>
  BY DEF Aside, FailDoes, Turned, OnPapers, DocumentSteps, Moving, OnReceipt, StockInv, StockJob
<1>2. None \notin Receipts
  BY StockAssumption
<1>3. ASSUME NEW x \in Receipts PROVE ReceiptRight(x)'
  <2>1. Unmoved(x) /\ ReceiptRight(x)
    BY <1>1, UnmovedWhere DEF ReceiptInv
  <2>. QED
    BY <1>1, <1>2, <2>1, ReceiptBeside
<1>. QED
  BY <1>1, <1>3 DEF ReceiptInv

LEMMA InsertReceiptReceipts ==
  ASSUME StockInv, ReceiptInv, NEW w \in Workers, InsertReceiptDoes(w) PROVE ReceiptInv'
<1>1. PICK x \in Receipts :
        /\ job[w].pc = "insertReceipt" /\ receipt[x].status = "none"
        /\ receipt'[x].status = "kept" /\ entered'[x].lines = job[w].lines
        /\ \A y \in Receipts \ {x} : receipt'[y] = receipt[y] /\ entered'[y] = entered[y]
        /\ Turned(w, "orderStatus", job[w].item, job[w].move, job[w].lines, x)
        /\ UNCHANGED <<item, history, into, counted>>
  BY DEF InsertReceiptDoes
<1>2. job'[w].pc = "orderStatus" /\ job'[w].lines = job[w].lines /\ job'[w].receipt = x
      /\ \A v \in Workers \ {w} : job'[v] = job[v]
  BY <1>1 DEF Turned
<1>3. ASSUME NEW y \in Receipts \ {x} PROVE ReceiptRight(y)'
  <2>1. Unmoved(y) /\ ReceiptRight(y)
    BY <1>1, UnmovedWhere DEF ReceiptInv
  <2>. QED
    BY <1>1, <1>2, <2>1, ReceiptBeside
<1>4. ReceiptRight(x)'
  <2>1. Idle(x) /\ x \notin counted /\ DOMAIN into[x] = {} /\ \A i \in Items : Movements(x, i) = {}
    BY <1>1 DEF ReceiptInv, ReceiptRight
  <2>2. PICK j : j = job'[w]
    OBVIOUS
  <2>3. j.lines \in Seq(ReceiptLine) /\ entered'[x].lines = j.lines
    BY <1>1, <1>2, <2>2 DEF StockInv, StockJob
  <2>4. Left(j) = Len(j.lines) /\ j.pc \notin Moving \cup {"insert"} /\ Len(j.lines) \in Nat
    BY <1>2, <2>2, <2>3 DEF Left, Moving
  <2>5. Sent(x, Len(j.lines))'
    <3>1. (Len(j.lines) + 1)..Len(j.lines) = {}
      BY <2>4
    <3>. QED
      BY <1>1, <2>1, <2>3, <3>1 DEF Sent
  <2>6. \A i \in Items : Nothing(x, i)'
    BY <1>1, <2>1 DEF Nothing, Went, Movements
  <2>7. Midway(j, x)'
    BY <2>3, <2>4, <2>5, <2>6 DEF Midway, Left
  <2>8. Midway(job[w], x)'
    BY <2>2, <2>7 DEF Midway, Left
  <2>9. \A v \in Workers : job'[v].receipt = x => v = w
    BY <1>2, <2>1 DEF Idle
  <2>10. \A v \in Workers : job'[v].receipt = x => Midway(job[v], x)'
    BY <2>8, <2>9
  <2>11. receipt'[x].status # "none" /\ x \notin counted' /\ entered'[x].lines \in Seq(ReceiptLine)
    BY <1>1, <2>1, <2>2, <2>3
  <2>. QED
    BY <2>9, <2>10, <2>11 DEF ReceiptRight
<1>5. job'[w].pc \notin Moving \cup {"insert"}
  BY <1>2 DEF Moving
<1>. QED
  BY <1>1, <1>2, <1>3, <1>4, <1>5 DEF ReceiptInv

LEMMA UpdateOrderStatusReceipts ==
  ASSUME StockInv, ReceiptInv, NEW w \in Workers, UpdateOrderStatusDoes(w) PROVE ReceiptInv'
<1>1. /\ job[w].pc = "orderStatus" /\ job'[w].pc = "lines" /\ job'[w].lines = job[w].lines
      /\ job'[w].receipt = job[w].receipt /\ \A v \in Workers \ {w} : job'[v] = job[v]
      /\ UNCHANGED <<history, into, receipt, entered, counted>>
  BY DEF UpdateOrderStatusDoes, Turned
<1>2. ASSUME NEW x \in Receipts PROVE ReceiptRight(x)'
  <2>1. Unmoved(x) /\ ReceiptRight(x)
    BY <1>1, UnmovedWhere DEF ReceiptInv
  <2>2. CASE job[w].receipt = x
    <3>1. PICK k : k = job'[w]
      OBVIOUS
    <3>2. k.pc \notin Moving \cup {"insert"} /\ job[w].pc \notin Moving /\ k.lines = job[w].lines
      BY <1>1, <3>1 DEF Moving
    <3>3. Midway(k, x)
      BY <2>2, <3>2, MidwayIs, ReceiptIs
    <3>4. Midway(k, x)'
      BY <2>1, <3>2, <3>3, UnmovedMidway
    <3>5. Midway(job[w], x)'
      BY <3>1, <3>4 DEF Midway, Left
    <3>. QED
      BY <1>1, <2>1, <2>2, <3>5, ReceiptGoesOn
  <2>3. CASE job[w].receipt # x
    BY <1>1, <2>1, <2>3, ReceiptBeside
  <2>. QED
    BY <2>2, <2>3
<1>3. job'[w].pc \notin Moving \cup {"insert"}
  BY <1>1 DEF Moving
<1>. QED
  BY <1>1, <1>2, <1>3 DEF ReceiptInv

LEMMA EndReceiptReceipts ==
  ASSUME StockInv, ReceiptInv, NEW w \in Workers, EndReceiptDoes(w) PROVE ReceiptInv'
<1>1. /\ job[w].pc = "lines" /\ job[w].lines = <<>> /\ counted' = counted \cup {job[w].receipt}
      /\ job'[w].pc = "idle" /\ job'[w].receipt = None
      /\ \A v \in Workers \ {w} : job'[v] = job[v]
      /\ UNCHANGED <<history, into, receipt, entered>>
  BY DEF EndReceiptDoes, Turned
<1>2. None \notin Receipts
  BY StockAssumption
<1>3. ASSUME NEW x \in Receipts PROVE ReceiptRight(x)'
  <2>1. Unmoved(x) /\ ReceiptRight(x)
    BY <1>1, UnmovedWhere DEF ReceiptInv
  <2>2. CASE job[w].receipt = x
    <3>1. Midway(job[w], x) /\ Left(job[w]) = 0 /\ job[w].pc \notin Moving
      BY <1>1, <2>2, ReceiptIs DEF Left, Moving
    <3>2. Sent(x, 0) /\ \A i \in Items : Nothing(x, i) \/ Booked(x, i)
      BY <3>1 DEF Midway
    <3>3. Sent(x, 0)' /\ \A i \in Items : (Nothing(x, i) \/ Booked(x, i))'
      BY <2>1, <3>2, UnmovedItems, UnmovedSent
    <3>4. Idle(x)'
      BY <1>1, <1>2, <2>1, <2>2 DEF Idle, ReceiptRight
    <3>5. receipt'[x].status # "none" /\ entered'[x].lines \in Seq(ReceiptLine)
      BY <1>1, <2>1, <2>2 DEF ReceiptRight, Idle
    <3>6. \A v \in Workers : job'[v].receipt # x
      BY <3>4 DEF Idle
    <3>. QED
      BY <3>3, <3>4, <3>5, <3>6 DEF ReceiptRight
  <2>3. CASE job[w].receipt # x
    BY <1>1, <1>2, <2>1, <2>3, ReceiptBeside
  <2>. QED
    BY <2>2, <2>3
<1>4. job'[w].pc \notin Moving \cup {"insert"}
  BY <1>1 DEF Moving
<1>5. counted' \subseteq Receipts
  BY <1>1 DEF ReceiptInv, StockInv, StockJob
<1>. QED
  BY <1>1, <1>3, <1>4, <1>5 DEF ReceiptInv

\* Requests of no receipt.
LEMMA OperatorReceipts ==
  ASSUME StockInv, ReceiptInv, NEW w \in Workers,
         \/ CreateItemDoes(w) \/ UpdateItemDoes(w) \/ AdjustDoes(w) \/ InsertItemDoes(w)
         \/ PatchItemDoes(w),
         UNCHANGED <<receipt, entered, counted>>
  PROVE  ReceiptInv'
<1>1. /\ job'[w].receipt = None /\ \A v \in Workers \ {w} : job'[v] = job[v]
      /\ UNCHANGED <<history, into>>
  BY DEF CreateItemDoes, UpdateItemDoes, AdjustDoes, InsertItemDoes, PatchItemDoes, Turned
<1>2. job'[w].pc \in Moving \cup {"insert"} => job'[w].move.receipt = None
  <2>1. CASE CreateItemDoes(w)
    BY <2>1 DEF CreateItemDoes, Turned, Movement
  <2>2. CASE UpdateItemDoes(w) \/ PatchItemDoes(w)
    BY <2>2 DEF UpdateItemDoes, PatchItemDoes, Turned, Moving
  <2>3. CASE AdjustDoes(w)
    <3>1. PICK i \in Items, type \in {"IN", "OUT", "ADJUST"}, q \in Sums :
            job'[w].move = Adjusted(type, q, item[i].qty)
      BY <2>3 DEF AdjustDoes, Turned
    <3>2. q \in Nat
      BY StockAssumption
    <3>3. item[i].qty \in Int
      BY DEF StockInv, ItemRow
    <3>4. Adjusted(type, q, item[i].qty).receipt = None
      BY <3>2, <3>3, AdjustedMove
    <3>. QED
      BY <3>1, <3>4
  <2>4. CASE InsertItemDoes(w)
    <3>1. /\ job[w].pc = "insert" /\ job[w].receipt = None
          /\ job'[w].move = job[w].move \/ job'[w].pc = "idle"
      BY <2>4 DEF InsertItemDoes, Turned
    <3>. QED
      BY <3>1 DEF ReceiptInv, Moving
  <2>. QED
    BY <2>1, <2>2, <2>3, <2>4
<1>3. None \notin Receipts
  BY StockAssumption
<1>4. ASSUME NEW x \in Receipts PROVE ReceiptRight(x)'
  <2>1. Unmoved(x) /\ ReceiptRight(x)
    BY <1>1, UnmovedWhere DEF ReceiptInv
  <2>. QED
    BY <1>1, <1>3, <2>1, ReceiptBeside
<1>. QED
  BY <1>1, <1>2, <1>4 DEF ReceiptInv

\* What Midway says of the line a request is at.
LEMMA AtTheLine ==
  ASSUME StockInv, ReceiptInv, NEW w \in Workers, NEW x \in Receipts, job[w].receipt = x,
         job[w].pc \in {"lines", "insert"}, job[w].lines # <<>>
  PROVE  LET s == job[w].lines
             L == Len(entered[x].lines) IN
         /\ s \in Seq(ReceiptLine) /\ Len(s) \in Nat /\ Len(s) > 0 /\ Len(s) <= L /\ L \in Nat
         /\ Taken(x, Len(s)) = accepted(Head(s))
         /\ Sent(x, Len(s))
         /\ \A i \in Items : Nothing(x, i) \/ Booked(x, i)
<1>1. /\ Midway(job[w], x) /\ ReceiptRight(x) /\ Left(job[w]) = Len(job[w].lines)
      /\ job[w].pc \notin Moving
  BY ReceiptIs DEF Left, Moving
<1>2. job[w].lines \in Seq(ReceiptLine) /\ entered[x].lines \in Seq(ReceiptLine)
  BY <1>1 DEF StockInv, StockJob, ReceiptRight
<1>3. Len(entered[x].lines) \in Nat
  BY <1>2
<1>4. NthLast(job[w].lines, Len(job[w].lines)) = NthLast(entered[x].lines, Len(job[w].lines))
  BY <1>1, <1>2, TailLines DEF Midway
<1>. QED
  BY <1>1, <1>2, <1>3, <1>4, TailLines DEF Midway, Taken

\* A request at its line sees every item a line went to as moved.
LEMMA SendsOn ==
  ASSUME NEW x, NEW l \in Nat, l > 0, Sent(x, l), l <= Len(entered[x].lines),
         Len(entered[x].lines) \in Nat, Taken(x, l) = 0
  PROVE  Sent(x, l - 1)
<1>1. (l - 1 + 1)..Len(entered[x].lines) = {l} \cup ((l + 1)..Len(entered[x].lines))
  OBVIOUS
<1>. QED
  BY <1>1 DEF Sent

LEMMA NextLineMidway ==
  ASSUME StockInv, ReceiptInv, NEW w \in Workers, NEW x \in Receipts, job[w].receipt = x,
         AtLine(w), Sent(x, Len(job[w].lines) - 1),
         NEW j, j.pc = "lines", j.lines = Tail(job[w].lines)
  PROVE  Midway(j, x)
<1>1. /\ Midway(job[w], x) /\ job[w].lines \in Seq(ReceiptLine)
      /\ entered[x].lines \in Seq(ReceiptLine)
      /\ \A i \in Items : Nothing(x, i) \/ Booked(x, i)
  BY ReceiptIs, AtTheLine DEF AtLine, StockInv, StockJob, ReceiptRight
<1>2. Left(j) = Len(job[w].lines) - 1 /\ j.pc \notin Moving \cup {"insert"}
  BY <1>1, TailLines DEF Left, Moving, AtLine
<1>3. /\ Len(job[w].lines) \in Nat /\ Len(j.lines) = Len(job[w].lines) - 1
      /\ \A n \in 1..Len(j.lines) : NthLast(j.lines, n) = NthLast(job[w].lines, n)
  BY <1>1, TailLines DEF AtLine
<1>4. /\ Len(job[w].lines) <= Len(entered[x].lines)
      /\ \A n \in 1..Len(job[w].lines) :
           NthLast(job[w].lines, n) = NthLast(entered[x].lines, n)
  BY <1>1 DEF Midway
<1>5. Len(entered[x].lines) \in Nat
  BY <1>1
<1>6. \A n \in 1..Len(j.lines) : NthLast(j.lines, n) = NthLast(entered[x].lines, n)
  BY <1>3, <1>4
<1>7. Len(j.lines) <= Len(entered[x].lines)
  BY <1>3, <1>4, <1>5
<1>. QED
  BY <1>1, <1>2, <1>6, <1>7 DEF Midway

LEMMA SkipLineReceipts ==
  ASSUME StockInv, ReceiptInv, NEW w \in Workers, SkipLineDoes(w),
         UNCHANGED <<receipt, entered, counted>>
  PROVE  ReceiptInv'
<1>1. /\ AtLine(w) /\ accepted(Head(job[w].lines)) = 0
      /\ job'[w].pc = "lines" /\ job'[w].lines = Tail(job[w].lines)
      /\ job'[w].receipt = job[w].receipt /\ \A v \in Workers \ {w} : job'[v] = job[v]
      /\ UNCHANGED <<history, into>>
  BY DEF SkipLineDoes, Turned
<1>2. ASSUME NEW x \in Receipts PROVE ReceiptRight(x)'
  <2>1. Unmoved(x) /\ ReceiptRight(x)
    BY <1>1, UnmovedWhere DEF ReceiptInv
  <2>2. CASE job[w].receipt = x
    <3>1. PICK j : j = job'[w]
      OBVIOUS
    <3>2. Sent(x, Len(job[w].lines) - 1)
      BY <1>1, <2>2, AtTheLine, SendsOn DEF AtLine
    <3>3. Midway(j, x)
      BY <1>1, <2>2, <3>1, <3>2, NextLineMidway
    <3>4. j.pc \notin Moving
      BY <1>1, <3>1 DEF Moving
    <3>5. Midway(j, x)'
      BY <2>1, <3>3, <3>4, UnmovedMidway
    <3>6. Midway(job[w], x)'
      BY <3>1, <3>5 DEF Midway, Left
    <3>. QED
      BY <1>1, <2>1, <2>2, <3>6, ReceiptGoesOn
  <2>3. CASE job[w].receipt # x
    BY <1>1, <2>1, <2>3, ReceiptBeside
  <2>. QED
    BY <2>2, <2>3
<1>3. job'[w].pc \notin Moving \cup {"insert"}
  BY <1>1 DEF Moving
<1>. QED
  BY <1>1, <1>2, <1>3 DEF ReceiptInv

LEMMA NewItemReceipts ==
  ASSUME StockInv, ReceiptInv, NEW w \in Workers, NewItemDoes(w),
         UNCHANGED <<receipt, entered, counted>>
  PROVE  ReceiptInv'
<1>. DEFINE a == accepted(Head(job[w].lines))
<1>1. /\ AtLine(w) /\ a > 0
      /\ job'[w].pc = "insert" /\ job'[w].lines = job[w].lines
      /\ job'[w].move = Movement("IN", a, a, job[w].receipt)
      /\ job'[w].receipt = job[w].receipt /\ \A v \in Workers \ {w} : job'[v] = job[v]
      /\ UNCHANGED <<history, into>>
  BY DEF NewItemDoes, Turned
<1>2. ASSUME NEW x \in Receipts PROVE ReceiptRight(x)'
  <2>1. Unmoved(x) /\ ReceiptRight(x)
    BY <1>1, UnmovedWhere DEF ReceiptInv
  <2>2. CASE job[w].receipt = x
    <3>1. PICK j : j = job'[w]
      OBVIOUS
    <3>2. Taken(x, Len(j.lines)) = a
      BY <1>1, <2>2, <3>1, AtTheLine DEF AtLine
    <3>3. j.move.type = "IN" /\ j.move.receipt = x /\ j.move.qty = a
      BY <1>1, <2>2, <3>1 DEF Movement
    <3>4. j.pc \notin Moving /\ job[w].pc \notin Moving /\ j.lines = job[w].lines
      BY <1>1, <3>1 DEF Moving, AtLine
    <3>5. Midway(j, x)
      BY <1>1, <2>2, <3>2, <3>3, <3>4, MidwayIs, ReceiptIs
    <3>6. Midway(j, x)'
      BY <2>1, <3>4, <3>5, UnmovedMidway
    <3>7. Midway(job[w], x)'
      BY <3>1, <3>6 DEF Midway, Left
    <3>. QED
      BY <1>1, <2>1, <2>2, <3>7, ReceiptGoesOn
  <2>3. CASE job[w].receipt # x
    BY <1>1, <2>1, <2>3, ReceiptBeside
  <2>. QED
    BY <2>2, <2>3
<1>3. job'[w].receipt # None
  BY <1>1, StockAssumption DEF StockInv, StockJob, AtLine
<1>. QED
  BY <1>1, <1>2, <1>3 DEF ReceiptInv

\* What sending the line it is at on to item i makes of the receipt of a request.
LEMMA SentTo ==
  ASSUME StockInv, ReceiptInv, NEW w \in Workers, NEW x \in Receipts, job[w].receipt = x,
         job[w].pc \in {"lines", "insert"}, job[w].lines # <<>>,
         accepted(Head(job[w].lines)) > 0, NEW i \in Items, GoesTo(w, i),
         history' = history, entered' = entered, NEW l, l = Len(job[w].lines)
  PROVE  /\ Sent(x, l - 1)' /\ Taken(x, l)' = accepted(Head(job[w].lines))
         /\ \A h \in Items \ {i} : Nothing(x, h)' \/ Booked(x, h)'
         /\ Movements(x, i) = {} => Due(x, i, l)'
         /\ Movements(x, i) # {} => Booked(x, i)'
<1>. PICK L : L = Len(entered[x].lines)
  OBVIOUS
<1>1. /\ l \in Nat /\ l > 0 /\ l <= L /\ L \in Nat /\ Taken(x, l) = accepted(Head(job[w].lines))
      /\ DOMAIN into[x] = {n \in (l + 1)..L : Taken(x, n) > 0}
      /\ \A h \in Items : Nothing(x, h) \/ Booked(x, h)
  BY AtTheLine DEF Sent
<1>2. /\ DOMAIN into'[x] = DOMAIN into[x] \cup {l}
      /\ into'[x][l] = i /\ \A k \in DOMAIN into[x] \ {l} : into'[x][k] = into[x][k]
  BY GoesToIs
<1>3. /\ \A n : Taken(x, n)' = Taken(x, n)
      /\ \A h : Movements(x, h)' = Movements(x, h)
      /\ Len(entered'[x].lines) = L
  BY DEF Taken, Movements
<1>4. Sent(x, l - 1)'
  <2>1. (l - 1 + 1)..L = {l} \cup ((l + 1)..L)
    BY <1>1
  <2>2. {n \in (l - 1 + 1)..L : Taken(x, n) > 0} = DOMAIN into'[x]
    BY <1>1, <1>2, <2>1
  <2>. QED
    BY <1>3, <2>2 DEF Sent
<1>5. l \notin DOMAIN into[x]
  BY <1>1
<1>6. /\ \A h \in Items \ {i} : Went(x, h)' = Went(x, h)
      /\ Went(x, i)' = Went(x, i) \cup {l}
  BY <1>2, <1>5 DEF Went
<1>7. ASSUME NEW h \in Items \ {i} PROVE Nothing(x, h)' \/ Booked(x, h)'
  <2>1. CASE Nothing(x, h)
    BY <1>3, <1>6, <2>1 DEF Nothing
  <2>2. CASE Booked(x, h)
    BY <1>3, <1>6, <2>2 DEF Booked
  <2>. QED
    BY <1>1, <2>1, <2>2
<1>8. ASSUME Movements(x, i) = {} PROVE Due(x, i, l)'
  <2>1. Nothing(x, i)
    BY <1>1, <1>8 DEF Booked
  <2>. QED
    BY <1>3, <1>6, <2>1 DEF Nothing, Due
<1>9. ASSUME Movements(x, i) # {} PROVE Booked(x, i)'
  <2>1. PICK n \in Went(x, i), k \in DOMAIN history[i] :
          /\ \A m \in Went(x, i) : m <= n
          /\ Movements(x, i) = {k}
          /\ history[i][k].type = "IN" /\ history[i][k].qty = Taken(x, n)
    BY <1>1, <1>9 DEF Nothing, Booked
  <2>2. n \in (l + 1)..L
    BY <1>1 DEF Went
  <2>3. n \in Went(x, i)' /\ \A m \in Went(x, i)' : m <= n
    <3>1. l <= n
      BY <1>1, <2>2
    <3>2. \A m \in Went(x, i)' : m \in Went(x, i) \/ m = l
      BY <1>6
    <3>3. n \in Went(x, i)'
      BY <1>6
    <3>. QED
      BY <2>1, <3>1, <3>2, <3>3
  <2>4. k \in DOMAIN history'[i] /\ history'[i][k] = history[i][k]
    BY <2>1
  <2>. QED
    BY <1>3, <2>1, <2>3, <2>4 DEF Booked
<1>. QED
  BY <1>1, <1>3, <1>4, <1>7, <1>8, <1>9

LEMMA LineKept ==
  ASSUME StockInv, NEW w \in Workers, AtLine(w) \/ (job[w].pc = "insert" /\ job[w].receipt # None)
  PROVE  job[w].receipt \in Receipts /\ job[w].lines # <<>> /\ job[w].pc \in {"lines", "insert"}
BY DEF StockInv, StockJob, AtLine

\* Sent on to an item that is to be moved: by a request that found the item, or one
\* that inserted it.
LEMMA ToBeMoved ==
  ASSUME StockInv, ReceiptInv, NEW w \in Workers, NEW x \in Receipts, job[w].receipt = x,
         job[w].pc \in {"lines", "insert"}, job[w].lines # <<>>,
         accepted(Head(job[w].lines)) > 0, NEW i \in Items, GoesTo(w, i), Movements(x, i) = {},
         UNCHANGED <<history, receipt, entered, counted>>,
         job'[w].pc = "write", job'[w].item = i, job'[w].lines = job[w].lines,
         job'[w].receipt = x, \A v \in Workers \ {w} : job'[v] = job[v],
         job'[w].move.type = "IN", job'[w].move.receipt = x,
         job'[w].move.qty = accepted(Head(job[w].lines))
  PROVE  ReceiptInv'
<1>1. ReceiptRight(x)'
  <2>2. PICK j : j = job'[w]
    OBVIOUS
  <2>1. /\ Sent(x, Len(j.lines) - 1)'
        /\ Taken(x, Len(j.lines))' = accepted(Head(job[w].lines))
        /\ \A h \in Items \ {i} : Nothing(x, h)' \/ Booked(x, h)'
        /\ Due(x, i, Len(j.lines))'
    BY <2>2, SentTo
  <2>3. /\ Len(j.lines) <= Len(entered'[x].lines)
        /\ \A n \in 1..Len(j.lines) : NthLast(j.lines, n) = NthLast(entered'[x].lines, n)
    BY <2>2, ReceiptIs DEF Midway
  <2>4. j.pc \in Moving
    BY <2>2 DEF Moving
  <2>6. /\ j.move.type = "IN" /\ j.move.receipt = x /\ j.move.qty > 0
        /\ j.move.qty = Taken(x, Len(j.lines))'
    BY <2>1, <2>2
  <2>7. \A h \in Items : h # i => (Nothing(x, h)' \/ Booked(x, h)')
    BY <2>1
  <2>8. Midway(j, x)'
    BY <2>2, <2>3, <2>1, <2>4, <2>6, <2>7 DEF Midway, Left
  <2>9. Midway(job[w], x)'
    BY <2>2, <2>8 DEF Midway, Left
  <2>. QED
    BY <2>9, ReceiptIs, ReceiptGoesOn
<1>2. ASSUME NEW y \in Receipts \ {x} PROVE ReceiptRight(y)'
  <2>1. into'[y] = into[y]
    BY GoesToIs
  <2>2. Unmoved(y) /\ ReceiptRight(y)
    BY <2>1, UnmovedWhere DEF ReceiptInv
  <2>. QED
    BY <2>2, ReceiptBeside
<1>3. job'[w].receipt # None
  BY StockAssumption
<1>. QED
  BY <1>1, <1>2, <1>3 DEF ReceiptInv

LEMMA ApplyLineReceipts ==
  ASSUME StockInv, ReceiptInv, NEW w \in Workers, ApplyLineDoes(w),
         UNCHANGED <<receipt, entered, counted>>
  PROVE  ReceiptInv'
<1>. DEFINE a == accepted(Head(job[w].lines))
<1>. PICK x : x = job[w].receipt
  OBVIOUS
<1>1. PICK i \in Items :
        /\ GoesTo(w, i)
        /\ IF Referenced(x, i)
           THEN Turned(w, "lines", job[w].item, job[w].move, Tail(job[w].lines), x)
           ELSE Turned(w, "write", i, Movement("IN", a, item[i].qty + a, x), job[w].lines, x)
  BY DEF ApplyLineDoes
<1>2. /\ AtLine(w) /\ a > 0 /\ x \in Receipts /\ job[w].lines # <<>>
      /\ job[w].pc \in {"lines", "insert"} /\ history' = history
  BY LineKept DEF ApplyLineDoes
<1>3. Referenced(x, i) <=> Movements(x, i) # {}
  BY DEF Referenced, Movements
<1>. HIDE DEF a
<1>4. CASE ~Referenced(x, i)
  <2>. DEFINE m == Movement("IN", a, item[i].qty + a, x)
  <2>1. m.type = "IN" /\ m.receipt = x /\ m.qty = a
    BY DEF Movement
  <2>. HIDE DEF m
  <2>2. Turned(w, "write", i, m, job[w].lines, x)
    BY <1>1, <1>4 DEF m
  <2>3. /\ job'[w].pc = "write" /\ job'[w].item = i /\ job'[w].lines = job[w].lines
        /\ job'[w].receipt = x /\ \A v \in Workers \ {w} : job'[v] = job[v]
        /\ job'[w].move = m
    BY <2>2 DEF Turned
  <2>. QED
    BY <1>1, <1>2, <1>3, <1>4, <2>1, <2>3, ToBeMoved DEF a
<1>5. CASE Referenced(x, i)
  <2>1. /\ job'[w].pc = "lines" /\ job'[w].lines = Tail(job[w].lines)
        /\ job'[w].receipt = x /\ \A v \in Workers \ {w} : job'[v] = job[v]
    BY <1>1, <1>5 DEF Turned
  <2>0. PICK l : l = Len(job[w].lines)
    OBVIOUS
  <2>2. /\ Sent(x, l - 1)' /\ Booked(x, i)'
        /\ \A h \in Items \ {i} : Nothing(x, h)' \/ Booked(x, h)'
    <3>1. Movements(x, i) # {} /\ GoesTo(w, i) /\ accepted(Head(job[w].lines)) > 0
      BY <1>1, <1>2, <1>3, <1>5 DEF a
    <3>2. job[w].receipt = x /\ x \in Receipts /\ entered' = entered /\ history' = history
      BY <1>2
    <3>3. job[w].pc \in {"lines", "insert"} /\ job[w].lines # <<>>
      BY <1>2
    <3>4. /\ Sent(x, l - 1)' /\ \A h \in Items \ {i} : Nothing(x, h)' \/ Booked(x, h)'
      BY <2>0, <3>1, <3>2, <3>3, SentTo
    <3>5. Movements(x, i) # {} => Booked(x, i)'
      BY <2>0, <3>1, <3>2, <3>3, SentTo
    <3>. QED
      BY <3>1, <3>4, <3>5
  <2>3. PICK j : j = job'[w]
    OBVIOUS
  <2>4. /\ job[w].lines \in Seq(ReceiptLine) /\ entered[x].lines \in Seq(ReceiptLine)
        /\ Len(job[w].lines) <= Len(entered[x].lines)
        /\ \A n \in 1..Len(job[w].lines) :
             NthLast(job[w].lines, n) = NthLast(entered[x].lines, n)
    BY <1>2, ReceiptIs DEF Midway, ReceiptRight, StockInv, StockJob
  <2>5. /\ Len(job[w].lines) \in Nat /\ Len(j.lines) = Len(job[w].lines) - 1
        /\ \A n \in 1..Len(j.lines) : NthLast(j.lines, n) = NthLast(job[w].lines, n)
    BY <1>2, <2>1, <2>3, <2>4, TailLines
  <2>6. Len(entered[x].lines) \in Nat
    BY <2>4
  <2>7. /\ Len(j.lines) <= Len(entered'[x].lines)
        /\ \A n \in 1..Len(j.lines) : NthLast(j.lines, n) = NthLast(entered'[x].lines, n)
    BY <2>4, <2>5, <2>6, SMTT(30)
  <2>8. j.pc \notin Moving \cup {"insert"} /\ Left(j) = l - 1
    BY <2>0, <2>1, <2>3, <2>5 DEF Left, Moving
  <2>9. Sent(x, Left(j))'
    BY <2>2, <2>8
  <2>10. \A h \in Items : Nothing(x, h)' \/ Booked(x, h)'
    BY <2>2
  <2>11. Midway(j, x)'
    BY <2>7, <2>8, <2>9, <2>10 DEF Midway
  <2>12. Midway(job[w], x)'
    BY <2>3, <2>11 DEF Midway, Left
  <2>13. ReceiptRight(x)'
    BY <1>2, <2>1, <2>12, ReceiptIs, ReceiptGoesOn
  <2>14. ASSUME NEW y \in Receipts \ {x} PROVE ReceiptRight(y)'
    <3>1. into'[y] = into[y]
      BY <1>1, <1>2, GoesToIs
    <3>2. Unmoved(y) /\ ReceiptRight(y)
      BY <1>2, <3>1, UnmovedWhere DEF ReceiptInv
    <3>. QED
      BY <2>1, <3>2, ReceiptBeside
  <2>15. job'[w].pc \notin Moving \cup {"insert"}
    BY <2>1 DEF Moving
  <2>. QED
    BY <2>1, <2>13, <2>14, <2>15 DEF ReceiptInv
<1>. QED
  BY <1>4, <1>5

LEMMA InsertNewItemReceipts ==
  ASSUME StockInv, ReceiptInv, NEW w \in Workers, InsertNewItemDoes(w),
         UNCHANGED <<receipt, entered, counted>>
  PROVE  ReceiptInv'
<1>. DEFINE x == job[w].receipt
<1>1. PICK i \in Items :
        /\ GoesTo(w, i) /\ ~Kept(i)
        /\ Turned(w, "write", i, job[w].move, job[w].lines, x)
  BY DEF InsertNewItemDoes, Inserted
<1>2. /\ job[w].pc = "insert" /\ x \in Receipts /\ job[w].lines # <<>> /\ history' = history
      /\ job[w].pc \in {"lines", "insert"}
  BY LineKept DEF InsertNewItemDoes
<1>3. history[i] = <<>>
  BY <1>1 DEF StockInv, Kept, NoItem
<1>4. Movements(x, i) = {}
  BY <1>3 DEF Movements
<1>5. /\ job[w].move.type = "IN" /\ job[w].move.receipt = x
      /\ job[w].move.qty = Taken(x, Len(job[w].lines)) /\ job[w].move.qty > 0
  BY <1>2, ReceiptIs DEF Midway
<1>6. Taken(x, Len(job[w].lines)) = accepted(Head(job[w].lines))
  BY <1>2, AtTheLine
<1>7. /\ job'[w].pc = "write" /\ job'[w].item = i /\ job'[w].lines = job[w].lines
      /\ job'[w].receipt = x /\ \A v \in Workers \ {w} : job'[v] = job[v]
      /\ job'[w].move = job[w].move
  BY <1>1 DEF Turned
<1>. QED
  BY <1>1, <1>2, <1>4, <1>5, <1>6, <1>7, ToBeMoved

LEMMA WriteQuantityReceipts ==
  ASSUME StockInv, ReceiptInv, NEW w \in Workers, WriteQuantityDoes(w),
         UNCHANGED <<receipt, entered, counted>>
  PROVE  ReceiptInv'
<1>1. /\ job[w].pc = "write" /\ job'[w].pc = "movement" /\ job'[w].lines = job[w].lines
      /\ job'[w].item = job[w].item /\ job'[w].move = job[w].move
      /\ job'[w].receipt = job[w].receipt /\ \A v \in Workers \ {w} : job'[v] = job[v]
      /\ UNCHANGED <<history, into>>
  BY DEF WriteQuantityDoes, Turned
<1>2. job[w].item \in Items
  BY <1>1 DEF StockInv, StockJob, Moving
<1>3. ASSUME NEW x \in Receipts PROVE ReceiptRight(x)'
  <2>1. Unmoved(x) /\ ReceiptRight(x)
    BY <1>1, UnmovedWhere DEF ReceiptInv
  <2>2. CASE job[w].receipt = x
    <3>1. PICK j : j = job'[w]
      OBVIOUS
    <3>2. /\ j.pc \in Moving /\ job[w].pc \in Moving /\ j.lines = job[w].lines
          /\ j.item = job[w].item /\ j.move = job[w].move
      BY <1>1, <3>1 DEF Moving
    <3>3. Midway(j, x)
      BY <2>2, <3>2, ReceiptIs DEF Midway, Left
    <3>4. Midway(j, x)'
      BY <1>2, <2>1, <3>2, <3>3, UnmovedMidway
    <3>5. Midway(job[w], x)'
      BY <3>1, <3>4 DEF Midway, Left
    <3>. QED
      BY <1>1, <2>1, <2>2, <3>5, ReceiptGoesOn
  <2>3. CASE job[w].receipt # x
    BY <1>1, <2>1, <2>3, ReceiptBeside
  <2>. QED
    BY <2>2, <2>3
<1>4. job'[w].receipt = None => job'[w].move.receipt = None
  BY <1>1 DEF ReceiptInv, Moving
<1>. QED
  BY <1>1, <1>3, <1>4 DEF ReceiptInv

\* A movement appended is of its receipt and of no other.
LEMMA MovementsGrow ==
  ASSUME StockInv, NEW i \in Items, NEW m,
         history'[i] = Append(history[i], m),
         \A h \in Items \ {i} : history'[h] = history[h]
  PROVE  LET k == Len(history[i]) + 1 IN
         /\ k \in DOMAIN history'[i] /\ history'[i][k] = m
         /\ \A x : Movements(x, i)' = IF x = m.receipt THEN Movements(x, i) \cup {k}
                                      ELSE Movements(x, i)
         /\ \A x : \A n \in Movements(x, i) : history'[i][n] = history[i][n]
         /\ \A h \in Items \ {i} : \A x : Movements(x, h)' = Movements(x, h)
<1>. PICK s : s = history[i]
  OBVIOUS
<1>. PICK t : t = history'[i]
  OBVIOUS
<1>1. s \in Seq(Move) /\ t = Append(s, m)
  BY DEF StockInv
<1>2. /\ Len(s) \in Nat /\ DOMAIN s = 1..Len(s) /\ DOMAIN t = 1..(Len(s) + 1)
      /\ t[Len(s) + 1] = m /\ \A n \in 1..Len(s) : t[n] = s[n]
  BY <1>1
<1>3. DOMAIN t = DOMAIN s \cup {Len(s) + 1} /\ Len(s) + 1 \notin DOMAIN s
  BY <1>2
<1>4. \A n \in DOMAIN s : t[n] = s[n]
  BY <1>2
<1>5. \A x : {n \in DOMAIN t : t[n].receipt = x} =
              IF x = m.receipt THEN {n \in DOMAIN s : s[n].receipt = x} \cup {Len(s) + 1}
              ELSE {n \in DOMAIN s : s[n].receipt = x}
  BY <1>2, <1>3, <1>4
<1>6. \A h \in Items \ {i} : \A x : Movements(x, h)' = Movements(x, h)
  BY DEF Movements
<1>. QED
  BY <1>2, <1>3, <1>4, <1>5, <1>6 DEF Movements

LEMMA RecordMovementReceipts ==
  ASSUME StockInv, ReceiptInv, NEW w \in Workers, RecordMovementDoes(w),
         UNCHANGED <<receipt, entered, counted>>
  PROVE  ReceiptInv'
<1>. PICK i : i = job[w].item
  OBVIOUS
<1>. PICK m : m = job[w].move
  OBVIOUS
<1>1. /\ i \in Items /\ job[w].receipt \in Receipts \cup {None} /\ job[w].pc \in Moving
      /\ job[w].lines \in Seq(ReceiptLine)
      /\ job[w].receipt # None => job[w].lines # <<>>
  BY DEF StockInv, StockJob, Moving, RecordMovementDoes
<1>2. /\ history'[i] = Append(history[i], m)
      /\ \A h \in Items \ {i} : history'[h] = history[h]
      /\ into' = into
  BY RecordMovementStock DEF RecordMovementDoes
<1>3. m.receipt = job[w].receipt
  BY <1>1, ReceiptIs DEF ReceiptInv, Midway
<1>4. ASSUME NEW x \in Receipts, x # job[w].receipt PROVE Unmoved(x)
  BY <1>1, <1>2, <1>3, <1>4, MovementsGrow, SMTT(30) DEF Unmoved
<1>5. /\ \A v \in Workers \ {w} : job'[v] = job[v]
      /\ job'[w].pc \notin Moving \cup {"insert"}
      /\ job'[w].receipt = job[w].receipt
  BY DEF RecordMovementDoes, Turned, Moving
<1>6. ASSUME NEW x \in Receipts, x # job[w].receipt PROVE ReceiptRight(x)'
  BY <1>4, <1>5, <1>6, ReceiptBeside DEF ReceiptInv
<1>7. ASSUME NEW x \in Receipts, x = job[w].receipt PROVE ReceiptRight(x)'
  <2>. PICK l : l = Len(job[w].lines)
    OBVIOUS
  <2>. PICK k : k = Len(history[i]) + 1
    OBVIOUS
  <2>1. /\ Midway(job[w], x) /\ ReceiptRight(x) /\ Left(job[w]) = l - 1
    BY <1>1, <1>7, ReceiptIs DEF Left
  <2>2. /\ Sent(x, l - 1) /\ Due(x, i, l) /\ m.type = "IN" /\ m.qty = Taken(x, l)
        /\ \A h \in Items \ {i} : Nothing(x, h) \/ Booked(x, h)
    BY <1>1, <2>1 DEF Midway
  <2>3. x # None
    BY StockAssumption
  <2>4. job'[w].pc = "lines" /\ job'[w].lines = Tail(job[w].lines)
    BY <1>7, <2>3 DEF RecordMovementDoes, Turned
  <2>5. /\ \A n : Taken(x, n)' = Taken(x, n)
        /\ \A h : Went(x, h)' = Went(x, h)
    BY <1>2 DEF Taken, Went
  <2>6. Sent(x, l - 1)'
    BY <1>2, <2>2, <2>5 DEF Sent
  <2>7. Booked(x, i)'
    <3>1. Movements(x, i)' = {k} /\ k \in DOMAIN history'[i] /\ history'[i][k] = m
      BY <1>1, <1>2, <1>3, <1>7, <2>2, MovementsGrow, SMTT(30) DEF Due
    <3>2. Went(x, i)' = {l} /\ l \in Nat
      BY <1>1, <2>2, <2>5 DEF Due
    <3>. QED
      BY <2>2, <2>5, <3>1, <3>2, SMTT(30) DEF Booked
  <2>8. ASSUME NEW h \in Items \ {i} PROVE Nothing(x, h)' \/ Booked(x, h)'
    <3>1. Movements(x, h)' = Movements(x, h) /\ history'[h] = history[h]
      BY <1>1, <1>2, MovementsGrow
    <3>2. CASE Nothing(x, h)
      BY <2>5, <3>1, <3>2 DEF Nothing
    <3>3. CASE Booked(x, h)
      BY <2>5, <3>1, <3>3 DEF Booked
    <3>. QED
      BY <2>2, <3>2, <3>3
  <2>9. PICK j : j = job'[w]
    OBVIOUS
  <2>10. /\ l \in Nat /\ Len(j.lines) = l - 1
         /\ \A n \in 1..Len(j.lines) : NthLast(j.lines, n) = NthLast(job[w].lines, n)
    BY <1>1, <1>7, <2>3, <2>4, <2>9, TailLines
  <2>11. /\ l <= Len(entered[x].lines) /\ entered' = entered
         /\ \A n \in 1..l : NthLast(job[w].lines, n) = NthLast(entered[x].lines, n)
    BY <2>1 DEF Midway
  <2>12. Len(entered[x].lines) \in Nat
    BY <2>1 DEF ReceiptRight
  <2>13. /\ Len(j.lines) <= Len(entered'[x].lines)
         /\ \A n \in 1..Len(j.lines) : NthLast(j.lines, n) = NthLast(entered'[x].lines, n)
    BY <2>10, <2>11, <2>12
  <2>14. j.pc \notin Moving \cup {"insert"} /\ Left(j) = l - 1
    BY <1>5, <2>9, <2>10 DEF Left
  <2>15. Sent(x, Left(j))'
    BY <2>6, <2>14
  <2>16. \A h \in Items : Nothing(x, h)' \/ Booked(x, h)'
    BY <2>7, <2>8
  <2>17. Midway(j, x)'
    BY <2>13, <2>14, <2>15, <2>16 DEF Midway
  <2>18. Midway(job[w], x)'
    BY <2>9, <2>17 DEF Midway, Left
  <2>. QED
    BY <1>5, <1>7, <2>1, <2>18, ReceiptGoesOn
<1>. QED
  BY <1>5, <1>6, <1>7 DEF ReceiptInv

LEMMA ReceiptAtFirst == Init => ReceiptInv
<1>. SUFFICES ASSUME Init PROVE ReceiptInv
  OBVIOUS
<1>1. /\ history = [i \in Items |-> <<>>] /\ job = [w \in Workers |-> NoJob]
      /\ into = [x \in Receipts |-> <<>>] /\ counted = {}
      /\ entered = [x \in Receipts |-> NoReceipt("none")]
  BY DEF Init, StockInit
<1>2. NoReceipt("none").lines = <<>>
  BY DEF NoReceipt
<1>3. None \notin Receipts
  BY StockAssumption
<1>4. ASSUME NEW x \in Receipts PROVE ReceiptRight(x)
  <2>1. Idle(x) /\ \A w \in Workers : job[w].receipt # x
    BY <1>1, <1>3, NoJobFields DEF Idle
  <2>2. entered[x].lines \in Seq(ReceiptLine)
    BY <1>1, <1>2, EmptyLines
  <2>3. DOMAIN into[x] = {} /\ \A i \in Items : Movements(x, i) = {}
    BY <1>1 DEF Movements
  <2>. QED
    BY <1>1, <2>1, <2>2, <2>3 DEF ReceiptRight
<1>. QED
  BY <1>1, <1>4, NoJobFields DEF ReceiptInv, Moving

LEMMA ReceiptStays == PaperInv /\ StockInv /\ ReceiptInv /\ [Next]_vars => ReceiptInv'
<1>. SUFFICES ASSUME PaperInv, StockInv, ReceiptInv, [Next]_vars PROVE ReceiptInv'
  OBVIOUS
<1>1. CASE Editing
  <2>1. /\ \A x \in Receipts : receipt'[x].status = "none" <=> receipt[x].status = "none"
        /\ UNCHANGED <<history, job, into, entered, counted>>
    BY <1>1 DEF Editing
  <2>2. ASSUME NEW x \in Receipts PROVE ReceiptRight(x)'
    <3>1. Unmoved(x) /\ ReceiptRight(x)
      BY <2>1, UnmovedWhere DEF ReceiptInv
    <3>. QED
      BY <2>1, <3>1, ReceiptSame
  <2>. QED
    BY <2>1, <2>2 DEF ReceiptInv
<1>2. ASSUME NEW w \in Workers, WorkerDoes(w) PROVE ReceiptInv'
  BY <1>2, AsideReceipts, InsertReceiptReceipts, UpdateOrderStatusReceipts, EndReceiptReceipts,
     OperatorReceipts, SkipLineReceipts, NewItemReceipts, ApplyLineReceipts,
     InsertNewItemReceipts, WriteQuantityReceipts, RecordMovementReceipts
  DEF WorkerDoes, StockDoes
<1>. QED
  BY <1>1, <1>2, Steps

LEMMA ReceiptDecides == ReceiptInv => ReceivedOnce
<1>. SUFFICES ASSUME ReceiptInv, NEW x \in counted
              PROVE  /\ DOMAIN into[x] = {n \in 1..Len(entered[x].lines) : Taken(x, n) > 0}
                     /\ \A i \in Items :
                          /\ Went(x, i) # {} => Movements(x, i) # {}
                          /\ \E line \in [Movements(x, i) -> Went(x, i)] :
                               /\ \A k, l \in Movements(x, i) : line[k] = line[l] => k = l
                               /\ \A k \in Movements(x, i) :
                                    /\ history[i][k].type = "IN"
                                    /\ history[i][k].qty = Taken(x, line[k])
  BY DEF ReceivedOnce
<1>. x \in Receipts
  BY DEF ReceiptInv
<1>1. Sent(x, 0) /\ \A i \in Items : Nothing(x, i) \/ Booked(x, i)
  BY DEF ReceiptInv, ReceiptRight
<1>2. DOMAIN into[x] = {n \in 1..Len(entered[x].lines) : Taken(x, n) > 0}
  BY <1>1 DEF Sent
<1>3. ASSUME NEW i \in Items
      PROVE  /\ Went(x, i) # {} => Movements(x, i) # {}
             /\ \E line \in [Movements(x, i) -> Went(x, i)] :
                  /\ \A k, l \in Movements(x, i) : line[k] = line[l] => k = l
                  /\ \A k \in Movements(x, i) :
                       /\ history[i][k].type = "IN"
                       /\ history[i][k].qty = Taken(x, line[k])
  <2>1. CASE Nothing(x, i)
    <3>. DEFINE line == [k \in Movements(x, i) |-> k]
    <3>1. Movements(x, i) = {} /\ Went(x, i) = {} /\ line \in [Movements(x, i) -> Went(x, i)]
      BY <2>1 DEF Nothing
    <3>. QED
      BY <3>1
  <2>2. ASSUME NEW n \in Went(x, i), NEW k \in DOMAIN history[i], Movements(x, i) = {k},
               history[i][k].type = "IN", history[i][k].qty = Taken(x, n)
        PROVE  /\ Movements(x, i) # {}
               /\ \E line \in [Movements(x, i) -> Went(x, i)] :
                    /\ \A j, l \in Movements(x, i) : line[j] = line[l] => j = l
                    /\ \A l \in Movements(x, i) :
                         /\ history[i][l].type = "IN"
                         /\ history[i][l].qty = Taken(x, line[l])
    <3>. DEFINE line == [l \in {k} |-> n]
    <3>1. line \in [Movements(x, i) -> Went(x, i)] /\ line[k] = n
      BY <2>2
    <3>. HIDE DEF line
    <3>. QED
      BY <2>2, <3>1
  <2>. QED
    BY <1>1, <2>1, <2>2 DEF Booked
<1>. QED
  BY <1>2, <1>3

\* No line of a receipt is counted twice, whoever else moves the items and whatever
\* becomes of the receipt: every line went to an item, every item a line went to was
\* moved, and each of its movements stands for a line of its own.
THEOREM ReceivedOnceHolds == Spec => []ReceivedOnce
<1>1. Init => PaperInv /\ StockInv /\ ReceiptInv
  BY PaperInit, StockAtFirst, ReceiptAtFirst
<1>2. PaperInv /\ StockInv /\ ReceiptInv /\ [Next]_vars => (PaperInv /\ StockInv /\ ReceiptInv)'
  BY PaperStep, StockStays, ReceiptStays
<1>. QED
  BY <1>1, <1>2, ReceiptDecides, PTL DEF Spec

=============================================================================
