--------------------------- MODULE SocietyProofs ---------------------------
(***************************************************************************)
(* Proofs about the desks of the office, for any rows, requests in flight  *)
(* and desks staffed.                                                      *)
(*                                                                         *)
(* OfficeInv types requests and rows and says why a key is held by one row *)
(* only: a request inserts a key it found free, and two that do so upset   *)
(* the key.  KindInv lists what a request has left to write, wherever it   *)
(* touches the columns the other invariants are about; a step that does    *)
(* not is one of Leaving.  ThreadInv is why a thread only grows, and       *)
(* TransferInv why a transfer moves its plot once: they say what is true   *)
(* of the row at each point of the one request that is about it.           *)
(* OwnerInv says of a plot's history what it must, whoever is the owner,   *)
(* and what it has instead while one request changes him.                  *)
(* ShelfInv and MarkInv say which request has the previous version of a    *)
(* document still to mark, while one is unmarked.                          *)
(***************************************************************************)
EXTENDS SocietyProperties, SequenceTheorems, FiniteSetTheorems, TLAPS

-----------------------------------------------------------------------------
(* Requests                                                                *)

Left(w) == ToSet(job[w].todo)
Sequence(s) == s \in Seq(ToSet(s))

JobRecord(j) ==
  /\ j = [todo |-> j.todo, wrote |-> j.wrote]
  /\ Sequence(j.todo) /\ j.wrote \in BOOLEAN

RequestInv ==
  /\ DOMAIN file = Ids /\ file = [id \in Ids |-> file[id]]
  /\ DOMAIN job = Workers /\ job = [w \in Workers |-> job[w]]
  /\ \A w \in Workers : JobRecord(job[w])

LEMMA IdleJob == JobRecord(Idle) /\ ToSet(Idle.todo) = {} /\ Idle.todo = <<>> /\ ~Idle.wrote
BY DEF JobRecord, Idle, Sequence, ToSet

LEMMA IsSequence ==
  ASSUME NEW S, NEW s \in Seq(S)
  PROVE  Sequence(s)
<1>1. s \in [1..Len(s) -> S] /\ Len(s) \in Nat
  OBVIOUS
<1>2. s = [k \in 1..Len(s) |-> s[k]] /\ \A k \in 1..Len(s) : s[k] \in ToSet(s)
  BY <1>1 DEF ToSet
<1>3. s \in [1..Len(s) -> ToSet(s)]
  BY <1>2
<1> QED
  BY <1>1, <1>3, SeqDef DEF Sequence

LEMMA Numbered ==
  ASSUME NEW s, NEW n \in Nat, s = [k \in 1..n |-> s[k]]
  PROVE  Sequence(s) /\ ToSet(s) = {s[k] : k \in 1..n}
<1>1. DOMAIN s = 1..n
  OBVIOUS
<1>2. ToSet(s) = {s[k] : k \in 1..n}
  BY <1>1 DEF ToSet
<1>3. \A k \in 1..n : s[k] \in ToSet(s)
  BY <1>2
<1>4. s \in [1..n -> ToSet(s)]
  BY <1>3
<1>5. s \in Seq(ToSet(s))
  BY <1>4, SeqDef
<1> QED
  BY <1>2, <1>5 DEF Sequence

\* A finite set in some order.
LEMMA Ordered ==
  ASSUME NEW S, IsFiniteSet(S)
  PROVE  LET s == SetToSeq(S) IN
         /\ \E n \in Nat : DOMAIN s = 1..n
         /\ \A k \in DOMAIN s : s[k] \in S
         /\ \A j, k \in DOMAIN s : s[j] = s[k] => j = k
<1> DEFINE n == Cardinality(S)
<1>1. n \in Nat /\ ExistsBijection(1..n, S)
  BY FS_CardinalityType
<1>2. \E f \in [1..n -> S] : IsInjective(f)
  BY <1>1 DEF ExistsBijection, Bijection, Injection
<1>3. SetToSeq(S) \in [1..n -> S] /\ IsInjective(SetToSeq(S))
  BY <1>2 DEF SetToSeq
<1> QED
  BY <1>1, <1>3 DEF IsInjective

\* What is left of a sequence after its head.
LEMMA Behead ==
  ASSUME NEW s, Sequence(s), s # <<>>
  PROVE  /\ Sequence(Tail(s))
         /\ Head(s) \in ToSet(s) /\ Head(s) = s[1]
         /\ ToSet(Tail(s)) \subseteq ToSet(s)
         /\ \A k \in DOMAIN Tail(s) : k + 1 \in DOMAIN s /\ Tail(s)[k] = s[k + 1] /\ k \in Nat
         /\ \A k \in DOMAIN s : k = 1 \/ s[k] \in ToSet(Tail(s))
<1> DEFINE S == ToSet(s)
<1>1. s \in Seq(S) /\ Len(s) \in Nat \ {0} /\ DOMAIN s = 1..Len(s)
  BY DEF Sequence
<1>2. Tail(s) \in Seq(S) /\ Len(Tail(s)) = Len(s) - 1 /\ DOMAIN Tail(s) = 1..(Len(s) - 1)
  BY <1>1
<1>3. \A k \in 1..(Len(s) - 1) : Tail(s)[k] = s[k + 1]
  BY <1>1, <1>2
<1>4. \A k \in DOMAIN s : k = 1 \/ k - 1 \in 1..(Len(s) - 1)
  BY <1>1
<1>5. \A k \in DOMAIN s : k = 1 \/ s[k] \in ToSet(Tail(s))
  BY <1>1, <1>2, <1>3, <1>4 DEF ToSet
<1>6. ToSet(Tail(s)) \subseteq ToSet(s)
  BY <1>1, <1>2, <1>3 DEF ToSet
<1>7. Head(s) = s[1] /\ s[1] \in ToSet(s)
  BY <1>1 DEF ToSet
<1>8. Sequence(Tail(s))
  BY <1>2, IsSequence
<1> QED
  BY <1>1, <1>2, <1>3, <1>5, <1>6, <1>7, <1>8

LEMMA Tuple1 == ASSUME NEW x PROVE Sequence(<<x>>) /\ ToSet(<<x>>) = {x}
BY DEF Sequence, ToSet

LEMMA Tuple2 == ASSUME NEW x, NEW y PROVE Sequence(<<x, y>>) /\ ToSet(<<x, y>>) = {x, y}
BY DEF Sequence, ToSet

LEMMA Tuple0 == Sequence(<<>>) /\ ToSet(<<>>) = {}
BY DEF Sequence, ToSet

\* Sequences one after the other.
LEMMA Joined ==
  ASSUME NEW s, NEW t, Sequence(s), Sequence(t)
  PROVE  Sequence(s \o t) /\ ToSet(s \o t) = ToSet(s) \cup ToSet(t)
<1> DEFINE S == ToSet(s) \cup ToSet(t)
           u == s \o t
<1>1. s \in Seq(S) /\ t \in Seq(S) /\ Len(s) \in Nat /\ Len(t) \in Nat
  BY DEF Sequence
<1>2. u \in Seq(S) /\ Len(u) = Len(s) + Len(t) /\ DOMAIN u = 1..(Len(s) + Len(t))
  BY <1>1
<1>3. /\ \A k \in 1..Len(s) : u[k] = s[k]
      /\ \A k \in 1..Len(t) : u[Len(s) + k] = t[k] /\ Len(s) + k \in DOMAIN u
  BY <1>1, <1>2
<1>4. \A k \in DOMAIN u : k \in 1..Len(s) \/ (k - Len(s) \in 1..Len(t) /\ k = Len(s) + (k - Len(s)))
  BY <1>1, <1>2
<1>5. ToSet(u) = S
  <2>1. \A k \in DOMAIN u : u[k] \in S
    BY <1>1, <1>2
  <2>2. \A k \in 1..Len(s) : s[k] \in ToSet(u)
    BY <1>1, <1>2, <1>3 DEF ToSet
  <2>3. \A k \in 1..Len(t) : t[k] \in ToSet(u)
    BY <1>1, <1>2, <1>3 DEF ToSet
  <2>4. ToSet(u) \subseteq S
    BY <2>1 DEF ToSet
  <2>5. ToSet(s) \subseteq ToSet(u) /\ ToSet(t) \subseteq ToSet(u)
    <3>1. DOMAIN s = 1..Len(s) /\ DOMAIN t = 1..Len(t)
      BY <1>1
    <3>2. ASSUME NEW y \in ToSet(s) PROVE \E k \in 1..Len(s) : y = s[k]
      BY <3>1 DEF ToSet
    <3>3. ASSUME NEW y \in ToSet(t) PROVE \E k \in 1..Len(t) : y = t[k]
      BY <3>1 DEF ToSet
    <3> HIDE DEF u
    <3> QED
      BY <2>2, <2>3, <3>2, <3>3
  <2> QED
    BY <2>4, <2>5
<1> QED
  BY <1>2, <1>5, IsSequence

\* A worker turns to a list of writes; the others keep theirs.
Turns(w, s) ==
  /\ DOMAIN job' = Workers /\ job' = [v \in Workers |-> job'[v]]
  /\ job'[w].todo = s /\ JobRecord(job[w])'
  /\ \A v \in Workers \ {w} : job'[v] = job[v]

LEMMA Proceeds ==
  ASSUME RequestInv, NEW w \in Workers, NEW s, Sequence(s), Proceed(w, s)
  PROVE  Turns(w, s) /\ (s # <<>> => job'[w].wrote)
<1>1. job'[w] = IF s = <<>> THEN Idle ELSE [todo |-> s, wrote |-> TRUE]
  BY DEF Proceed, RequestInv
<1>2. JobRecord([todo |-> s, wrote |-> TRUE])
  BY DEF JobRecord
<1> QED
  BY <1>1, <1>2, IdleJob DEF Proceed, RequestInv, Turns

LEMMA Beginning ==
  ASSUME RequestInv, NEW w \in Workers, NEW s, Sequence(s), Begin(w, s)
  PROVE  /\ Turns(w, s) /\ job[w] = Idle /\ ~job'[w].wrote
         /\ file' = file /\ upset \subseteq upset' 
         /\ Columns(s) \cap UNION {Pending(v) : v \in Workers \ {w}} \subseteq upset'
<1>1. job'[w] = [todo |-> s, wrote |-> FALSE]
  BY DEF Begin, RequestInv
<1>2. JobRecord([todo |-> s, wrote |-> FALSE])
  BY DEF JobRecord
<1> QED
  BY <1>1, <1>2, IdleJob DEF Begin, RequestInv, Turns, Collisions

LEMMA Dying ==
  ASSUME RequestInv, NEW w \in Workers, Die(w)
  PROVE  /\ Turns(w, <<>>) /\ file' = file /\ upset \subseteq upset'
         /\ job[w].wrote => Pending(w) \subseteq upset'
<1>1. job'[w] = Idle
  BY DEF Die, RequestInv
<1> QED
  BY <1>1, IdleJob DEF Die, RequestInv, Turns

\* A row after a statement.
Result(x, row) ==
  IF x.op = "insert" THEN x.patch
  ELSE IF x.op = "update" /\ row # NoRow THEN Over(x.patch, row) ELSE NoRow

LEMMA Writing ==
  ASSUME RequestInv, NEW w \in Workers, Write(w)
  PROVE  LET x == Head(job[w].todo) IN
         /\ Turns(w, Tail(job[w].todo)) /\ upset' = upset
         /\ job[w].todo # <<>> /\ x.op \in Statements
         /\ x \in Left(w)
         /\ DOMAIN file' = Ids /\ file' = [id \in Ids |-> file'[id]]
         /\ \A id \in Ids : file'[id] = IF id = x.id THEN Result(x, file[id]) ELSE file[id]
         /\ Tail(job[w].todo) # <<>> => job'[w].wrote
<1> DEFINE x == Head(job[w].todo)
<1>1. Sequence(job[w].todo) /\ job[w].todo # <<>> /\ x.op \in Statements
  BY DEF RequestInv, JobRecord, Write
<1>2. x \in Left(w) /\ Sequence(Tail(job[w].todo))
  BY <1>1, Behead DEF Left
<1>3. Turns(w, Tail(job[w].todo)) /\ (Tail(job[w].todo) # <<>> => job'[w].wrote)
  BY <1>2, Proceeds DEF Write
<1>4. file' = After(file, x)
  BY DEF Write
<1>5. DOMAIN file' = Ids /\ file' = [id \in Ids |-> file'[id]]
  BY <1>4 DEF After, RequestInv
<1>6. ASSUME NEW id \in Ids PROVE file'[id] = IF id = x.id THEN Result(x, file[id]) ELSE file[id]
  <2>1. CASE id # x.id
    BY <2>1, <1>4 DEF After, RequestInv
  <2>2. CASE id = x.id
    BY <2>2, <1>4 DEF After, RequestInv, Result
  <2> QED
    BY <2>1, <2>2
<1> QED
  BY <1>1, <1>2, <1>3, <1>5, <1>6 DEF Write

-----------------------------------------------------------------------------
(* What the desks begin                                                    *)

Keyed(x) == x.op # "check" /\ "key" \in DOMAIN x.patch

\* No other row has the key that is to be written, or it is disturbed.
FreeKey(x) ==
  Keyed(x) => \A i \in Holders(x.patch.key) : i = x.id \/ ~Undisturbed(x.patch.key, "key")

KeysFree(s) ==
  /\ \A x \in ToSet(s) : FreeKey(x)
  /\ \A x, y \in ToSet(s) : Keyed(x) /\ Keyed(y) /\ x.patch.key = y.patch.key => x.id = y.id

\* Columns that the invariants are about, and the tables they are in.  Applications
\* are for a plot.
Telling == {"key", "owner", "since", "by", "subject", "version", "thread", "plot", "member",
            "from", "to"}
Shared  == Plots \cup Documents \cup Complaints \cup WorkOrders
Applications == Transfers \cup Possessions \cup Constructions

\* What a row of a table has.
HistoryRow(r) ==
  /\ {"plot", "member", "since", "by", "status"} \subseteq DOMAIN r /\ "key" \notin DOMAIN r
  /\ r.plot \in Plots /\ r.member \in Members /\ r.since \in History

TransfersRow(r) ==
  /\ {"plot", "from", "to", "status"} \subseteq DOMAIN r /\ "key" \notin DOMAIN r
  /\ r.plot \in Plots /\ r.from \in Members /\ r.to \in Members

PlotRow(r) ==
  /\ {"owner", "since", "status"} \subseteq DOMAIN r
  /\ r.owner \in Members \cup {None} /\ (r.owner # None => r.since \in History)

DocRow(r) ==
  /\ {"subject", "version", "by", "key"} \subseteq DOMAIN r
  /\ r.subject \in Subjects /\ r.version \in 1..MaxVersion /\ r.by \in Documents \cup {None}
  /\ r.key = <<"document", r.subject, r.version>>

Typed(id, r) ==
  /\ id \in History => HistoryRow(r)
  /\ id \in Transfers => TransfersRow(r)
  /\ id \in Possessions \cup Constructions => "plot" \in DOMAIN r /\ r.plot \in Plots
  /\ id \in Plots => PlotRow(r)
  /\ id \in Documents => DocRow(r)
  /\ id \in Complaints \cup WorkOrders => "thread" \in DOMAIN r /\ r.thread \in Seq(Workers)
  /\ "key" \in DOMAIN r => r.key[1] # "document" \/ id \in Documents

\* A patch that leaves a row of its table typed.
Compatible(id, p) ==
  /\ id \in History \cup Applications => \A c \in Telling : c \notin DOMAIN p
  /\ id \in Plots =>
       /\ \A c \in Telling \ {"owner", "since"} : c \notin DOMAIN p
       /\ "owner" \in DOMAIN p \/ "since" \in DOMAIN p =>
            /\ {"owner", "since"} \subseteq DOMAIN p /\ p.owner \in Members \cup {None}
            /\ p.owner # None => p.since \in History
  /\ id \in Documents =>
       /\ \A c \in Telling \ {"by"} : c \notin DOMAIN p
       /\ "by" \in DOMAIN p => p.by \in Documents
  /\ id \in Complaints \cup WorkOrders => ("thread" \in DOMAIN p => p.thread \in Seq(Workers))
  /\ "key" \in DOMAIN p => p.key[1] # "document"

Fits(x) ==
  /\ x.op = "delete" => x.id \notin History \cup Shared \cup Applications
  /\ x.op = "insert" => x.id \notin Plots /\ Typed(x.id, x.patch)
  /\ x.op = "update" => Compatible(x.id, x.patch)

Harmless(x) ==
  /\ x.op \in Statements
  /\ x.id \notin History \cup Transfers
  /\ x.id \in Shared => x.op = "update" /\ \A c \in Telling : c \notin DOMAIN x.patch
  /\ Fits(x)

RowInv ==
  /\ \A id \in Ids : file[id] # NoRow => Typed(id, file[id])
  /\ \A p \in Plots : file[p] # NoRow
  /\ \A w \in Workers : \A x \in Left(w) : Fits(x)

Brief(w, s) == Begin(w, s) /\ Sequence(s) /\ KeysFree(s)

Aside(w) == \E s : Brief(w, s) /\ \A x \in ToSet(s) : Harmless(x)

Apart(T) == T \cap (History \cup Shared \cup Applications) = {}

LEMMA TablesApart ==
  /\ Apart(Inspections) /\ Apart(Nocs) /\ Apart(Batches)
  /\ Apart(Assets) /\ Apart(Employees) /\ Apart(Marks) /\ Apart(Leaves) /\ Apart(Guards)
  /\ Apart(Duties) /\ Apart(Visits) /\ Apart(Passes) /\ Apart(Blacklist) /\ Apart(Vehicles)
  /\ Apart(Appointments) /\ Apart(Notices) /\ Apart(Notifications) /\ Apart(Invoices)
  /\ Apart(Spendings) /\ Apart(Persons)
<1>1. \A i, j \in 1..27 : i # j => Tables[i] \cap Tables[j] = {}
  BY TablesAssumption DEF Tables
<1>2. \A i \in 1..27 : i \notin {1, 2, 3, 4, 5, 9, 10, 22} =>
        Tables[i] \cap (Tables[1] \cup Tables[2] \cup Tables[3] \cup Tables[4] \cup Tables[5]
                         \cup Tables[9] \cup Tables[10] \cup Tables[22]) = {}
  BY <1>1
<1>3. \A i \in 1..27 : i \notin {1, 2, 3, 4, 5, 9, 10, 22} => Apart(Tables[i])
  BY <1>2 DEF Apart, Shared, Applications, Tables
<1> QED
  BY <1>3 DEF Tables

LEMMA MainTablesApart ==
  /\ History \cap (Shared \cup Applications) = {} /\ Applications \cap Shared = {}
  /\ Transfers \cap (Possessions \cup Constructions) = {} /\ Possessions \cap Constructions = {}
  /\ Plots \cap (Documents \cup Complaints \cup WorkOrders) = {}
  /\ Documents \cap (Complaints \cup WorkOrders) = {} /\ Complaints \cap WorkOrders = {}
  /\ History \cup Shared \cup Applications \subseteq Ids
<1>1. \A i, j \in 1..27 : Tables[i] \subseteq Ids /\ (i # j => Tables[i] \cap Tables[j] = {})
  BY TablesAssumption DEF Tables
<1>2. \A i, j \in {1, 2, 3, 4, 5, 9, 10, 22} :
        Tables[i] \subseteq Ids /\ (i # j => Tables[i] \cap Tables[j] = {})
  BY <1>1
<1> QED
  BY <1>2 DEF Shared, Applications, Tables

LEMMA UnusedIs == ASSUME NEW T, NEW id \in Unused(T) PROVE id \in T /\ Fresh(id)
BY DEF Unused

LEMMA WriteFields ==
  ASSUME NEW id, NEW p
  PROVE  /\ Insert(id, p).op = "insert" /\ Insert(id, p).id = id /\ Insert(id, p).patch = p
         /\ Update(id, p).op = "update" /\ Update(id, p).id = id /\ Update(id, p).patch = p
         /\ Delete(id).op = "delete" /\ Delete(id).id = id /\ Delete(id).patch = NoRow
         /\ Insert(id, p).op \in Statements /\ Update(id, p).op \in Statements
         /\ Delete(id).op \in Statements
         /\ "key" \notin DOMAIN NoRow
         /\ \A c \in Telling : c \notin DOMAIN NoRow
BY DEF Insert, Update, Delete, Statements, NoRow, Telling

LEMMA OneWrite ==
  ASSUME NEW w, NEW x, Begin(w, <<x>>), Harmless(x), FreeKey(x)
  PROVE  Aside(w)
<1>1. Sequence(<<x>>) /\ ToSet(<<x>>) = {x}
  BY Tuple1
<1>2. Brief(w, <<x>>)
  BY <1>1 DEF Brief, KeysFree
<1> QED
  BY <1>1, <1>2 DEF Aside

\* What fits a table that no invariant is about, and what fits any.
LEMMA FitsApart ==
  ASSUME NEW T, Apart(T), NEW id \in T, NEW p, "key" \in DOMAIN p => p.key[1] # "document"
  PROVE  /\ Harmless(Insert(id, p)) /\ Harmless(Update(id, p)) /\ Harmless(Delete(id))
<1>1. id \notin History \cup Shared \cup Applications
  BY DEF Apart
<1>2. Typed(id, p) /\ Compatible(id, p)
  BY <1>1 DEF Typed, Compatible, Shared, Applications
<1>3. Fits(Insert(id, p)) /\ Fits(Update(id, p)) /\ Fits(Delete(id))
  BY <1>1, <1>2, WriteFields DEF Fits, Shared
<1> QED
  BY <1>1, <1>3, WriteFields DEF Harmless, Applications

LEMMA FitsPlain ==
  ASSUME NEW id, NEW patch, \A c \in Telling : c \notin DOMAIN patch
  PROVE  Fits(Update(id, patch)) /\ ~Keyed(Update(id, patch))
<1>1. Compatible(id, patch)
  BY DEF Compatible, Telling
<1> QED
  BY <1>1, WriteFields DEF Fits, Keyed, Telling

LEMMA PlainUpdate ==
  ASSUME NEW id, id \notin History \cup Transfers, NEW patch, \A c \in Telling : c \notin DOMAIN patch
  PROVE  Harmless(Update(id, patch)) /\ ~Keyed(Update(id, patch))
BY FitsPlain, WriteFields DEF Harmless

LEMMA Inserts ==
  ASSUME NEW w, NEW T, Apart(T), NEW id \in T, NEW row, Begin(w, <<Insert(id, row)>>),
         "key" \in DOMAIN row => Holders(row.key) = {} /\ row.key[1] # "document"
  PROVE  Aside(w)
<1>1. Harmless(Insert(id, row))
  BY FitsApart
<1>2. FreeKey(Insert(id, row))
  BY WriteFields DEF FreeKey, Keyed
<1> QED
  BY <1>1, <1>2, OneWrite

LEMMA Updates ==
  ASSUME NEW w, NEW id, id \notin History \cup Transfers, NEW patch, Begin(w, <<Update(id, patch)>>),
         \A c \in Telling : c \notin DOMAIN patch
  PROVE  Aside(w)
BY PlainUpdate, OneWrite DEF FreeKey

LEMMA Deletes ==
  ASSUME NEW w, NEW T, Apart(T), NEW id \in T, Begin(w, <<Delete(id)>>)
  PROVE  Aside(w)
<1>1. Harmless(Delete(id)) /\ FreeKey(Delete(id))
  BY FitsApart, WriteFields DEF FreeKey, Keyed
<1> QED
  BY <1>1, OneWrite

\* The patches that tell of none of those columns.
LEMMA Plain ==
  ASSUME NEW a, NEW b
  PROVE  \A c \in Telling :
           /\ c \notin DOMAIN [status |-> a] /\ c \notin DOMAIN [paid |-> a]
           /\ c \notin DOMAIN [found |-> a] /\ c \notin DOMAIN [sticker |-> a]
           /\ c \notin DOMAIN [costed |-> a] /\ c \notin DOMAIN [shift |-> a]
           /\ c \notin DOMAIN [refreshed |-> a] /\ c \notin DOMAIN [url |-> a]
           /\ c \notin DOMAIN [status |-> a, verified |-> b]
           /\ c \notin DOMAIN [status |-> a, cleared |-> b]
           /\ c \notin DOMAIN [status |-> a, paid |-> b]
           /\ c \notin DOMAIN [status |-> a, validTo |-> b]
           /\ c \notin DOMAIN [status |-> a, action |-> b]
           /\ c \notin DOMAIN [status |-> a, expiry |-> b]
           /\ c \notin DOMAIN [status |-> a, resolved |-> b]
           /\ c \notin DOMAIN <<>>
BY DEF Telling

\* A row of the plot's applications is there, and names a plot.
LEMMA PlotOf ==
  ASSUME RowInv, NEW a \in Applications \cap Ids, file[a].status # "none"
  PROVE  file[a].plot \in Plots
<1>1. Typed(a, file[a])
  BY DEF RowInv, NoRow
<1> QED
  BY <1>1 DEF Typed, Applications, TransfersRow

LEMMA FitsApplication ==
  ASSUME NEW a \in Possessions \cup Constructions, NEW row,
         "key" \notin DOMAIN row, "plot" \in DOMAIN row, row.plot \in Plots
  PROVE  Harmless(Insert(a, row)) /\ ~Keyed(Insert(a, row))
<1>1. a \notin History \cup Transfers \cup Shared
  BY MainTablesApart DEF Applications
<1>2. Typed(a, row)
  BY <1>1 DEF Typed, Shared
<1>3. Fits(Insert(a, row))
  BY <1>1, <1>2, WriteFields DEF Fits, Shared
<1> QED
  BY <1>1, <1>3, WriteFields DEF Harmless, Keyed

LEMMA Applies ==
  ASSUME NEW w, NEW a \in Possessions \cup Constructions, NEW row, Begin(w, <<Insert(a, row)>>),
         "key" \notin DOMAIN row, "plot" \in DOMAIN row, row.plot \in Plots
  PROVE  Aside(w)
BY FitsApplication, OneWrite DEF FreeKey

\* A list of writes, none of which has a key.
LEMMA Lists ==
  ASSUME NEW w, NEW s, Begin(w, s), Sequence(s), \A x \in ToSet(s) : Harmless(x) /\ ~Keyed(x)
  PROVE  Aside(w)
BY DEF Aside, Brief, KeysFree, FreeKey

LEMMA PossessionAside ==
  ASSUME RowInv, NEW w, PossessionSteps(w)
  PROVE  Aside(w)
<1>0. Possessions \cap (History \cup Transfers) = {} /\ Plots \cap (History \cup Transfers) = {}
      /\ Possessions \subseteq Applications \cap Ids
  BY MainTablesApart DEF Applications, Shared
<1>1. ASSUME NEW a \in Possessions, NEW p \in Plots, CreatePossession(w, a, p) PROVE Aside(w)
  <2>1. /\ "key" \notin DOMAIN PossessionRow(p) /\ "plot" \in DOMAIN PossessionRow(p)
        /\ PossessionRow(p).plot = p
    BY DEF PossessionRow
  <2> QED
    BY <1>1, <2>1, Applies DEF CreatePossession
<1>2. ASSUME NEW a \in Possessions,
             VerifyPossession(w, a) \/ PayCharges(w, a) \/ ApprovePossession(w, a) \/ RejectPossession(w, a)
      PROVE  Aside(w)
  BY <1>0, <1>2, Updates, Plain
     DEF VerifyPossession, PayCharges, ApprovePossession, RejectPossession
<1>3. ASSUME NEW a \in Possessions, IssuePossession(w, a) PROVE Aside(w)
  <2>1. file[a].plot \notin History \cup Transfers
    BY <1>0, <1>3, PlotOf DEF IssuePossession
  <2> QED
    BY <1>0, <1>3, <2>1, Tuple2, Lists, PlainUpdate, Plain DEF IssuePossession
<1> QED
  BY <1>1, <1>2, <1>3 DEF PossessionSteps

LEMMA ConstructionAside ==
  ASSUME RowInv, NEW w, ConstructionSteps(w)
  PROVE  Aside(w)
<1>0. Constructions \cap (History \cup Transfers) = {} /\ Plots \cap (History \cup Transfers) = {}
      /\ Constructions \subseteq Applications \cap Ids /\ Inspections \cap (History \cup Transfers) = {}
  BY MainTablesApart, TablesApart DEF Applications, Shared, Apart
<1>1. ASSUME NEW c \in Constructions, NEW p \in Plots, CreateConstruction(w, c, p) PROVE Aside(w)
  <2> DEFINE x == Insert(c, ConstructionRow(p))
             y == Update(p, [status |-> "Under Construction"])
  <2>1. /\ "key" \notin DOMAIN ConstructionRow(p) /\ "plot" \in DOMAIN ConstructionRow(p)
        /\ ConstructionRow(p).plot = p
    BY DEF ConstructionRow
  <2>2. Begin(w, <<x>> \o <<y>>) \/ Begin(w, <<x>> \o <<>>)
    BY <1>1 DEF CreateConstruction
  <2>3. Harmless(x) /\ ~Keyed(x)
    BY <2>1, FitsApplication
  <2>4. Harmless(y) /\ ~Keyed(y)
    BY <1>0, PlainUpdate, Plain
  <2> HIDE DEF x, y
  <2>5. /\ Sequence(<<x>> \o <<y>>) /\ ToSet(<<x>> \o <<y>>) = {x, y}
        /\ Sequence(<<x>> \o <<>>) /\ ToSet(<<x>> \o <<>>) = {x}
    BY Tuple0, Tuple1, Joined
  <2> QED
    BY <2>2, <2>3, <2>4, <2>5, Lists
<1>2. ASSUME NEW c \in Constructions, ReviewConstruction(w, c) \/ RejectConstruction(w, c)
      PROVE  Aside(w)
  BY <1>0, <1>2, Updates, Plain DEF ReviewConstruction, RejectConstruction
<1>3. ASSUME NEW c \in Constructions, ApproveConstruction(w, c) PROVE Aside(w)
  <2>1. file[c].plot \notin History \cup Transfers
    BY <1>0, <1>3, PlotOf DEF ApproveConstruction
  <2> QED
    BY <1>0, <1>3, <2>1, Tuple2, Lists, PlainUpdate, Plain DEF ApproveConstruction
<1>4. ASSUME NEW c \in Constructions, NEW i \in Inspections, NEW found \in BOOLEAN,
             AddInspection(w, c, i, found) \/ UpdateInspection(w, i, found)
      PROVE  Aside(w)
  <2>1. "key" \notin DOMAIN InspectionRow(c, found)
    BY DEF InspectionRow
  <2> QED
    BY <1>0, <1>4, <2>1, Inserts, Updates, Plain, TablesApart DEF AddInspection, UpdateInspection
<1> QED
  BY <1>1, <1>2, <1>3, <1>4 DEF ConstructionSteps

LEMMA NocAside ==
  ASSUME NEW w, NocSteps(w)
  PROVE  Aside(w)
<1>0. Nocs \cap (History \cup Transfers) = {}
  BY TablesApart DEF Apart, Applications
<1>1. ASSUME NEW n \in Nocs, NEW m \in Members, NEW p \in Plots, CreateNoc(w, n, m, p) PROVE Aside(w)
  <2>1. "key" \notin DOMAIN NocRow(m, p)
    BY DEF NocRow
  <2> QED
    BY <1>1, <2>1, Inserts, TablesApart DEF CreateNoc
<1>2. ASSUME NEW n \in Nocs,
             VerifyNoc(w, n) \/ ClearDues(w, n) \/ PayFee(w, n) \/ ApproveNoc(w, n) \/ IssueNoc(w, n)
      PROVE  Aside(w)
  BY <1>0, <1>2, Updates, Plain DEF VerifyNoc, ClearDues, PayFee, ApproveNoc, IssueNoc
<1> QED
  BY <1>1, <1>2 DEF NocSteps

LEMMA BatchAside ==
  ASSUME NEW w, BatchSteps(w)
  PROVE  Aside(w)
<1>0. Batches \cap (History \cup Transfers) = {}
  BY TablesApart DEF Apart, Applications
<1>1. ASSUME NEW r \in Batches, NEW plots, CreateBatch(w, r, plots) PROVE Aside(w)
  <2>1. "key" \notin DOMAIN BatchRow(plots)
    BY DEF BatchRow
  <2> QED
    BY <1>1, <2>1, Inserts, TablesApart DEF CreateBatch
<1>2. ASSUME NEW r \in Batches, CompleteBatch(w, r) PROVE Aside(w)
  BY <1>0, <1>2, Updates, Plain DEF CompleteBatch
<1> QED
  BY <1>1, <1>2 DEF BatchSteps

LEMMA EmployeeAside ==
  ASSUME NEW w, EmployeeSteps(w)
  PROVE  Aside(w)
<1>0. Employees \cap (History \cup Transfers) = {}
  BY TablesApart DEF Apart, Applications
<1>1. ASSUME NEW e \in Employees, NEW n, CreateEmployee(w, e, n) PROVE Aside(w)
  <2>1. EmployeeRow(n).key = <<"employee", n>> /\ EmployeeRow(n).key[1] # "document"
    BY DEF EmployeeRow
  <2> QED
    BY <1>1, <2>1, Inserts, UnusedIs, TablesApart DEF CreateEmployee
<1>2. ASSUME NEW e \in Employees, NEW s, UpdateEmployee(w, e, s) PROVE Aside(w)
  BY <1>0, <1>2, Updates, Plain DEF UpdateEmployee
<1>3. ASSUME NEW e \in Employees, DeleteEmployee(w, e) PROVE Aside(w)
  BY <1>3, Deletes, TablesApart DEF DeleteEmployee
<1> QED
  BY <1>1, <1>2, <1>3 DEF EmployeeSteps

LEMMA LeaveAside ==
  ASSUME NEW w, LeaveSteps(w)
  PROVE  Aside(w)
<1>0. Leaves \cap (History \cup Transfers) = {}
  BY TablesApart DEF Apart, Applications
<1>1. ASSUME NEW l \in Leaves, NEW e, NEW days, NEW limited, CreateLeave(w, l, e, days, limited) PROVE Aside(w)
  <2>1. "key" \notin DOMAIN LeaveRow(e, days, limited)
    BY DEF LeaveRow
  <2> QED
    BY <1>1, <2>1, Inserts, UnusedIs, TablesApart DEF CreateLeave
<1>2. ASSUME NEW l \in Leaves, NEW s, UpdateLeave(w, l, s) PROVE Aside(w)
  BY <1>0, <1>2, Updates, Plain DEF UpdateLeave
<1>3. ASSUME NEW l \in Leaves, DeleteLeave(w, l) PROVE Aside(w)
  BY <1>3, Deletes, TablesApart DEF DeleteLeave
<1> QED
  BY <1>1, <1>2, <1>3 DEF LeaveSteps

\* The row found by a key is none of the ownership history or of a transfer.
LEMMA Found == ASSUME RowInv, NEW key, NEW id \in Holders(key) PROVE id \notin History \cup Transfers
<1>1. id \in Ids /\ "key" \in DOMAIN file[id]
  BY DEF Holders
<1>2. Typed(id, file[id])
  BY <1>1, WriteFields DEF RowInv
<1> QED
  BY <1>1, <1>2 DEF Typed, HistoryRow, TransfersRow

LEMMA GuardAside ==
  ASSUME RowInv, NEW w, GuardSteps(w)
  PROVE  Aside(w)
<1>0. Guards \cap (History \cup Transfers) = {}
  BY TablesApart DEF Apart, Applications
<1>1. ASSUME NEW g \in Guards, CreateGuard(w, g) PROVE Aside(w)
  <2>1. "key" \notin DOMAIN GuardRow
    BY DEF GuardRow
  <2> QED
    BY <1>1, <2>1, Inserts, UnusedIs, TablesApart DEF CreateGuard
<1>2. ASSUME NEW g \in Guards, NEW s, UpdateGuard(w, g, s) PROVE Aside(w)
  BY <1>0, <1>2, Updates, Plain DEF UpdateGuard
<1>3. ASSUME NEW g \in Guards, NEW r \in Duties, NEW d, NEW shift, AssignDuty(w, r, g, d, shift)
      PROVE  Aside(w)
  <2>1. DutyRow(g, d, "unmarked", shift).key = Duty(g, d) /\ DutyRow(g, d, "unmarked", shift).key[1] # "document"
    BY DEF DutyRow, Duty
  <2>2. ASSUME NEW found \in Holders(Duty(g, d)), Begin(w, <<Update(found, [shift |-> shift])>>)
        PROVE  Aside(w)
    BY <2>2, Found, Updates, Plain
  <2> QED
    BY <1>3, <2>1, <2>2, Inserts, UnusedIs, TablesApart DEF AssignDuty
<1>4. ASSUME NEW g \in Guards, NEW r \in Duties, NEW d, MarkDuty(w, r, g, d) PROVE Aside(w)
  <2>1. DutyRow(g, d, "Present", file[g].shift).key = Duty(g, d) /\ DutyRow(g, d, "Present", file[g].shift).key[1] # "document"
    BY DEF DutyRow, Duty
  <2>2. ASSUME NEW found \in Holders(Duty(g, d)), Begin(w, <<Update(found, [status |-> "Present"])>>)
        PROVE  Aside(w)
    BY <2>2, Found, Updates, Plain
  <2> QED
    BY <1>4, <2>1, <2>2, Inserts, UnusedIs, TablesApart DEF MarkDuty
<1> QED
  BY <1>1, <1>2, <1>3, <1>4 DEF GuardSteps

LEMMA VisitAside ==
  ASSUME NEW w, VisitSteps(w)
  PROVE  Aside(w)
<1>0. (Visits \cup Passes \cup Blacklist) \cap (History \cup Transfers) = {}
  BY TablesApart DEF Apart, Applications
<1>1. ASSUME NEW v \in Visits, NEW who, NEW s, CreateVisit(w, v, who, s) PROVE Aside(w)
  <2>1. "key" \notin DOMAIN VisitRow(s)
    BY DEF VisitRow
  <2> QED
    BY <1>1, <2>1, Inserts, UnusedIs, TablesApart DEF CreateVisit
<1>2. ASSUME NEW v \in Visits, MarkExit(w, v) PROVE Aside(w)
  BY <1>0, <1>2, Updates, Plain DEF MarkExit
<1>3. ASSUME NEW s \in Passes, NEW n, NEW d, CreatePass(w, s, n, d) PROVE Aside(w)
  <2>1. PassRow(n, d).key = PassKey(n) /\ PassRow(n, d).key[1] # "document"
    BY DEF PassRow, PassKey
  <2> QED
    BY <1>3, <2>1, Inserts, UnusedIs, TablesApart DEF CreatePass
<1>4. ASSUME NEW s \in Passes, NEW status, NEW d, UpdatePass(w, s, status, d) PROVE Aside(w)
  BY <1>0, <1>4, Updates, Plain DEF UpdatePass
<1>5. ASSUME NEW s \in Passes, DeletePass(w, s) PROVE Aside(w)
  BY <1>5, Deletes, TablesApart DEF DeletePass
<1>6. ASSUME NEW b \in Blacklist, NEW action, CreateBlacklist(w, b, action) PROVE Aside(w)
  <2>1. "key" \notin DOMAIN BlacklistRow(action)
    BY DEF BlacklistRow
  <2> QED
    BY <1>6, <2>1, Inserts, UnusedIs, TablesApart DEF CreateBlacklist
<1>7. ASSUME NEW b \in Blacklist, NEW status, NEW action, UpdateBlacklist(w, b, status, action) PROVE Aside(w)
  BY <1>0, <1>7, Updates, Plain DEF UpdateBlacklist
<1>8. ASSUME NEW b \in Blacklist, DeleteBlacklist(w, b) PROVE Aside(w)
  BY <1>8, Deletes, TablesApart DEF DeleteBlacklist
<1> QED
  BY <1>1, <1>2, <1>3, <1>4, <1>5, <1>6, <1>7, <1>8 DEF VisitSteps

LEMMA AppointmentAside ==
  ASSUME NEW w, AppointmentSteps(w)
  PROVE  Aside(w)
<1>0. Appointments \cap (History \cup Transfers) = {}
  BY TablesApart DEF Apart, Applications
<1>1. ASSUME NEW a \in Appointments, NEW host, NEW arrived, CreateAppointment(w, a, host, arrived) PROVE Aside(w)
  <2>1. AppointmentRow(arrived).key = nextTokenNumber /\ AppointmentRow(arrived).key[1] # "document"
    BY DEF AppointmentRow, nextTokenNumber
  <2> QED
    BY <1>1, <2>1, Inserts, UnusedIs, TablesApart DEF CreateAppointment
<1>2. ASSUME NEW a \in Appointments, CheckIn(w, a) \/ CheckOut(w, a) PROVE Aside(w)
  BY <1>0, <1>2, Updates, Plain DEF CheckIn, CheckOut
<1> QED
  BY <1>1, <1>2 DEF AppointmentSteps

\* A key that no other row has, or that is disturbed, on a row of its table.
LEMMA Rekeys ==
  ASSUME NEW w, NEW T, Apart(T), NEW id \in T, NEW key, Begin(w, <<Update(id, [key |-> key])>>),
         key[1] # "document",
         \A i \in Holders(key) : i = id \/ ~Undisturbed(key, "key")
  PROVE  Aside(w)
<1>1. Harmless(Update(id, [key |-> key])) /\ FreeKey(Update(id, [key |-> key]))
  BY FitsApart, WriteFields DEF FreeKey, Keyed
<1> QED
  BY <1>1, OneWrite

\* Of two rows with one key, the key is disturbed.
OneHolder ==
  \A i, j \in Ids : "key" \in DOMAIN file[i] /\ "key" \in DOMAIN file[j]
                      /\ file[i].key = file[j].key /\ i # j => ~Undisturbed(file[i].key, "key")

LEMMA VehicleAside ==
  ASSUME OneHolder, NEW w, VehicleSteps(w)
  PROVE  Aside(w)
<1>0. Vehicles \cap (History \cup Transfers) = {}
  BY TablesApart DEF Apart, Applications
<1>1. ASSUME NEW c \in Vehicles, NEW n, CreateVehicle(w, c, n) PROVE Aside(w)
  <2>1. VehicleRow(n).key = Plate(n) /\ VehicleRow(n).key[1] # "document"
    BY DEF VehicleRow, Plate
  <2> QED
    BY <1>1, <2>1, Inserts, UnusedIs, TablesApart DEF CreateVehicle
<1>2. ASSUME NEW c \in Vehicles, NEW n, UpdateVehicle(w, c, n) PROVE Aside(w)
  <2>1. \A i \in Holders(Plate(n)) : i = c \/ ~Undisturbed(Plate(n), "key")
    BY <1>2 DEF UpdateVehicle, OneHolder, Holders
  <2>2. Plate(n)[1] # "document"
    BY DEF Plate
  <2> QED
    BY <1>2, <2>1, <2>2, Rekeys, TablesApart DEF UpdateVehicle
<1>3. ASSUME NEW c \in Vehicles, NEW status, UpdateVehicleStatus(w, c, status) \/ IssueSticker(w, c) PROVE Aside(w)
  BY <1>0, <1>3, Updates, Plain DEF UpdateVehicleStatus, IssueSticker
<1>4. ASSUME NEW c \in Vehicles, DeleteVehicle(w, c) PROVE Aside(w)
  BY <1>4, Deletes, TablesApart DEF DeleteVehicle
<1> QED
  BY <1>1, <1>2, <1>3, <1>4 DEF VehicleSteps

LEMMA MemberAside ==
  ASSUME NEW w, MemberSteps(w)
  PROVE  Aside(w) \/ ImportSteps(w)
<1>0. Persons \cap (History \cup Transfers) = {}
  BY TablesApart DEF Apart, Applications
<1>1. ASSUME NEW m \in Persons, NEW c, CreateMember(w, m, c) PROVE Aside(w)
  <2>1. MemberRow(c).key = CnicKey(c) /\ MemberRow(c).key[1] # "document"
    BY DEF MemberRow, CnicKey
  <2> QED
    BY <1>1, <2>1, Inserts, UnusedIs, TablesApart DEF CreateMember
<1>2. ASSUME NEW m \in Persons, NEW c, UpdateMember(w, m, c) PROVE Aside(w)
  <2>1. CnicKey(c)[1] # "document"
    BY DEF CnicKey
  <2> QED
    BY <1>2, <2>1, Rekeys, TablesApart DEF UpdateMember
<1>3. ASSUME NEW m \in Persons, NEW s, UpdateMemberStatus(w, m, s) PROVE Aside(w)
  BY <1>0, <1>3, Updates, Plain DEF UpdateMemberStatus
<1> QED
  BY <1>1, <1>2, <1>3 DEF MemberSteps

LEMMA AttendanceAside ==
  ASSUME NEW w, AttendanceSteps(w)
  PROVE  Aside(w)
<1>0. Marks \cap (History \cup Transfers) = {}
  BY TablesApart DEF Apart, Applications
<1>a. ASSUME NEW m \in Marks, NEW e, NEW d
      PROVE  /\ Mark(m, e, d).id = m /\ Mark(m, e, d).patch.key = Marking(e, d)
             /\ Harmless(Mark(m, e, d))
  BY FitsApart, WriteFields, TablesApart DEF Mark, Marking
<1>b. ASSUME NEW e, NEW d, NEW f, Marking(e, d) = Marking(f, d) PROVE e = f
  BY <1>b DEF Marking
<1>1. ASSUME NEW m \in Marks, NEW e, NEW d, CreateMark(w, m, e, d) PROVE Aside(w)
  BY <1>1, <1>a, OneWrite DEF CreateMark, FreeKey
<1>2. ASSUME NEW d, NEW sheet, BulkMark(w, d, sheet) PROVE Aside(w)
  <2> DEFINE S == {m \in Marks : sheet[m] # None}
             ms == SetToSeq(S)
             s == [k \in DOMAIN ms |-> Mark(ms[k], sheet[ms[k]], d)]
  <2>1. IsFiniteSet(S)
    BY MarksAssumption, FS_Subset
  <2>2. /\ \E n \in Nat : DOMAIN ms = 1..n
        /\ \A k \in DOMAIN ms : ms[k] \in Marks
    BY <2>1, Ordered
  <2>3. /\ Begin(w, s)
        /\ \A j, k \in DOMAIN ms : sheet[ms[j]] = sheet[ms[k]] => j = k
        /\ \A k \in DOMAIN ms : Holders(Marking(sheet[ms[k]], d)) = {}
    BY <1>2 DEF BulkMark
  <2> HIDE DEF ms
  <2>4. Sequence(s) /\ \A x \in ToSet(s) : \E k \in DOMAIN ms : x = Mark(ms[k], sheet[ms[k]], d)
    <3>1. PICK n \in Nat : DOMAIN ms = 1..n
      BY <2>2
    <3>2. s = [k \in 1..n |-> s[k]]
      BY <3>1
    <3>3. Sequence(s) /\ ToSet(s) = {s[k] : k \in 1..n}
      BY <3>2, Numbered
    <3> QED
      BY <3>1, <3>3
  <2>5. \A x \in ToSet(s) : Harmless(x) /\ FreeKey(x)
    BY <2>2, <2>3, <2>4, <1>a DEF FreeKey
  <2>6. \A x, y \in ToSet(s) : x.patch.key = y.patch.key => x.id = y.id
    BY <2>2, <2>3, <2>4, <1>a, <1>b
  <2> HIDE DEF s
  <2> QED
    BY <2>3, <2>4, <2>5, <2>6 DEF Aside, Brief, KeysFree
<1>3. ASSUME NEW m \in Marks, UpdateMark(w, m) PROVE Aside(w)
  BY <1>0, <1>3, Updates, Plain DEF UpdateMark
<1>4. ASSUME NEW m \in Marks, DeleteMark(w, m) PROVE Aside(w)
  BY <1>4, Deletes, TablesApart DEF DeleteMark
<1> QED
  BY <1>1, <1>2, <1>3, <1>4 DEF AttendanceSteps

\* A list of deliveries of an event: nobody who has a notification of it gets another.
Delivering(d) ==
  /\ Sequence(d) /\ \A x \in ToSet(d) : Harmless(x) /\ FreeKey(x)
  /\ \A x, y \in ToSet(d) : x.patch.key = y.patch.key => x.id = y.id

LEMMA Delivered ==
  ASSUME NEW event, NEW d \in Deliveries(event)
  PROVE  Delivering(d)
<1> DEFINE S == {u \in Users : Holders(<<"event", u, event>>) = {}}
           users == SetToSeq(S)
<1>a. ASSUME NEW n \in Notifications, NEW u
      PROVE  /\ News(n, u, event).id = n /\ News(n, u, event).patch.key = <<"event", u, event>>
             /\ Harmless(News(n, u, event))
  BY FitsApart, WriteFields, TablesApart DEF News
<1>1. IsFiniteSet(S)
  BY RecordsAssumption, FS_Subset
<1>2. /\ \E n \in Nat : DOMAIN users = 1..n
      /\ \A k \in DOMAIN users : users[k] \in S
      /\ \A j, k \in DOMAIN users : users[j] = users[k] => j = k
  BY <1>1, Ordered
<1>3. PICK rows \in [DOMAIN users -> {n \in Notifications : Fresh(n)}] :
        d = [k \in DOMAIN users |-> News(rows[k], users[k], event)]
  BY DEF Deliveries
<1> HIDE DEF users
<1>4. Sequence(d) /\ \A x \in ToSet(d) : \E k \in DOMAIN users : x = News(rows[k], users[k], event)
  <2>1. PICK n \in Nat : DOMAIN users = 1..n
    BY <1>2
  <2>2. d = [k \in 1..n |-> d[k]]
    BY <1>3, <2>1
  <2>3. Sequence(d) /\ ToSet(d) = {d[k] : k \in 1..n}
    BY <2>2, Numbered
  <2> QED
    BY <1>3, <2>1, <2>3
<1>5. \A x \in ToSet(d) : Harmless(x) /\ FreeKey(x)
  <2>1. SUFFICES ASSUME NEW k \in DOMAIN users
                 PROVE  LET x == News(rows[k], users[k], event) IN Harmless(x) /\ FreeKey(x)
    BY <1>4
  <2>2. rows[k] \in Notifications /\ Holders(<<"event", users[k], event>>) = {}
    BY <1>2
  <2> QED
    BY <2>2, <1>a DEF FreeKey
<1>6. \A x, y \in ToSet(d) : x.patch.key = y.patch.key => x.id = y.id
  BY <1>2, <1>4, <1>a
<1> QED
  BY <1>4, <1>5, <1>6 DEF Delivering

\* Deliveries after at most one write that has no key.
LEMMA AfterOne ==
  ASSUME NEW w, NEW s, NEW d, Sequence(s), \A x \in ToSet(s) : Harmless(x) /\ ~Keyed(x),
         Delivering(d), Begin(w, s \o d)
  PROVE  Aside(w)
<1>1. Sequence(s \o d) /\ ToSet(s \o d) = ToSet(s) \cup ToSet(d)
  BY Joined DEF Delivering
<1>2. KeysFree(s \o d)
  BY <1>1 DEF KeysFree, Delivering, FreeKey
<1> QED
  BY <1>1, <1>2 DEF Aside, Brief, Delivering

LEMMA Saved ==
  ASSUME NEW w, NEW x, NEW write, NEW expiry, NEW publishes, Save(w, x, write, expiry, publishes),
         Harmless(write), ~Keyed(write)
  PROVE  Aside(w)
<1>1. Sequence(<<write>>) /\ ToSet(<<write>>) = {write}
  BY Tuple1
<1>2. CASE Begin(w, <<write>>)
  BY <1>1, <1>2, Lists
<1>3. ASSUME NEW d \in Deliveries(x), Begin(w, <<write>> \o d) PROVE Aside(w)
  BY <1>1, <1>3, Delivered, AfterOne
<1> QED
  BY <1>2, <1>3 DEF Save

LEMMA NoticeAside ==
  ASSUME NEW w, NoticeSteps(w)
  PROVE  Aside(w)
<1>0. (Notices \cup Notifications) \cap (History \cup Transfers) = {}
  BY TablesApart DEF Apart, Applications
<1>1. ASSUME NEW x \in Notices, NEW status, NEW expiry, CreateNotice(w, x, status, expiry) PROVE Aside(w)
  <2>1. "key" \notin DOMAIN NoticeRow(status, expiry)
    BY DEF NoticeRow
  <2>2. Harmless(Insert(x, NoticeRow(status, expiry))) /\ ~Keyed(Insert(x, NoticeRow(status, expiry)))
    BY <2>1, FitsApart, WriteFields, TablesApart DEF Keyed
  <2> QED
    BY <1>1, <2>2, Saved DEF CreateNotice
<1>2. ASSUME NEW x \in Notices, NEW status, NEW expiry, UpdateNotice(w, x, status, expiry) PROVE Aside(w)
  BY <1>0, <1>2, PlainUpdate, Plain, Saved DEF UpdateNotice
<1>3. ASSUME NEW x \in Notices, PublishNotice(w, x) PROVE Aside(w)
  <2>1. PICK d \in Deliveries(x) :
          Begin(w, (IF file[x].status = "Published" THEN <<>>
                    ELSE <<Update(x, [status |-> "Published"])>>) \o d)
    BY <1>3 DEF PublishNotice
  <2>2. Begin(w, <<>> \o d) \/ Begin(w, <<Update(x, [status |-> "Published"])>> \o d)
    BY <2>1
  <2> DEFINE y == Update(x, [status |-> "Published"])
  <2>3. Harmless(y) /\ ~Keyed(y)
    BY <1>0, PlainUpdate, Plain
  <2> HIDE DEF y
  <2>4. Sequence(<<y>>) /\ ToSet(<<y>>) = {y} /\ Sequence(<<>>) /\ ToSet(<<>>) = {} /\ Delivering(d)
    BY Tuple0, Tuple1, Delivered
  <2>5. Begin(w, <<>> \o d) \/ Begin(w, <<y>> \o d)
    BY <2>2 DEF y
  <2> QED
    BY <2>3, <2>4, <2>5, AfterOne
<1>4. ASSUME NEW x \in Notices, RemoveNotice(w, x) PROVE Aside(w)
  BY <1>4, Deletes, TablesApart DEF RemoveNotice
<1>5. ASSUME NEW n \in Notifications, MarkRead(w, n) PROVE Aside(w)
  BY <1>0, <1>5, Updates, Plain DEF MarkRead
<1>6. ASSUME NEW u, MarkAllRead(w, u) PROVE Aside(w)
  <2> DEFINE S == {n \in Notifications : file[n].status = "unread" /\ file[n].user = u}
             unread == SetToSeq(S)
             s == [k \in DOMAIN unread |-> Update(unread[k], [status |-> "read"])]
  <2>1. IsFiniteSet(S)
    BY RecordsAssumption, FS_Subset
  <2>2. (\E n \in Nat : DOMAIN unread = 1..n) /\ \A k \in DOMAIN unread : unread[k] \in Notifications
    BY <2>1, Ordered
  <2>3. Begin(w, s)
    BY <1>6 DEF MarkAllRead
  <2> HIDE DEF unread
  <2>4. PICK n \in Nat : DOMAIN unread = 1..n
    BY <2>2
  <2>5. s = [k \in 1..n |-> s[k]]
    BY <2>4
  <2>6. Sequence(s) /\ ToSet(s) = {s[k] : k \in 1..n}
    BY <2>5, Numbered
  <2>7. \A x \in ToSet(s) : Harmless(x) /\ ~Keyed(x)
    BY <1>0, <2>2, <2>4, <2>6, PlainUpdate, Plain
  <2> QED
    BY <2>3, <2>6, <2>7, Lists
<1> QED
  BY <1>1, <1>2, <1>3, <1>4, <1>5, <1>6 DEF NoticeSteps

LEMMA SpendingAside ==
  ASSUME RowInv, NEW w, SpendingSteps(w)
  PROVE  Aside(w)
<1>0. (Spendings \cup Invoices) \cap (History \cup Transfers) = {}
  BY TablesApart DEF Apart, Applications
<1>1. ASSUME NEW x \in Spendings, NEW kind, NEW u, CreateSpending(w, x, kind, u) PROVE Aside(w)
  <2>1. "key" \notin DOMAIN SpendingRow(kind, u)
    BY DEF SpendingRow
  <2> QED
    BY <1>1, <2>1, Inserts, UnusedIs, TablesApart DEF CreateSpending
<1>2. ASSUME NEW x \in Spendings, RejectSpending(w, x) \/ \E u, exempt : ApproveSpending(w, x, u, exempt)
      PROVE  Aside(w)
  BY <1>0, <1>2, Updates, Plain DEF RejectSpending, ApproveSpending
<1>3. ASSUME NEW v \in Invoices, CancelInvoice(w, v) PROVE Aside(w)
  BY <1>0, <1>3, Updates, Plain DEF CancelInvoice
<1>4. ASSUME NEW x \in Spendings, NEW v \in Invoices, PaySpending(w, x, v) PROVE Aside(w)
  <2> DEFINE paid == Update(x, [status |-> "Paid"])
  <2>1. Harmless(paid) /\ ~Keyed(paid) /\ Sequence(<<paid>>) /\ ToSet(<<paid>>) = {paid}
    BY <1>0, PlainUpdate, Plain, Tuple1
  <2> HIDE DEF paid
  <2>2. CASE Begin(w, <<paid>>)
    BY <2>1, <2>2, Lists
  <2>3. ASSUME NEW y, Harmless(y), FreeKey(y), Begin(w, <<paid>> \o <<y>>) PROVE Aside(w)
    <3>1. Delivering(<<y>>)
      BY <2>3, Tuple1 DEF Delivering
    <3> QED
      BY <2>1, <2>3, <3>1, AfterOne
  <2>4. ASSUME Holders(Source(x)) = {}, Begin(w, <<paid>> \o <<Insert(v, InvoiceRow(x))>>) PROVE Aside(w)
    <3> DEFINE y == Insert(v, InvoiceRow(x))
    <3>1. InvoiceRow(x).key = Source(x) /\ InvoiceRow(x).key[1] # "document"
      BY DEF InvoiceRow, Source
    <3>2. Harmless(y) /\ FreeKey(y)
      BY <2>4, <3>1, FitsApart, WriteFields, TablesApart DEF FreeKey
    <3> QED
      BY <2>3, <2>4, <3>2
  <2>5. ASSUME NEW known \in Holders(Source(x)), Begin(w, <<paid>> \o <<Update(known, [refreshed |-> TRUE])>>)
        PROVE  Aside(w)
    <3> DEFINE y == Update(known, [refreshed |-> TRUE])
    <3>1. Harmless(y) /\ FreeKey(y)
      BY Found, PlainUpdate, Plain DEF FreeKey
    <3> QED
      BY <2>3, <2>5, <3>1
  <2>6. Begin(w, <<paid>>) \/ \E r \in Registered(v, x) : Begin(w, <<paid>> \o r)
    BY <1>4 DEF PaySpending, paid
  <2>7. ASSUME NEW r \in Registered(v, x), Begin(w, <<paid>> \o r) PROVE Aside(w)
    BY <2>4, <2>5, <2>7 DEF Registered
  <2> QED
    BY <2>2, <2>6, <2>7
<1> QED
  BY <1>1, <1>2, <1>3, <1>4 DEF SpendingSteps

\* A new thread, or one more entry of a thread.
ThreadOf(w, x) ==
  /\ x.id \in Complaints \cup WorkOrders /\ "key" \notin DOMAIN x.patch /\ "thread" \in DOMAIN x.patch
  /\ \/ x.op = "insert" /\ Fresh(x.id) /\ x.patch.thread = <<>>
     \/ x.op = "update" /\ file[x.id] # NoRow /\ x.patch.thread = Append(file[x.id].thread, w)

Threading(w) == \E x : ThreadOf(w, x) /\ Begin(w, <<x>>)

LEMMA GoesOn ==
  ASSUME NEW w, NEW c \in Complaints \cup WorkOrders, NEW p, "key" \notin DOMAIN p, "thread" \in DOMAIN p,
         p.thread = Append(file[c].thread, w), file[c] # NoRow, Begin(w, <<Update(c, p)>>)
  PROVE  Threading(w)
<1> DEFINE x == Update(c, p)
<1>1. x.id = c /\ x.op = "update" /\ x.patch = p /\ Begin(w, <<x>>)
  BY WriteFields
<1> HIDE DEF x
<1> QED
  BY <1>1 DEF Threading, ThreadOf

LEMMA OverColumns ==
  ASSUME NEW p, NEW r, NEW c
  PROVE  /\ c \in DOMAIN Over(p, r) <=> c \in DOMAIN p \/ c \in DOMAIN r
         /\ c \in DOMAIN p => Over(p, r)[c] = p[c]
         /\ c \notin DOMAIN p /\ c \in DOMAIN r => Over(p, r)[c] = r[c]
BY DEF Over

LEMMA WhenPlain ==
  ASSUME NEW condition, NEW a, NEW c \in Telling
  PROVE  c \notin DOMAIN When(condition, [status |-> a])
BY Plain DEF When

LEMMA CaseRowsApart ==
  (Complaints \cup WorkOrders) \cap (History \cup Transfers) = {}
BY MainTablesApart DEF Shared, Applications

LEMMA ComplaintDoes ==
  ASSUME NEW w, ComplaintSteps(w)
  PROVE  Aside(w) \/ Threading(w)
<1>1. ASSUME NEW c \in Complaints, CreateComplaint(w, c) PROVE Threading(w)
  <2>1. /\ "key" \notin DOMAIN ComplaintRow /\ "thread" \in DOMAIN ComplaintRow
        /\ ComplaintRow.thread = <<>>
    BY DEF ComplaintRow
  <2>2. Fresh(c) /\ Begin(w, <<Insert(c, ComplaintRow)>>)
    BY <1>1, UnusedIs DEF CreateComplaint
  <2> QED
    BY <2>1, <2>2, WriteFields DEF Threading, ThreadOf
<1>2. ASSUME NEW c \in Complaints, AssignComplaint(w, c) PROVE Aside(w)
  <2>1. \A k \in Telling : k \notin DOMAIN When(file[c].status \in {"New", "Reopened"}, [status |-> "Assigned"])
    BY WhenPlain
  <2> QED
    BY <1>2, <2>1, Updates, CaseRowsApart DEF AssignComplaint
<1>3. ASSUME NEW c \in Complaints, AddComment(w, c) PROVE Threading(w)
  <2> DEFINE p == [thread |-> Append(file[c].thread, w)]
  <2>1. "key" \notin DOMAIN p /\ "thread" \in DOMAIN p /\ p.thread = Append(file[c].thread, w)
    OBVIOUS
  <2>2. file[c] # NoRow /\ Begin(w, <<Update(c, p)>>)
    BY <1>3 DEF AddComment
  <2> HIDE DEF p
  <2> QED
    BY <2>1, <2>2, GoesOn
<1>4. ASSUME NEW c \in Complaints,
             ResolveComplaint(w, c) \/ ReopenComplaint(w, c) \/ \E to : ChangeComplaintStatus(w, c, to)
      PROVE  Aside(w)
  BY <1>4, Updates, Plain, CaseRowsApart DEF ResolveComplaint, ReopenComplaint, ChangeComplaintStatus
<1> QED
  BY <1>1, <1>2, <1>3, <1>4 DEF ComplaintSteps

LEMMA WorkDoes ==
  ASSUME NEW w, WorkSteps(w)
  PROVE  Aside(w) \/ Threading(w)
<1>1. ASSUME NEW a \in Assets, CreateAsset(w, a) PROVE Aside(w)
  <2>1. "key" \notin DOMAIN AssetRow
    BY DEF AssetRow
  <2> QED
    BY <1>1, <2>1, UnusedIs, Inserts, TablesApart DEF CreateAsset
<1>2. ASSUME NEW o \in WorkOrders, NEW a, NEW c, CreateWorkOrder(w, o, a, c) PROVE Threading(w)
  <2>1. "key" \notin DOMAIN WorkRow(a, c) /\ "thread" \in DOMAIN WorkRow(a, c) /\ WorkRow(a, c).thread = <<>>
    BY DEF WorkRow
  <2>2. Fresh(o) /\ Begin(w, <<Insert(o, WorkRow(a, c))>>)
    BY <1>2, UnusedIs DEF CreateWorkOrder
  <2> QED
    BY <2>1, <2>2, WriteFields DEF Threading, ThreadOf
<1>3. ASSUME NEW o \in WorkOrders, UpdateWorkOrder(w, o) \/ CompleteWork(w, o) PROVE Aside(w)
  BY <1>3, Updates, Plain, CaseRowsApart DEF UpdateWorkOrder, CompleteWork
<1>4. ASSUME NEW o \in WorkOrders, LogProgress(w, o) PROVE Threading(w)
  <2> DEFINE q == When(file[o].status = "Open", [status |-> "InProgress"])
             r == [thread |-> Append(file[o].thread, w)]
             p == Over(q, r)
  <2>1. \A k \in Telling : k \notin DOMAIN q
    BY WhenPlain
  <2>2. "key" \notin DOMAIN r /\ "thread" \in DOMAIN r /\ r.thread = Append(file[o].thread, w)
    OBVIOUS
  <2>3. file[o] # NoRow /\ Begin(w, <<Update(o, p)>>)
    BY <1>4 DEF LogProgress, NoRow
  <2> HIDE DEF q, r
  <2>4. "key" \notin DOMAIN p /\ "thread" \in DOMAIN p /\ p.thread = Append(file[o].thread, w)
    BY <2>1, <2>2, OverColumns DEF Telling
  <2> HIDE DEF p
  <2> QED
    BY <2>3, <2>4, GoesOn
<1>5. ASSUME NEW o \in WorkOrders, NEW to, ChangeWorkStatus(w, o, to) PROVE Aside(w) \/ Threading(w)
  <2> DEFINE q == When(to = "Cancelled", [thread |-> Append(file[o].thread, w)])
             r == [status |-> to]
             p == Over(q, r)
  <2>1. \A k \in Telling : k \notin DOMAIN r
    BY Plain
  <2>2. /\ to = "Cancelled" => /\ "key" \notin DOMAIN q /\ "thread" \in DOMAIN q
                               /\ q.thread = Append(file[o].thread, w)
        /\ to # "Cancelled" => q = <<>>
    BY DEF When
  <2>3. \A k : k \notin DOMAIN <<>>
    OBVIOUS
  <2>4. canMoveWork(file[o].status, to) /\ Begin(w, <<Update(o, p)>>)
    BY <1>5 DEF ChangeWorkStatus
  <2>5. file[o] # NoRow
    BY <2>4 DEF canMoveWork, WORK_TRANSITIONS, NoRow
  <2> HIDE DEF q, r
  <2>6. CASE to = "Cancelled"
    <3>1. "key" \notin DOMAIN p /\ "thread" \in DOMAIN p /\ p.thread = Append(file[o].thread, w)
      BY <2>1, <2>2, <2>6, OverColumns DEF Telling
    <3> HIDE DEF p
    <3> QED
      BY <2>4, <2>5, <3>1, GoesOn
  <2>7. CASE to # "Cancelled"
    <3>1. \A k \in Telling : k \notin DOMAIN p
      BY <2>1, <2>2, <2>3, <2>7, OverColumns
    <3> HIDE DEF p
    <3> QED
      BY <2>4, <3>1, Updates, CaseRowsApart
  <2> QED
    BY <2>6, <2>7
<1> QED
  BY <1>1, <1>2, <1>3, <1>4, <1>5 DEF WorkSteps

\* An edit that changes the owner of a plot.
Owning(w) ==
  \E p \in Plots, m \in Members \cup {None}, st \in Edits \cup {None}, h, g \in History :
    UpdatePlot(w, p, m, st, h, g)

LEMMA PlotDoes ==
  ASSUME NEW w, PlotSteps(w)
  PROVE  Aside(w) \/ Owning(w)
<1>1. ASSUME NEW p \in Plots, NEW st, UpdateStatus(w, p, st) PROVE Aside(w)
  BY <1>1, Updates, Plain, MainTablesApart DEF UpdateStatus, Shared, Applications
<1> QED
  BY <1>1 DEF PlotSteps, Owning

\* Handlers the invariants look into; all others are aside.
Notable(w) ==
  \/ Threading(w)
  \/ \E d \in Documents, s \in Subjects : UploadDocument(w, d, s)
  \/ Owning(w) \/ TransferSteps(w) \/ ImportSteps(w)

LEMMA DocumentDoes ==
  ASSUME NEW w, DocumentSteps(w)
  PROVE  Aside(w) \/ Notable(w)
<1>1. ASSUME NEW d \in Documents, NEW status, VerifyDocument(w, d, status) PROVE Aside(w)
  BY <1>1, Updates, Plain, MainTablesApart DEF VerifyDocument, Shared, Applications
<1> QED
  BY <1>1 DEF DocumentSteps, Notable

LEMMA DeskDoes ==
  ASSUME RowInv, OneHolder, NEW d, NEW w \in Workers, DeskSteps(d, w)
  PROVE  Aside(w) \/ Notable(w)
BY PlotDoes, PossessionAside, ConstructionAside, NocAside, BatchAside, ComplaintDoes, WorkDoes, EmployeeAside,
   AttendanceAside, LeaveAside, GuardAside, VisitAside, VehicleAside, AppointmentAside, DocumentDoes,
   NoticeAside, SpendingAside, MemberAside
   DEF DeskSteps, Notable

-----------------------------------------------------------------------------
(* Rows, imports and keys                                                  *)

Undoing(x) == x.op = "undo" /\ x.id \in Persons /\ \A c \in Telling : c \notin DOMAIN x.patch

\* A row of an import, and what undoes the ones before it.
Importing(x) ==
  /\ x = [op |-> x.op, id |-> x.id, patch |-> x.patch, undo |-> x.undo]
  /\ x.id \in Persons /\ "key" \in DOMAIN x.patch /\ x.patch.key[1] = "cnic"
  /\ Sequence(x.undo) /\ \A y \in ToSet(x.undo) : Undoing(y)

\* Only the first row of an import can have been checked.
ImportInv ==
  \A w \in Workers :
    LET s == job[w].todo IN
    /\ \A x \in ToSet(s) :
         \/ x.op \in Statements
         \/ x.op \in {"check", "add"} /\ Importing(x)
         \/ Undoing(x)
    /\ \A j, k \in DOMAIN s : s[j].op \in {"check", "add"} /\ j < k => s[k].op = "check"

KeyInv ==
  /\ OneHolder
  /\ \A w \in Workers : \A x \in Left(w) : FreeKey(x)
  /\ \A v, w \in Workers : \A x \in Left(v), y \in Left(w) :
       Keyed(x) /\ Keyed(y) /\ x.patch.key = y.patch.key /\ (v # w \/ x.id # y.id)
         => ~Undisturbed(x.patch.key, "key")

\* Tables whose rows are inserted by one handler, at an identifier of its own.
Founded == History \cup Transfers \cup Documents \cup Complaints \cup WorkOrders

Founds(x) == x.op = "insert" /\ x.id \in Founded

FreshInv ==
  \A v \in Workers : \A j \in DOMAIN job[v].todo :
    LET x == job[v].todo[j] IN
    Founds(x) => /\ file[x.id] = NoRow
                 /\ \A w \in Workers : \A k \in DOMAIN job[w].todo :
                      Founds(job[w].todo[k]) /\ job[w].todo[k].id = x.id => v = w /\ j = k

\* A list that founds rows at fresh identifiers, one each.
Novel(s) ==
  \A j \in DOMAIN s : Founds(s[j]) =>
    Fresh(s[j].id) /\ \A k \in DOMAIN s : Founds(s[k]) /\ s[k].id = s[j].id => j = k

LatestInv == \A s \in Subjects : Versions(s) # {} => Latest(s) # {}

OfficeInv == RequestInv /\ RowInv /\ ImportInv /\ KeyInv /\ FreshInv /\ LatestInv

LEMMA TurnsLeft ==
  ASSUME NEW w \in Workers, NEW s, Turns(w, s)
  PROVE  Left(w)' = ToSet(s) /\ \A v \in Workers \ {w} : Left(v)' = Left(v)
BY DEF Turns, Left

LEMMA TurnsRequests ==
  ASSUME RequestInv, NEW w \in Workers, NEW s, Turns(w, s), DOMAIN file' = Ids,
         file' = [id \in Ids |-> file'[id]]
  PROVE  RequestInv'
BY DEF RequestInv, Turns, JobRecord

LEMMA TurnsImports ==
  ASSUME ImportInv, NEW w \in Workers, NEW s, Turns(w, s),
         \A x \in ToSet(s) : \/ x.op \in Statements
                             \/ x.op \in {"check", "add"} /\ Importing(x)
                             \/ Undoing(x),
         \A j, k \in DOMAIN s : s[j].op \in {"check", "add"} /\ j < k => s[k].op = "check"
  PROVE  ImportInv'
BY DEF ImportInv, Turns

\* A list of statements is no import.
LEMMA PlainImports ==
  ASSUME ImportInv, NEW w \in Workers, NEW s, Turns(w, s), \A x \in ToSet(s) : x.op \in Statements \cup {"undo"},
         \A x \in ToSet(s) : x.op = "undo" => Undoing(x)
  PROVE  ImportInv'
<1>1. \A j \in DOMAIN s : s[j].op \notin {"check", "add"}
  BY DEF ToSet, Statements
<1> QED
  BY <1>1, TurnsImports

Briefly(w) == \E s : Brief(w, s) /\ Novel(s) /\ \A x \in ToSet(s) : x.op \in Statements /\ Fits(x)

LEMMA FoundsFreshly ==
  ASSUME FreshInv, NEW w \in Workers, NEW s, Turns(w, s), file' = file, Novel(s)
  PROVE  FreshInv'
<1> SUFFICES ASSUME NEW v \in Workers, NEW j \in DOMAIN job'[v].todo, Founds(job'[v].todo[j])
             PROVE  /\ file[job'[v].todo[j].id] = NoRow
                    /\ \A u \in Workers : \A k \in DOMAIN job'[u].todo :
                         Founds(job'[u].todo[k]) /\ job'[u].todo[k].id = job'[v].todo[j].id => v = u /\ j = k
  BY DEF FreshInv, Founds
<1>1. CASE v = w
  <2>1. job'[v].todo = s /\ Fresh(s[j].id)
    BY <1>1 DEF Turns, Novel
  <2>2. ASSUME NEW u \in Workers \ {w}, NEW k \in DOMAIN job'[u].todo PROVE job'[u].todo[k].id # s[j].id
    BY <2>1 DEF Turns, Fresh
  <2> QED
    BY <1>1, <2>1, <2>2 DEF Novel, Turns, Fresh
<1>2. CASE v # w
  <2>1. job'[v] = job[v]
    BY <1>2 DEF Turns
  <2>2. ASSUME NEW k \in DOMAIN s, Founds(s[k]) PROVE s[k].id # job[v].todo[j].id
    BY <2>1, <2>2 DEF Novel, Fresh
  <2> QED
    BY <1>2, <2>1, <2>2 DEF Turns, FreshInv
<1> QED
  BY <1>1, <1>2

\* A column of a list that has just begun and that another request is to write too.
LEMMA Collides ==
  ASSUME RequestInv, NEW w \in Workers, NEW s, Sequence(s), Begin(w, s), NEW x \in ToSet(s), x.op # "check",
         NEW v \in Workers \ {w}
  PROVE  /\ \A c \in DOMAIN x.patch : <<x.id, c>> \in Pending(v) => <<x.id, c>> \in upset'
         /\ "key" \in DOMAIN x.patch =>
              (<<x.patch.key, "key">> \in Pending(v) => <<x.patch.key, "key">> \in upset')
<1>1. PICK k \in DOMAIN s : x = s[k]
  BY DEF ToSet
<1>2. \A c \in DOMAIN x.patch : <<x.id, c>> \in Columns(s)
  BY <1>1 DEF Columns
<1>3. "key" \in DOMAIN x.patch => <<x.patch.key, "key">> \in Columns(s)
  BY <1>1 DEF Columns
<1>4. Columns(s) \cap UNION {Pending(u) : u \in Workers \ {w}} \subseteq upset'
  BY Beginning
<1> QED
  BY <1>2, <1>3, <1>4

LEMMA PendingColumns ==
  ASSUME NEW v, NEW x \in Left(v), x.op # "check"
  PROVE  /\ \A c \in DOMAIN x.patch : <<x.id, c>> \in Pending(v)
         /\ "key" \in DOMAIN x.patch => <<x.patch.key, "key">> \in Pending(v)
<1>1. PICK k \in DOMAIN job[v].todo : x = job[v].todo[k]
  BY DEF ToSet, Left
<1> QED
  BY <1>1 DEF Pending, Columns

\* New keys are free, one row's each, and no other request is about to write them.
LEMMA BegunKeys ==
  ASSUME KeyInv, NEW w \in Workers, file' = file, upset \subseteq upset',
         \A v \in Workers \ {w} : Left(v)' = Left(v),
         \A x \in Left(w)' : FreeKey(x),
         \A x, y \in Left(w)' : Keyed(x) /\ Keyed(y) /\ x.patch.key = y.patch.key => x.id = y.id,
         \A x \in Left(w)', v \in Workers \ {w} :
           Keyed(x) /\ <<x.patch.key, "key">> \in Pending(v) => <<x.patch.key, "key">> \in upset'
  PROVE  KeyInv'
<1>1. \A key : ~Undisturbed(key, "key") => ~Undisturbed(key, "key")'
  BY DEF Undisturbed
<1>2. \A key : Holders(key)' = Holders(key)
  BY DEF Holders
<1>3. OneHolder'
  BY <1>1 DEF OneHolder, KeyInv
<1>4. ASSUME NEW v \in Workers, NEW x \in Left(v)' PROVE FreeKey(x)'
  <2>1. FreeKey(x)
    BY <1>4 DEF KeyInv
  <2> QED
    BY <1>1, <1>2, <2>1 DEF FreeKey
<1>5. ASSUME NEW u \in Workers, NEW v \in Workers, NEW x \in Left(u)', NEW y \in Left(v)',
             Keyed(x), Keyed(y), x.patch.key = y.patch.key, u # v \/ x.id # y.id
      PROVE  ~Undisturbed(x.patch.key, "key")'
  <2>1. CASE u # w /\ v # w
    BY <1>1, <1>5, <2>1 DEF KeyInv
  <2>2. CASE u = w /\ v = w
    BY <1>5, <2>2
  <2>3. CASE u = w /\ v # w
    <3>1. y \in Left(v) /\ v \in Workers \ {w}
      BY <2>3, <1>5
    <3> QED
      BY <1>5, <2>3, <3>1, PendingColumns DEF Keyed, Undisturbed
  <2>4. CASE u # w /\ v = w
    <3>1. x \in Left(u) /\ u \in Workers \ {w}
      BY <2>4, <1>5
    <3> QED
      BY <1>5, <2>4, <3>1, PendingColumns DEF Keyed, Undisturbed
  <2> QED
    BY <2>1, <2>2, <2>3, <2>4
<1> QED
  BY <1>3, <1>4, <1>5 DEF KeyInv

LEMMA BrieflyKeeps ==
  ASSUME OfficeInv, NEW w \in Workers, Briefly(w)
  PROVE  OfficeInv'
<1>1. PICK s : Brief(w, s) /\ Novel(s) /\ \A x \in ToSet(s) : x.op \in Statements /\ Fits(x)
  BY DEF Briefly
<1>2. Begin(w, s) /\ Sequence(s) /\ KeysFree(s) /\ RequestInv
  BY <1>1 DEF Brief, OfficeInv
<1>3. Turns(w, s) /\ file' = file /\ upset \subseteq upset'
  BY <1>2, Beginning
<1>4. Left(w)' = ToSet(s) /\ \A v \in Workers \ {w} : Left(v)' = Left(v)
  BY <1>3, TurnsLeft
<1>5. RequestInv'
  BY <1>2, <1>3, TurnsRequests DEF RequestInv
<1>6. RowInv'
  BY <1>1, <1>3, <1>4 DEF OfficeInv, RowInv
<1>7. ImportInv'
  <2>1. \A x \in ToSet(s) : x.op \in Statements /\ x.op # "undo"
    BY <1>1 DEF Statements
  <2> QED
    BY <1>3, <2>1, PlainImports DEF OfficeInv
<1>8. KeyInv'
  <2>1. \A x \in Left(w)', v \in Workers \ {w} :
          Keyed(x) /\ <<x.patch.key, "key">> \in Pending(v) => <<x.patch.key, "key">> \in upset'
    BY <1>2, <1>4, Collides DEF Keyed
  <2> QED
    BY <1>2, <1>3, <1>4, <2>1, BegunKeys DEF KeysFree, OfficeInv
<1>9. FreshInv'
  BY <1>1, <1>3, FoundsFreshly DEF OfficeInv
<1>10. LatestInv'
  BY <1>3 DEF OfficeInv, LatestInv, Versions, Latest
<1> QED
  BY <1>5, <1>6, <1>7, <1>8, <1>9, <1>10 DEF OfficeInv

-----------------------------------------------------------------------------
(* The lists of the handlers the invariants look into                      *)

\* One sequence after another, element by element.
LEMMA After2 ==
  ASSUME NEW S, NEW s \in Seq(S), NEW t \in Seq(S), NEW u \in Seq(S), Len(u) = Len(s) + Len(t),
         \A k \in 1..Len(s) : u[k] = s[k], \A k \in 1..Len(t) : u[Len(s) + k] = t[k]
  PROVE  s \o t = u
BY SMTT(40)

LEMMA Fronted ==
  ASSUME NEW S, NEW a \in S, NEW t \in Seq(S), NEW u \in Seq(S), Len(u) = Len(t) + 1, u[1] = a,
         \A k \in 1..Len(t) : u[k + 1] = t[k]
  PROVE  <<a>> \o t = u
<1>1. <<a>> \in Seq(S) /\ Len(<<a>>) = 1 /\ <<a>>[1] = a
  OBVIOUS
<1>2. \A k \in 1..1 : u[k] = <<a>>[k]
  BY <1>1
<1>3. \A k \in 1..Len(t) : 1 + k = k + 1
  OBVIOUS
<1>4. Len(t) + 1 = 1 + Len(t)
  OBVIOUS
<1> QED
  BY <1>1, <1>2, <1>3, <1>4, After2

LEMMA Concat0 == ASSUME NEW a PROVE <<>> \o <<a>> = <<a>> /\ <<a>> \o <<>> = <<a>>
BY After2, <<a>> \in Seq({a}), <<>> \in Seq({a})

LEMMA Concat11 == ASSUME NEW a, NEW b PROVE <<a>> \o <<b>> = <<a, b>>
<1> DEFINE S == {a, b}
<1>1. a \in S /\ <<b>> \in Seq(S) /\ <<a, b>> \in Seq(S) /\ Len(<<a, b>>) = Len(<<b>>) + 1 /\ <<a, b>>[1] = a
  OBVIOUS
<1>2. \A k \in 1..Len(<<b>>) : <<a, b>>[k + 1] = <<b>>[k]
  OBVIOUS
<1> HIDE DEF S
<1> QED
  BY <1>1, <1>2, Fronted

LEMMA Concat12 == ASSUME NEW a, NEW b, NEW c PROVE <<a>> \o <<b, c>> = <<a, b, c>>
<1> DEFINE S == {a, b, c}
           t == <<b, c>>
           u == <<a, b, c>>
<1>1. a \in S /\ t \in Seq(S) /\ u \in Seq(S) /\ Len(u) = Len(t) + 1 /\ u[1] = a
  OBVIOUS
<1>2. \A k \in 1..Len(t) : u[k + 1] = t[k]
  OBVIOUS
<1> HIDE DEF S, t, u
<1>3. <<a>> \o t = u
  BY <1>1, <1>2, Fronted
<1> QED
  BY <1>3 DEF t, u

LEMMA Concat13 == ASSUME NEW a, NEW b, NEW c, NEW d PROVE <<a>> \o <<b, c, d>> = <<a, b, c, d>>
<1> DEFINE S == {a, b, c, d}
           t == <<b, c, d>>
           u == <<a, b, c, d>>
<1>1. a \in S /\ t \in Seq(S) /\ u \in Seq(S) /\ Len(u) = Len(t) + 1 /\ u[1] = a
  OBVIOUS
<1>2. \A k \in 1..Len(t) : u[k + 1] = t[k]
  OBVIOUS
<1> HIDE DEF S, t, u
<1>3. <<a>> \o t = u
  BY <1>1, <1>2, Fronted
<1> QED
  BY <1>3 DEF t, u

LEMMA Concat21 == ASSUME NEW a, NEW b, NEW c PROVE <<a, b>> \o <<c>> = <<a, b, c>>
<1> DEFINE S == {a, b, c}
           s == <<a, b>>
           t == <<c>>
           u == <<a, b, c>>
<1>1. s \in Seq(S) /\ t \in Seq(S) /\ u \in Seq(S) /\ Len(u) = Len(s) + Len(t)
  OBVIOUS
<1>2. \A k \in 1..Len(s) : u[k] = s[k]
  OBVIOUS
<1>3. \A k \in 1..Len(t) : u[Len(s) + k] = t[k]
  OBVIOUS
<1> HIDE DEF S, s, t, u
<1>4. s \o t = u
  BY <1>1, <1>2, <1>3, After2
<1> QED
  BY <1>4 DEF s, t, u

LEMMA Tuple3 == ASSUME NEW x, NEW y, NEW z PROVE Sequence(<<x, y, z>>) /\ ToSet(<<x, y, z>>) = {x, y, z}
BY DEF Sequence, ToSet

LEMMA Tuple4 ==
  ASSUME NEW x, NEW y, NEW z, NEW u
  PROVE  Sequence(<<x, y, z, u>>) /\ ToSet(<<x, y, z, u>>) = {x, y, z, u}
BY DEF Sequence, ToSet

\* The statements of an edit of a plot's owner, and of a transfer's completion.
Ended(h, p, m, s) == Insert(h, [OwnerRow(p, m, s, "hand") EXCEPT !.status = "closed"])
Ending(p, h) == Ended(h, p, file[p].owner, file[p].since)
Opening(p, m, g) == Insert(g, OwnerRow(p, m, g, "hand"))
Entry(m, g) == [owner |-> m, since |-> IF m = None THEN None ELSE g]
Moving(p, m, g, st) == Update(p, Over(When(st # None, [status |-> st]), Entry(m, g)))
Closing(o) == Update(o, [status |-> "closed"])
Buying(p, to, t, h) == Insert(h, OwnerRow(p, to, h, t))
Passing(p, to, h) == Update(p, [owner |-> to, since |-> h, status |-> "Transferred"])
Completing(t) == Update(t, [status |-> "Completed"])

\* A status comes with the owner, but nothing else the invariants look into.
LEMMA MovingColumns ==
  ASSUME NEW p, NEW m, NEW g, NEW st
  PROVE  LET x == Moving(p, m, g, st) IN
         /\ x.id = p /\ x.op = "update" /\ {"owner", "since"} \subseteq DOMAIN x.patch
         /\ x.patch.owner = m /\ x.patch.since = (IF m = None THEN None ELSE g)
         /\ \A c \in Telling \ {"owner", "since"} : c \notin DOMAIN x.patch
<1> DEFINE q == When(st # None, [status |-> st])
           e == Entry(m, g)
           y == Over(q, e)
<1>1. /\ DOMAIN e = {"owner", "since"}
      /\ e.owner = m /\ e.since = (IF m = None THEN None ELSE g)
  BY DEF Entry
<1>2. \A c \in Telling : c \notin DOMAIN q
  BY WhenPlain
<1>3. {"owner", "since"} \subseteq Telling
  BY DEF Telling
<1> HIDE DEF q, e
<1>4. "owner" \in DOMAIN y /\ "since" \in DOMAIN y /\ y.owner = e.owner /\ y.since = e.since
  BY <1>1, <1>2, <1>3, OverColumns
<1>5. \A c \in Telling \ {"owner", "since"} : c \notin DOMAIN y
  BY <1>1, <1>2, OverColumns
<1>6. Moving(p, m, g, st) = Update(p, y)
  BY DEF Moving, q, e
<1> HIDE DEF y
<1> QED
  BY <1>1, <1>4, <1>5, <1>6, WriteFields

LEMMA NewOwnerIs ==
  ASSUME NEW p, NEW m, NEW st, NEW h, NEW g, file[p].owner # m
  PROVE  \/ file[p].owner # None /\ m # None /\ NewOwner(p, m, st, h, g) = <<Ending(p, h), Opening(p, m, g), Moving(p, m, g, st)>>
         \/ file[p].owner = None /\ m # None /\ NewOwner(p, m, st, h, g) = <<Opening(p, m, g), Moving(p, m, g, st)>>
         \/ file[p].owner # None /\ m = None /\ NewOwner(p, m, st, h, g) = <<Ending(p, h), Moving(p, m, g, st)>>
<1> DEFINE a == Ending(p, h)
           b == Opening(p, m, g)
           c == Moving(p, m, g, st)
<1>1. NewOwner(p, m, st, h, g) = (IF file[p].owner = None THEN <<>> ELSE <<a>>) \o (IF m = None THEN <<>> ELSE <<b>>) \o <<c>>
  BY DEF NewOwner, Ending, Ended, Opening, Moving, Entry
<1> HIDE DEF a, b, c
<1>2. (<<>> \o <<b>>) \o <<c>> = <<b, c>> /\ (<<a>> \o <<>>) \o <<c>> = <<a, c>>
      /\ (<<a>> \o <<b>>) \o <<c>> = <<a, b, c>>
  <2>1. <<>> \o <<b>> = <<b>> /\ <<a>> \o <<>> = <<a>> /\ <<a>> \o <<b>> = <<a, b>>
    BY ONLY Concat0, Concat11
  <2>2. <<b>> \o <<c>> = <<b, c>> /\ <<a>> \o <<c>> = <<a, c>>
    BY ONLY Concat11
  <2>3. <<a, b>> \o <<c>> = <<a, b, c>>
    BY ONLY Concat21
  <2> QED
    BY ONLY <2>1, <2>2, <2>3
<1>3. NewOwner(p, m, st, h, g) =
        IF file[p].owner = None THEN (IF m = None THEN (<<>> \o <<>>) \o <<c>> ELSE (<<>> \o <<b>>) \o <<c>>)
        ELSE IF m = None THEN (<<a>> \o <<>>) \o <<c>> ELSE (<<a>> \o <<b>>) \o <<c>>
  BY <1>1
<1>4. \/ file[p].owner # None /\ m # None /\ NewOwner(p, m, st, h, g) = <<a, b, c>>
      \/ file[p].owner = None /\ m # None /\ NewOwner(p, m, st, h, g) = <<b, c>>
      \/ file[p].owner # None /\ m = None /\ NewOwner(p, m, st, h, g) = <<a, c>>
  BY <1>2, <1>3
<1> QED
  BY <1>4 DEF a, b, c

\* What a completion writes of a plot p, a buyer to and a fresh row h.
Conveying(w, t, h) ==
  LET p == file[t].plot
      to == file[t].to
      rest == <<Buying(p, to, t, h), Passing(p, to, h), Completing(t)>> IN
  \/ OpenRows(p, file[t].from) = {} /\ Begin(w, rest)
  \/ \E o \in OpenRows(p, file[t].from) :
       Begin(w, <<Closing(o), Buying(p, to, t, h), Passing(p, to, h), Completing(t)>>)

LEMMA ConveyIs ==
  ASSUME NEW w, NEW t, NEW h, Convey(w, t, h)
  PROVE  h \in Unused(History) /\ Conveying(w, t, h)
<1> DEFINE p == file[t].plot
           b == Buying(p, file[t].to, t, h)
           c == Passing(p, file[t].to, h)
           d == Completing(t)
<1>1. Deed(t, p, h) = <<b, c, d>>
  BY DEF Deed, Buying, Passing, Completing
<1>2. \A o : <<Closing(o)>> \o <<b, c, d>> = <<Closing(o), b, c, d>>
  BY Concat13
<1>3. /\ h \in Unused(History)
      /\ \/ OpenRows(p, file[t].from) = {} /\ Begin(w, <<b, c, d>>)
         \/ \E o \in OpenRows(p, file[t].from) : Begin(w, <<Closing(o)>> \o <<b, c, d>>)
  BY <1>1 DEF Convey, Closing
<1> HIDE DEF b, c, d
<1>4. \/ OpenRows(p, file[t].from) = {} /\ Begin(w, <<b, c, d>>)
      \/ \E o \in OpenRows(p, file[t].from) : Begin(w, <<Closing(o), b, c, d>>)
  BY <1>2, <1>3
<1> QED
  BY <1>3, <1>4 DEF Conveying, b, c, d

Bringing(d, s, v) == Insert(d, DocumentRow(s, v))
Linking(d) == Update(d, [url |-> TRUE])
Replacing(last, d) == Update(last, [by |-> d])

LEMMA UploadIs ==
  ASSUME NEW w, NEW d, NEW s, UploadDocument(w, d, s)
  PROVE  /\ d \in Unused(Documents)
         /\ \/ Latest(s) = {} /\ Begin(w, <<Bringing(d, s, 1), Linking(d)>>)
            \/ \E last \in Latest(s) :
                 /\ file[last].version < MaxVersion
                 /\ Begin(w, <<Bringing(d, s, file[last].version + 1), Linking(d), Replacing(last, d)>>)
<1>1. \A v : Stored(d, s, v) = <<Bringing(d, s, v), Linking(d)>>
  BY DEF Stored, Bringing, Linking
<1>2. \A v, last : Stored(d, s, v) \o <<Replacing(last, d)>> = <<Bringing(d, s, v), Linking(d), Replacing(last, d)>>
  BY <1>1, Concat21
<1> QED
  BY <1>1, <1>2 DEF UploadDocument, Replacing

LEMMA Lonely ==
  ASSUME NEW x, Founds(x) => Fresh(x.id)
  PROVE  Novel(<<x>>)
BY DEF Novel

LEMMA FoundsNot ==
  ASSUME NEW x, Harmless(x)
  PROVE  ~Founds(x)
BY DEF Harmless, Founds, Founded, Shared

LEMMA AsideIs ==
  ASSUME NEW w, Aside(w)
  PROVE  Briefly(w)
<1>1. PICK s : Brief(w, s) /\ \A x \in ToSet(s) : Harmless(x)
  BY DEF Aside
<1>2. \A j \in DOMAIN s : ~Founds(s[j])
  BY <1>1, FoundsNot DEF ToSet
<1> QED
  BY <1>1, <1>2 DEF Briefly, Novel, Harmless

LEMMA ThreadingIs ==
  ASSUME RowInv, NEW w \in Workers, Threading(w)
  PROVE  Briefly(w)
<1> PICK x : ThreadOf(w, x) /\ Begin(w, <<x>>)
  BY DEF Threading
<1> DEFINE c == x.id
<1>1. /\ Begin(w, <<x>>) /\ c \in Complaints \cup WorkOrders /\ x.id = c
      /\ "key" \notin DOMAIN x.patch /\ "thread" \in DOMAIN x.patch
      /\ \/ x.op = "insert" /\ Fresh(c) /\ x.patch.thread = <<>>
         \/ x.op = "update" /\ file[c] # NoRow /\ x.patch.thread = Append(file[c].thread, w)
  BY DEF ThreadOf
<1> HIDE DEF c
<1>2. c \in Ids /\ c \notin History \cup Applications \cup Plots \cup Documents
  BY <1>1, MainTablesApart DEF Shared
<1>3. x.patch.thread \in Seq(Workers)
  <2>1. file[c] # NoRow => file[c].thread \in Seq(Workers)
    BY <1>1, <1>2 DEF RowInv, Typed
  <2>2. CASE file[c] # NoRow /\ x.patch.thread = Append(file[c].thread, w)
    <3>1. ASSUME NEW r \in Seq(Workers) PROVE Append(r, w) \in Seq(Workers)
      OBVIOUS
    <3> QED
      BY <2>1, <2>2, <3>1
  <2>3. CASE x.patch.thread = <<>>
    BY <2>3
  <2> QED
    BY <1>1, <2>2, <2>3
<1>4. Fits(x) /\ ~Keyed(x) /\ x.op \in Statements
  BY <1>1, <1>2, <1>3 DEF Fits, Typed, Compatible, Applications, Keyed, Statements
<1>5. Novel(<<x>>)
  BY <1>1, Lonely DEF Founds
<1> QED
  BY <1>1, <1>4, <1>5, Tuple1 DEF Briefly, Brief, KeysFree, FreeKey

\* The list of a handler that writes no key.
LEMMA Keyless ==
  ASSUME NEW w, NEW s, Begin(w, s), Sequence(s), Novel(s),
         \A x \in ToSet(s) : x.op \in Statements /\ Fits(x) /\ ~Keyed(x)
  PROVE  Briefly(w)
BY DEF Briefly, Brief, KeysFree, FreeKey

LEMMA Deeds ==
  ASSUME NEW p \in Plots, NEW m \in Members, NEW h \in History, NEW t
  PROVE  LET b == Buying(p, m, t, h)
             c == Passing(p, m, h)
             d == Completing(t)
             o == Opening(p, m, h) IN
         /\ Fits(b) /\ ~Keyed(b) /\ b.op = "insert" /\ b.id = h
         /\ Fits(c) /\ ~Keyed(c) /\ c.op = "update" /\ c.id = p
         /\ Fits(d) /\ ~Keyed(d) /\ d.op = "update" /\ d.id = t
         /\ Fits(o) /\ ~Keyed(o) /\ o.op = "insert" /\ o.id = h
<1>1. h \notin Applications \cup Shared /\ p \notin Applications \cup History \cup Documents \cup Complaints \cup WorkOrders
  BY MainTablesApart DEF Shared
<1>2. ASSUME NEW by PROVE Typed(h, OwnerRow(p, m, h, by)) /\ "key" \notin DOMAIN OwnerRow(p, m, h, by)
  BY <1>1 DEF Typed, HistoryRow, OwnerRow, Applications, Shared
<1>3. Compatible(p, [owner |-> m, since |-> h, status |-> "Transferred"])
  BY <1>1 DEF Compatible, Telling, Applications
<1> QED
  BY <1>1, <1>2, <1>3, WriteFields, FitsPlain, Plain
     DEF Buying, Passing, Completing, Opening, Fits, Keyed, Shared

LEMMA TransferIs ==
  ASSUME RowInv, NEW w \in Workers, TransferSteps(w)
  PROVE  Briefly(w)
<1>1. ASSUME NEW t \in Transfers, NEW p \in Plots, NEW to \in Members, CreateTransfer(w, t, p, to)
      PROVE  Briefly(w)
  <2> DEFINE x == Insert(t, TransferRow(p, to))
  <2>1. p \in Ids /\ file[p] # NoRow /\ file[p].owner \in Members
    BY <1>1, MainTablesApart DEF RowInv, CreateTransfer, Shared, Typed, PlotRow
  <2>2. TransfersRow(TransferRow(p, to)) /\ "key" \notin DOMAIN TransferRow(p, to)
    BY <2>1 DEF TransfersRow, TransferRow
  <2>3. t \notin History \cup Shared \cup Possessions \cup Constructions
    BY MainTablesApart DEF Applications
  <2>4. Typed(t, TransferRow(p, to))
    BY <2>2, <2>3 DEF Typed, Shared
  <2>5. x.op = "insert" /\ x.id = t /\ x.patch = TransferRow(p, to) /\ x.op \in Statements
    BY WriteFields
  <2>6. Begin(w, <<x>>) /\ Fresh(t)
    BY <1>1, UnusedIs DEF CreateTransfer
  <2> HIDE DEF x
  <2>7. Fits(x) /\ ~Keyed(x)
    BY <2>2, <2>3, <2>4, <2>5 DEF Fits, Keyed, Shared
  <2> QED
    BY <2>5, <2>6, <2>7, Tuple1, Lonely, Keyless
<1>2. ASSUME NEW t \in Transfers, NEW status, Begin(w, <<Update(t, [status |-> status])>>)
      PROVE  Briefly(w)
  <2> DEFINE x == Update(t, [status |-> status])
  <2>1. x.op = "update" /\ x.op \in Statements /\ Fits(x) /\ ~Keyed(x)
    BY WriteFields, FitsPlain, Plain
  <2>2. Begin(w, <<x>>)
    BY <1>2
  <2> HIDE DEF x
  <2> QED
    BY <2>1, <2>2, Tuple1, Lonely, Keyless DEF Founds
<1>3. ASSUME NEW t \in Transfers, NEW h \in History, CompleteTransfer(w, t, h)
      PROVE  Briefly(w)
  <2> DEFINE p == file[t].plot
             to == file[t].to
             b == Buying(p, to, t, h)
             c == Passing(p, to, h)
             d == Completing(t)
  <2>1. file[t] # NoRow /\ t \in Ids
    BY <1>3, MainTablesApart DEF CompleteTransfer, NoRow, Applications
  <2>2. p \in Plots /\ to \in Members
    BY <2>1 DEF RowInv, Typed, TransfersRow
  <2>3. h \in History /\ Fresh(h) /\ Conveying(w, t, h)
    BY <1>3, ConveyIs, UnusedIs DEF CompleteTransfer
  <2>4. /\ \A x \in {b, c, d} : Fits(x) /\ ~Keyed(x) /\ x.op \in Statements
        /\ b.id = h /\ c.op = "update" /\ d.op = "update"
    BY <2>2, Deeds DEF Statements
  <2>5. \/ Begin(w, <<b, c, d>>)
        \/ \E o : Begin(w, <<Closing(o), b, c, d>>)
    BY <2>3 DEF Conveying
  <2>6. \A o : Fits(Closing(o)) /\ ~Keyed(Closing(o)) /\ Closing(o).op = "update" /\ Closing(o).op \in Statements
    BY FitsPlain, Plain, WriteFields DEF Closing
  <2> HIDE DEF p, to, b, c, d
  <2>7. CASE Begin(w, <<b, c, d>>)
    <3>1. Novel(<<b, c, d>>)
      BY <2>3, <2>4 DEF Novel, Founds
    <3>2. Sequence(<<b, c, d>>) /\ ToSet(<<b, c, d>>) = {b, c, d}
      BY Tuple3
    <3> QED
      BY <2>4, <2>7, <3>1, <3>2, Keyless
  <2>8. ASSUME NEW o, Begin(w, <<Closing(o), b, c, d>>) PROVE Briefly(w)
    <3> DEFINE a == Closing(o)
    <3>0. Fits(a) /\ ~Keyed(a) /\ a.op = "update" /\ a.op \in Statements /\ Begin(w, <<a, b, c, d>>)
      BY <2>6, <2>8
    <3> HIDE DEF a
    <3>1. Novel(<<a, b, c, d>>)
      BY <2>3, <2>4, <3>0 DEF Novel, Founds
    <3>2. Sequence(<<a, b, c, d>>) /\ ToSet(<<a, b, c, d>>) = {a, b, c, d}
      BY Tuple4
    <3> QED
      BY <2>4, <3>0, <3>1, <3>2, Keyless
  <2> QED
    BY <2>5, <2>7, <2>8
<1> QED
  BY <1>1, <1>2, <1>3 DEF TransferSteps, VerifyTransfer, ApproveTransfer, RejectTransfer

LEMMA PlotIs ==
  ASSUME RowInv, NEW w \in Workers, Owning(w)
  PROVE  Briefly(w)
<1>1. PICK p \in Plots, m \in Members \cup {None}, h \in History, g \in History :
        \E st \in Edits \cup {None} : UpdatePlot(w, p, m, st, h, g)
  BY DEF Owning
<1>0. PICK st \in Edits \cup {None} : UpdatePlot(w, p, m, st, h, g)
  BY <1>1
<1> DEFINE a == Ending(p, h)
           b == Opening(p, m, g)
           c == Moving(p, m, g, st)
<1>2. Fresh(h) /\ Fresh(g) /\ h # g /\ h \in Ids /\ g \in Ids /\ p \in Ids
  BY <1>0, UnusedIs, MainTablesApart DEF UpdatePlot, Shared
<1>3. PlotRow(file[p])
  BY <1>2 DEF RowInv, Typed
<1>4. a.op = "insert" /\ a.id = h /\ (file[p].owner # None => Fits(a) /\ ~Keyed(a))
  <2> DEFINE r == [OwnerRow(p, file[p].owner, file[p].since, "hand") EXCEPT !.status = "closed"]
  <2>1. a.op = "insert" /\ a.id = h /\ a.patch = r
    BY WriteFields DEF Ending, Ended
  <2>2. file[p].owner # None => HistoryRow(r) /\ "key" \notin DOMAIN r
    BY <1>3 DEF PlotRow, HistoryRow, OwnerRow
  <2>3. h \notin Applications \cup Shared
    BY MainTablesApart
  <2> HIDE DEF r
  <2> QED
    BY <2>1, <2>2, <2>3 DEF Fits, Typed, Keyed, Applications, Shared
<1>5. b.op = "insert" /\ b.id = g /\ (m # None => Fits(b) /\ ~Keyed(b))
  BY Deeds, WriteFields DEF Opening
<1>6. Fits(c) /\ ~Keyed(c) /\ c.op = "update"
  <2> DEFINE y == c.patch
  <2>1. p \notin Applications \cup History \cup Documents \cup Complaints \cup WorkOrders
    BY MainTablesApart DEF Shared
  <2>2. c.id = p /\ c.op = "update"
    BY MovingColumns
  <2>3. /\ {"owner", "since"} \subseteq DOMAIN y /\ y.owner = m /\ (m # None => y.since = g)
        /\ \A k \in Telling \ {"owner", "since"} : k \notin DOMAIN y
    BY MovingColumns
  <2> HIDE DEF y, c
  <2>4. "key" \notin DOMAIN y
    BY <2>3 DEF Telling
  <2>5. Compatible(p, y)
    <3>1. \A k \in Telling \ {"owner", "since"} : k \notin DOMAIN y
      BY <2>3
    <3>2. {"owner", "since"} \subseteq DOMAIN y /\ y.owner \in Members \cup {None}
          /\ (y.owner # None => y.since \in History)
      BY <2>3
    <3> QED
      BY <2>1, <2>4, <3>1, <3>2 DEF Compatible
  <2> QED
    BY <2>2, <2>4, <2>5 DEF Fits, Keyed, y
<1>7. \/ file[p].owner # None /\ m # None /\ Begin(w, <<a, b, c>>)
      \/ m # None /\ Begin(w, <<b, c>>)
      \/ file[p].owner # None /\ Begin(w, <<a, c>>)
  BY <1>0, NewOwnerIs DEF UpdatePlot
<1> HIDE DEF a, b, c
<1>8. Novel(<<a, b, c>>) /\ Novel(<<b, c>>) /\ Novel(<<a, c>>)
  BY <1>2, <1>4, <1>5, <1>6 DEF Novel, Founds
<1>9. a.op \in Statements /\ b.op \in Statements /\ c.op \in Statements
  BY <1>4, <1>5, <1>6 DEF Statements
<1> QED
  BY <1>4, <1>5, <1>6, <1>7, <1>8, <1>9, Tuple2, Tuple3, Keyless

LEMMA Held ==
  ASSUME RowInv, NEW s, NEW v, NEW i \in Holders(<<"document", s, v>>)
  PROVE  i \in Versions(s) /\ file[i].version = v
<1>1. i \in Ids /\ "key" \in DOMAIN file[i] /\ file[i].key = <<"document", s, v>>
  BY DEF Holders
<1>2. file[i] # NoRow
  BY <1>1, WriteFields
<1>3. file[i].key[1] = "document"
  BY <1>1
<1>4. i \in Documents /\ DocRow(file[i])
  BY <1>1, <1>2, <1>3 DEF RowInv, Typed
<1>5. file[i].key = <<"document", file[i].subject, file[i].version>>
  BY <1>4 DEF DocRow
<1>6. file[i].subject = s /\ file[i].version = v
  BY <1>1, <1>5
<1> QED
  BY <1>2, <1>4, <1>6 DEF Versions

LEMMA VersionsTyped ==
  ASSUME RowInv, NEW s, NEW d \in Versions(s)
  PROVE  DocRow(file[d]) /\ file[d].subject = s /\ file[d].version \in Nat /\ d \in Documents /\ file[d] # NoRow
<1>1. d \in Ids /\ d \in Documents /\ file[d] # NoRow /\ file[d].subject = s
  BY MainTablesApart DEF Versions, Shared
<1>2. DocRow(file[d])
  BY <1>1 DEF RowInv, Typed
<1>3. MaxVersion \in Nat
  BY RecordsAssumption
<1> QED
  BY <1>1, <1>2, <1>3 DEF DocRow

LEMMA UploadingIs ==
  ASSUME RowInv, LatestInv, NEW w \in Workers, NEW d \in Documents, NEW s \in Subjects, UploadDocument(w, d, s)
  PROVE  Briefly(w)
<1> DEFINE v(last) == file[last].version + 1
           b == Linking(d)
<1>1. Fresh(d) /\ d \notin History \cup Applications \cup Plots \cup Complaints \cup WorkOrders
  <2>1. d \in Unused(Documents)
    BY UploadIs
  <2>2. Fresh(d)
    BY <2>1, UnusedIs
  <2> QED
    BY <2>2, MainTablesApart DEF Shared
<1>2. b.op = "update" /\ b.op \in Statements /\ Fits(b) /\ ~Keyed(b)
  BY WriteFields, FitsPlain, Plain DEF Linking
<1>3. ASSUME NEW n \in 1..MaxVersion, \A i \in Versions(s) : file[i].version # n
      PROVE  LET a == Bringing(d, s, n) IN
             /\ a.op = "insert" /\ a.op \in Statements /\ a.id = d /\ Fits(a) /\ FreeKey(a)
  <2> DEFINE r == DocumentRow(s, n)
             a == Bringing(d, s, n)
  <2>1. a.op = "insert" /\ a.op \in Statements /\ a.id = d /\ a.patch = r
    BY WriteFields DEF Bringing
  <2>2. DocRow(r) /\ r.key = <<"document", s, n>>
    BY DEF DocRow, DocumentRow
  <2> HIDE DEF r, a
  <2>3. Fits(a)
    BY <1>1, <2>1, <2>2 DEF Fits, Typed, Shared, Applications
  <2>4. Holders(r.key) = {}
    BY <1>3, <2>2, Held
  <2> QED
    BY <2>1, <2>3, <2>4 DEF FreeKey, a
<1>4. CASE Latest(s) = {} /\ Begin(w, <<Bringing(d, s, 1), Linking(d)>>)
  <2> DEFINE a == Bringing(d, s, 1)
  <2>1. Versions(s) = {} /\ 1 \in 1..MaxVersion
    BY <1>4, RecordsAssumption DEF LatestInv
  <2>2. a.op = "insert" /\ a.op \in Statements /\ a.id = d /\ Fits(a) /\ FreeKey(a)
    BY <1>3, <2>1
  <2>3. Begin(w, <<a, b>>)
    BY <1>4
  <2> HIDE DEF a, b
  <2>4. Novel(<<a, b>>)
    BY <1>1, <1>2, <2>2 DEF Novel, Founds
  <2> QED
    BY <1>2, <2>2, <2>3, <2>4, Tuple2 DEF Briefly, Brief, KeysFree, FreeKey
<1>5. ASSUME NEW last \in Latest(s), file[last].version < MaxVersion,
             Begin(w, <<Bringing(d, s, file[last].version + 1), Linking(d), Replacing(last, d)>>)
      PROVE  Briefly(w)
  <2> DEFINE n == file[last].version + 1
             a == Bringing(d, s, n)
             c == Replacing(last, d)
  <2>1. last \in Versions(s) /\ last \in Documents /\ file[last].version \in Nat
    BY VersionsTyped DEF Latest
  <2>2. n \in 1..MaxVersion /\ \A i \in Versions(s) : file[i].version # n
    BY <1>5, <2>1, VersionsTyped, RecordsAssumption DEF Latest
  <2>3. a.op = "insert" /\ a.op \in Statements /\ a.id = d /\ Fits(a) /\ FreeKey(a)
    BY <1>3, <2>2
  <2>4. c.op = "update" /\ c.op \in Statements /\ Fits(c) /\ ~Keyed(c)
    <3>1. Compatible(last, [by |-> d])
      BY <2>1, MainTablesApart DEF Compatible, Telling, Shared, Applications
    <3> QED
      BY <3>1, WriteFields DEF Replacing, Fits, Keyed
  <2>5. Begin(w, <<a, b, c>>)
    BY <1>5
  <2> HIDE DEF a, b, c
  <2>6. Novel(<<a, b, c>>)
    BY <1>1, <1>2, <2>3, <2>4 DEF Novel, Founds
  <2> QED
    BY <1>2, <2>3, <2>4, <2>5, <2>6, Tuple3 DEF Briefly, Brief, KeysFree, FreeKey
<1> QED
  BY <1>4, <1>5, UploadIs

-----------------------------------------------------------------------------
(* Statements                                                              *)

\* The keys of rows after a statement.
StoresKeys(x) ==
  \A i \in Ids : "key" \in DOMAIN file'[i] =>
    \/ i = x.id /\ Keyed(x) /\ file'[i].key = x.patch.key
    \/ "key" \in DOMAIN file[i] /\ file'[i].key = file[i].key

LEMMA StatementKeys ==
  ASSUME KeyInv, NEW w \in Workers, NEW x, Keyed(x) => x \in Left(w), StoresKeys(x), upset \subseteq upset',
         \A v \in Workers \ {w} : Left(v)' = Left(v),
         \A y \in Left(w)' : y \in Left(w) \/ ~Keyed(y)
  PROVE  KeyInv'
<1>1. \A key : ~Undisturbed(key, "key") => ~Undisturbed(key, "key")'
  BY DEF Undisturbed
<1>2. FreeKey(x)
  BY DEF KeyInv, FreeKey
<1>3. OneHolder'
  <2> SUFFICES ASSUME NEW i \in Ids, NEW j \in Ids, "key" \in DOMAIN file'[i], "key" \in DOMAIN file'[j],
                      file'[i].key = file'[j].key, i # j
               PROVE  <<file'[i].key, "key">> \in upset'
    BY DEF OneHolder, Undisturbed
  <2>1. \A k \in Ids : "key" \in DOMAIN file[k] /\ Keyed(x) /\ file[k].key = x.patch.key /\ k # x.id
          => ~Undisturbed(x.patch.key, "key")
    BY <1>2 DEF FreeKey, Holders
  <2>2. \A k, l \in Ids : "key" \in DOMAIN file[k] /\ "key" \in DOMAIN file[l] /\ file[k].key = file[l].key /\ k # l
          => ~Undisturbed(file[k].key, "key")
    BY DEF KeyInv, OneHolder
  <2>3. \/ i = x.id /\ Keyed(x) /\ file'[i].key = x.patch.key
        \/ "key" \in DOMAIN file[i] /\ file'[i].key = file[i].key
    BY DEF StoresKeys
  <2>4. \/ j = x.id /\ Keyed(x) /\ file'[j].key = x.patch.key
        \/ "key" \in DOMAIN file[j] /\ file'[j].key = file[j].key
    BY DEF StoresKeys
  <2>5. \A key : ~Undisturbed(key, "key") => <<key, "key">> \in upset'
    BY DEF Undisturbed
  <2> QED
    BY <2>1, <2>2, <2>3, <2>4, <2>5
<1>4. \A u \in Workers : \A y \in Left(u)' : y \in Left(u) \/ ~Keyed(y)
  OBVIOUS
<1>5. ASSUME NEW u \in Workers, NEW y \in Left(u)' PROVE FreeKey(y)'
  <2> SUFFICES ASSUME Keyed(y), NEW i \in Ids, "key" \in DOMAIN file'[i], file'[i].key = y.patch.key,
                      i # y.id
               PROVE  ~Undisturbed(y.patch.key, "key")'
    BY DEF FreeKey, Holders
  <2>1. y \in Left(u)
    BY <1>4, <1>5
  <2>2. CASE i = x.id /\ Keyed(x) /\ file'[i].key = x.patch.key
    BY <1>1, <2>1, <2>2 DEF KeyInv
  <2>3. CASE "key" \in DOMAIN file[i] /\ file'[i].key = file[i].key
    <3>1. FreeKey(y)
      BY <2>1 DEF KeyInv
    <3> QED
      BY <1>1, <2>3, <3>1 DEF FreeKey, Holders
  <2> QED
    BY <2>2, <2>3 DEF StoresKeys
<1>6. ASSUME NEW u \in Workers, NEW v \in Workers, NEW y \in Left(u)', NEW z \in Left(v)',
             Keyed(y), Keyed(z), y.patch.key = z.patch.key, u # v \/ y.id # z.id
      PROVE  ~Undisturbed(y.patch.key, "key")'
  <2>1. y \in Left(u) /\ z \in Left(v)
    BY <1>4, <1>6
  <2> QED
    BY <1>1, <1>6, <2>1 DEF KeyInv
<1> QED
  BY <1>3, <1>5, <1>6 DEF KeyInv

\* Rows that are founded by a statement are those the list founds first.
LEMMA StatementFounds ==
  ASSUME FreshInv, RequestInv, NEW w \in Workers, job[w].todo # <<>>, NEW s, Turns(w, s),
         s = Tail(job[w].todo) \/ \A k \in DOMAIN s : ~Founds(s[k]),
         \A id \in Founded : file[id] = NoRow /\ file'[id] # NoRow =>
           Founds(Head(job[w].todo)) /\ Head(job[w].todo).id = id
  PROVE  FreshInv'
<1> DEFINE q == job[w].todo
<1>1. Sequence(q) /\ q # <<>>
  BY DEF RequestInv, JobRecord
<1>2. Head(q) = q[1] /\ 1 \in DOMAIN q
  BY <1>1, Behead DEF Sequence
<1>3. \A k \in DOMAIN Tail(q) : k + 1 \in DOMAIN q /\ Tail(q)[k] = q[k + 1] /\ k \in Nat
  BY <1>1, Behead
<1>4. \A k \in DOMAIN Tail(q) : k + 1 # 1
  <2>1. \A k \in DOMAIN Tail(q) : k \in 1..(Len(q) - 1)
    BY <1>1, <1>3 DEF Sequence
  <2>2. Len(q) \in Nat
    BY <1>1 DEF Sequence
  <2> QED
    BY <2>1, <2>2
<1> HIDE DEF q
<1> DEFINE old(v, k) == IF v = w THEN k + 1 ELSE k
<1>5. ASSUME NEW v \in Workers, NEW k \in DOMAIN job'[v].todo, Founds(job'[v].todo[k])
      PROVE  /\ old(v, k) \in DOMAIN job[v].todo /\ job'[v].todo[k] = job[v].todo[old(v, k)]
             /\ v = w => old(v, k) # 1 /\ k \in Nat
  <2>1. CASE v # w
    BY <1>5, <2>1 DEF Turns
  <2>2. CASE v = w
    <3>1. job'[v].todo = s
      BY <2>2 DEF Turns
    <3>2. s = Tail(q)
      BY <1>5, <3>1 DEF q
    <3> QED
      BY <1>3, <1>4, <1>5, <2>2, <3>1, <3>2 DEF q
  <2> QED
    BY <2>1, <2>2
<1>6. ASSUME NEW v \in Workers, NEW j \in DOMAIN job'[v].todo, Founds(job'[v].todo[j])
      PROVE  /\ file'[job'[v].todo[j].id] = NoRow
             /\ \A u \in Workers : \A k \in DOMAIN job'[u].todo :
                  Founds(job'[u].todo[k]) /\ job'[u].todo[k].id = job'[v].todo[j].id => v = u /\ j = k
  <2> DEFINE x == job'[v].todo[j]
  <2>1. /\ old(v, j) \in DOMAIN job[v].todo /\ x = job[v].todo[old(v, j)]
        /\ v = w => old(v, j) # 1 /\ j \in Nat
    BY <1>5, <1>6
  <2> HIDE DEF old
  <2>2. /\ file[x.id] = NoRow
        /\ \A u \in Workers : \A k \in DOMAIN job[u].todo :
             Founds(job[u].todo[k]) /\ job[u].todo[k].id = x.id => v = u /\ old(v, j) = k
    BY <1>6, <2>1 DEF FreshInv
  <2>3. ~(Founds(Head(q)) /\ Head(q).id = x.id)
    BY <1>2, <2>1, <2>2 DEF q
  <2>4. file'[x.id] = NoRow
    BY <1>6, <2>2, <2>3 DEF Founds, q
  <2>5. ASSUME NEW u \in Workers, NEW k \in DOMAIN job'[u].todo, Founds(job'[u].todo[k]), job'[u].todo[k].id = x.id
        PROVE  v = u /\ j = k
    <3>1. /\ old(u, k) \in DOMAIN job[u].todo /\ job'[u].todo[k] = job[u].todo[old(u, k)]
          /\ u = w => old(u, k) # 1 /\ k \in Nat
      BY <1>5, <2>5
    <3>2. v = u /\ old(v, j) = old(u, k)
      BY <2>2, <2>5, <3>1
    <3>3. CASE v = w
      BY <2>1, <3>1, <3>2, <3>3 DEF old
    <3>4. CASE v # w
      BY <3>2, <3>4 DEF old
    <3> QED
      BY <3>2, <3>3, <3>4
  <2> QED
    BY <2>4, <2>5
<1> QED
  BY <1>6 DEF FreshInv

\* Rows the invariants are about stay, and what they tell stays but for a column
\* the statement writes.
LEMMA ResultTyped ==
  ASSUME NEW x, x.op \in Statements, Fits(x), NEW r, r # NoRow => Typed(x.id, r), Result(x, r) # NoRow
  PROVE  Typed(x.id, Result(x, r))
<1>1. CASE x.op = "insert"
  BY <1>1 DEF Fits, Result
<1>2. CASE x.op = "update" /\ r # NoRow
  <2> DEFINE p == x.patch
             id == x.id
             o == Over(p, r)
  <2>1. Result(x, r) = o /\ Compatible(id, p) /\ Typed(id, r)
    BY <1>2 DEF Fits, Result
  <2>2. \A c : /\ c \in DOMAIN o <=> c \in DOMAIN p \/ c \in DOMAIN r
               /\ c \in DOMAIN p => o[c] = p[c]
               /\ c \notin DOMAIN p /\ c \in DOMAIN r => o[c] = r[c]
    BY OverColumns
  <2> HIDE DEF p, id, o
  <2>3. id \in History => HistoryRow(o)
    <3> SUFFICES ASSUME id \in History PROVE HistoryRow(o)
      OBVIOUS
    <3>1. HistoryRow(r) /\ \A c \in Telling : c \notin DOMAIN p
      BY <2>1 DEF Typed, Compatible
    <3> QED
      BY <2>2, <3>1 DEF HistoryRow, Telling
  <2>4. id \in Transfers => TransfersRow(o)
    <3> SUFFICES ASSUME id \in Transfers PROVE TransfersRow(o)
      OBVIOUS
    <3>1. TransfersRow(r) /\ \A c \in Telling : c \notin DOMAIN p
      BY <2>1 DEF Typed, Compatible, Applications
    <3> QED
      BY <2>2, <3>1 DEF TransfersRow, Telling
  <2>5. id \in Possessions \cup Constructions => "plot" \in DOMAIN o /\ o.plot \in Plots
    BY <2>1, <2>2 DEF Typed, Compatible, Applications, Telling
  <2>6. id \in Plots => PlotRow(o)
    <3> SUFFICES ASSUME id \in Plots PROVE PlotRow(o)
      OBVIOUS
    <3>1. PlotRow(r) /\ \/ {"owner", "since"} \subseteq DOMAIN p /\ p.owner \in Members \cup {None}
                           /\ (p.owner # None => p.since \in History)
                        \/ "owner" \notin DOMAIN p /\ "since" \notin DOMAIN p
      BY <2>1 DEF Typed, Compatible
    <3> QED
      BY <2>2, <3>1 DEF PlotRow
  <2>7. id \in Documents => DocRow(o)
    <3> SUFFICES ASSUME id \in Documents PROVE DocRow(o)
      OBVIOUS
    <3>1. /\ DocRow(r) /\ \A c \in Telling \ {"by"} : c \notin DOMAIN p
          /\ "by" \in DOMAIN p => p.by \in Documents
      BY <2>1 DEF Typed, Compatible
    <3>2. o.by \in Documents \cup {None}
      BY <2>2, <3>1 DEF DocRow
    <3>3. o.subject = r.subject /\ o.version = r.version /\ o.key = r.key
      BY <2>2, <3>1 DEF DocRow, Telling
    <3> QED
      BY <2>2, <3>1, <3>2, <3>3 DEF DocRow
  <2>8. id \in Complaints \cup WorkOrders => "thread" \in DOMAIN o /\ o.thread \in Seq(Workers)
    BY <2>1, <2>2 DEF Typed, Compatible
  <2>9. "key" \in DOMAIN o => o.key[1] # "document" \/ id \in Documents
    BY <2>1, <2>2 DEF Typed, Compatible
  <2> QED
    BY <2>1, <2>3, <2>4, <2>5, <2>6, <2>7, <2>8, <2>9 DEF Typed, id
<1> QED
  BY <1>1, <1>2 DEF Result

LEMMA ResultKeys ==
  ASSUME NEW x, x.op \in Statements, NEW r, "key" \in DOMAIN Result(x, r)
  PROVE  \/ Keyed(x) /\ Result(x, r).key = x.patch.key
         \/ "key" \in DOMAIN r /\ Result(x, r).key = r.key
<1>1. CASE x.op = "update" /\ r # NoRow
  BY <1>1, OverColumns DEF Result, Keyed
<1>2. CASE x.op = "insert"
  BY <1>2 DEF Result, Keyed
<1>3. CASE x.op # "insert" /\ ~(x.op = "update" /\ r # NoRow)
  BY <1>3, WriteFields DEF Result
<1> QED
  BY <1>1, <1>2, <1>3

\* Of documents only a new one changes what versions there are.
LEMMA LatestStays ==
  ASSUME LatestInv, RowInv, RowInv',
         NEW e,
         \A d \in Documents : file[d] # NoRow =>
           file'[d] # NoRow /\ file'[d].subject = file[d].subject /\ file'[d].version = file[d].version,
         \A d \in Documents : file[d] = NoRow /\ file'[d] # NoRow => d = e
  PROVE  LatestInv'
<1> SUFFICES ASSUME NEW s \in Subjects, Versions(s)' # {} PROVE Latest(s)' # {}
  BY DEF LatestInv
<1>1. \A d \in Versions(s) : d \in Versions(s)' /\ file'[d].version = file[d].version
  BY DEF Versions
<1>2. \A d \in Versions(s)' : d \in Versions(s) \/ d = e
  BY DEF Versions
<1>3. \A d \in Versions(s)' : file'[d].version \in Nat
  <2>1. ASSUME NEW d \in Versions(s)' PROVE file'[d].version \in Nat
    <3>1. d \in Ids /\ d \in Documents /\ file'[d] # NoRow
      BY MainTablesApart DEF Versions, Shared
    <3>2. DocRow(file'[d])
      BY <3>1 DEF RowInv, Typed, DocRow
    <3> QED
      BY <3>2, RecordsAssumption DEF DocRow
  <2> QED
    BY <2>1
<1>4. CASE Versions(s) = {}
  <2>1. Versions(s)' = {e}
    BY <1>2, <1>4
  <2>2. e \in Latest(s)'
    BY <1>3, <2>1 DEF Latest
  <2> QED
    BY <2>2
<1>5. CASE Versions(s) # {}
  <2>1. PICK l \in Latest(s) : TRUE
    BY <1>5 DEF LatestInv
  <2>2. l \in Versions(s)' /\ \A d \in Versions(s) : file'[d].version <= file'[l].version
    BY <1>1, <2>1 DEF Latest
  <2>3. CASE e \in Versions(s)' /\ ~(file'[e].version <= file'[l].version)
    <3>1. ASSUME NEW d \in Versions(s)' PROVE file'[d].version <= file'[e].version
      BY <1>2, <1>3, <2>2, <2>3
    <3>2. e \in Latest(s)'
      BY <2>3, <3>1 DEF Latest
    <3> QED
      BY <3>2
  <2>4. CASE ~(e \in Versions(s)' /\ ~(file'[e].version <= file'[l].version))
    <3>1. l \in Latest(s)'
      BY <1>2, <2>2, <2>4 DEF Latest
    <3> QED
      BY <3>1
  <2> QED
    BY <2>3, <2>4
<1> QED
  BY <1>4, <1>5

LEMMA WriteKeeps ==
  ASSUME OfficeInv, NEW w \in Workers, Write(w)
  PROVE  OfficeInv'
<1> DEFINE q == job[w].todo
           x == Head(q)
<1>0. RequestInv /\ RowInv /\ ImportInv /\ KeyInv /\ FreshInv /\ LatestInv
  BY DEF OfficeInv
<1>1. /\ Turns(w, Tail(q)) /\ upset' = upset /\ q # <<>> /\ x.op \in Statements /\ x \in Left(w)
      /\ DOMAIN file' = Ids /\ file' = [id \in Ids |-> file'[id]]
      /\ \A id \in Ids : file'[id] = IF id = x.id THEN Result(x, file[id]) ELSE file[id]
  BY <1>0, Writing
<1>2. Left(w)' = ToSet(Tail(q)) /\ \A v \in Workers \ {w} : Left(v)' = Left(v)
  BY <1>1, TurnsLeft
<1>3. /\ Sequence(q) /\ Sequence(Tail(q)) /\ x = q[1] /\ ToSet(Tail(q)) \subseteq ToSet(q)
      /\ \A k \in DOMAIN Tail(q) : k + 1 \in DOMAIN q /\ Tail(q)[k] = q[k + 1] /\ k \in Nat
  BY <1>0, <1>1, Behead DEF RequestInv, JobRecord
<1>4. \A y \in Left(w)' : y \in Left(w)
  BY <1>2, <1>3 DEF Left
<1>5. Fits(x)
  BY <1>0, <1>1 DEF RowInv
<1> HIDE DEF x
<1>6. RequestInv'
  BY <1>0, <1>1, TurnsRequests
<1>7. RowInv'
  <2>1. ASSUME NEW id \in Ids, file'[id] # NoRow PROVE Typed(id, file'[id])
    <3>1. CASE id # x.id
      BY <1>0, <1>1, <2>1, <3>1 DEF RowInv
    <3>2. CASE id = x.id
      BY <1>0, <1>1, <1>5, <2>1, <3>2, ResultTyped DEF RowInv
    <3> QED
      BY <3>1, <3>2
  <2>2. ASSUME NEW p \in Plots PROVE file'[p] # NoRow
    <3>1. p \in Ids /\ file[p] # NoRow
      BY <1>0, MainTablesApart DEF RowInv, Shared
    <3>2. CASE p # x.id
      BY <1>1, <3>1, <3>2
    <3>3. CASE p = x.id
      <4>1. x.op = "update" /\ Typed(p, file[p])
        BY <1>0, <1>1, <1>5, <3>1, <3>3 DEF Fits, Statements, Shared, RowInv
      <4>2. file'[p] = Over(x.patch, file[p]) /\ "owner" \in DOMAIN file[p]
        BY <1>1, <3>1, <3>3, <4>1 DEF Result, Typed, PlotRow
      <4>3. "owner" \in DOMAIN file'[p]
        BY <4>2, OverColumns
      <4> QED
        BY <4>3 DEF NoRow
    <3> QED
      BY <3>2, <3>3
  <2> QED
    BY <1>0, <1>2, <1>4, <2>1, <2>2 DEF RowInv, Typed, HistoryRow, TransfersRow, PlotRow, DocRow
<1>8. ImportInv'
  <2> DEFINE s == Tail(q)
  <2>1. \A y \in ToSet(s) : \/ y.op \in Statements
                            \/ y.op \in {"check", "add"} /\ Importing(y)
                            \/ Undoing(y)
    BY <1>0, <1>3 DEF ImportInv
  <2>2. \A j, k \in DOMAIN s : s[j].op \in {"check", "add"} /\ j < k => s[k].op = "check"
    <3>1. \A j, k \in DOMAIN q : q[j].op \in {"check", "add"} /\ j < k => q[k].op = "check"
      BY <1>0 DEF ImportInv
    <3> QED
      BY <1>3, <3>1
  <2> QED
    BY <1>0, <1>1, <2>1, <2>2, TurnsImports
<1>9. KeyInv'
  <2>1. StoresKeys(x)
    <3> SUFFICES ASSUME NEW i \in Ids, "key" \in DOMAIN file'[i]
                 PROVE  \/ i = x.id /\ Keyed(x) /\ file'[i].key = x.patch.key
                        \/ "key" \in DOMAIN file[i] /\ file'[i].key = file[i].key
      BY DEF StoresKeys
    <3>1. CASE i # x.id
      BY <1>1, <3>1
    <3>2. CASE i = x.id
      <4>1. file'[i] = Result(x, file[i])
        BY <1>1, <3>2
      <4> QED
        BY <1>1, <3>2, <4>1, ResultKeys
    <3> QED
      BY <3>1, <3>2
  <2> QED
    BY <1>0, <1>1, <1>2, <1>4, <2>1, StatementKeys
<1>10. FreshInv'
  <2>1. ASSUME NEW id \in Founded, file[id] = NoRow, file'[id] # NoRow
        PROVE  Founds(x) /\ x.id = id
    <3>1. id \in Ids
      BY MainTablesApart DEF Founded, Shared, Applications
    <3>2. id = x.id /\ Result(x, file[id]) # NoRow
      BY <1>1, <2>1, <3>1
    <3> QED
      BY <2>1, <3>2 DEF Result, Founds
  <2> QED
    BY <1>0, <1>1, <2>1, StatementFounds DEF x
<1>11. LatestInv'
  <2>1. ASSUME NEW d \in Documents, file[d] # NoRow
        PROVE  file'[d] # NoRow /\ file'[d].subject = file[d].subject /\ file'[d].version = file[d].version
    <3>1. d \in Ids /\ d \in Founded /\ DocRow(file[d])
      BY <1>0, <2>1, MainTablesApart DEF Shared, Founded, RowInv, Typed
    <3>2. CASE d # x.id
      BY <1>1, <2>1, <3>1, <3>2
    <3>3. CASE d = x.id
      <4>1. ~Founds(x)
        <5>1. PICK k \in DOMAIN q : x = q[k]
          BY <1>1 DEF Left, ToSet
        <5> QED
          BY <1>0, <2>1, <3>3, <5>1 DEF FreshInv
      <4>2. x.op = "update"
        BY <1>1, <1>5, <3>1, <3>3, <4>1 DEF Founds, Fits, Statements, Shared
      <4>3. file'[d] = Over(x.patch, file[d]) /\ Compatible(d, x.patch)
        BY <1>1, <1>5, <2>1, <3>1, <3>3, <4>2 DEF Result, Fits
      <4>4. \A c \in {"subject", "version"} : c \notin DOMAIN x.patch /\ c \in DOMAIN file[d]
        BY <3>1, <4>3 DEF Compatible, Telling, DocRow
      <4>5. \A c \in {"subject", "version"} : c \in DOMAIN file'[d] /\ file'[d][c] = file[d][c]
        BY <4>3, <4>4, OverColumns
      <4> QED
        BY <4>5 DEF NoRow
    <3> QED
      BY <3>2, <3>3
  <2>2. ASSUME NEW d \in Documents, file[d] = NoRow, file'[d] # NoRow PROVE d = x.id
    BY <1>1, <2>2, MainTablesApart DEF Shared
  <2> QED
    BY <1>0, <1>7, <2>1, <2>2, LatestStays
<1> QED
  BY <1>6, <1>7, <1>8, <1>9, <1>10, <1>11 DEF OfficeInv

\* A statement of an import, which writes a member's row.
LEMMA ImportStatement ==
  ASSUME OfficeInv, NEW w \in Workers, job[w].todo # <<>>, NEW x, x \in Left(w), x.id \in Persons,
         Keyed(x) => x.patch.key[1] # "document",
         DOMAIN file' = Ids, file' = [id \in Ids |-> file'[id]],
         \A id \in Ids \ {x.id} : file'[id] = file[id],
         StoresKeys(x), upset' = upset,
         NEW s, Turns(w, s), s = Tail(job[w].todo) \/ \A k \in DOMAIN s : Undoing(s[k])
  PROVE  OfficeInv'
<1> DEFINE q == job[w].todo
<1>0. RequestInv /\ RowInv /\ ImportInv /\ KeyInv /\ FreshInv /\ LatestInv
  BY DEF OfficeInv
<1>1. x.id \notin History \cup Shared \cup Applications
  BY TablesApart DEF Apart
<1>2. Left(w)' = ToSet(s) /\ \A v \in Workers \ {w} : Left(v)' = Left(v)
  BY TurnsLeft
<1>3. /\ Sequence(q) /\ ToSet(Tail(q)) \subseteq ToSet(q)
      /\ \A k \in DOMAIN Tail(q) : k + 1 \in DOMAIN q /\ Tail(q)[k] = q[k + 1] /\ k \in Nat
  BY <1>0, Behead DEF RequestInv, JobRecord
<1>4. \A y \in ToSet(s) : y \in Left(w) \/ Undoing(y)
  <2>1. CASE s = Tail(q)
    BY <1>3, <2>1 DEF Left
  <2>2. CASE \A k \in DOMAIN s : Undoing(s[k])
    BY <2>2 DEF ToSet
  <2> QED
    BY <2>1, <2>2
<1>5. \A y : Undoing(y) => Fits(y) /\ ~Keyed(y) /\ ~Founds(y)
  BY DEF Undoing, Fits, Keyed, Founds, Telling
<1>6. RequestInv'
  BY <1>0, TurnsRequests
<1>7. RowInv'
  <2>1. ASSUME NEW id \in Ids, file'[id] # NoRow PROVE Typed(id, file'[id])
    <3>1. CASE id # x.id
      BY <1>0, <2>1, <3>1 DEF RowInv
    <3>2. CASE id = x.id
      <4>1. ASSUME "key" \in DOMAIN file'[id] PROVE file'[id].key[1] # "document"
        <5>1. CASE Keyed(x) /\ file'[id].key = x.patch.key
          BY <5>1
        <5>2. CASE "key" \in DOMAIN file[id] /\ file'[id].key = file[id].key
          <6>1. Typed(id, file[id])
            BY <1>0, <5>2, WriteFields DEF RowInv
          <6> QED
            BY <1>1, <3>2, <5>2, <6>1 DEF Typed, Shared
        <5> QED
          BY <4>1, <5>1, <5>2 DEF StoresKeys
      <4> QED
        BY <1>1, <3>2, <4>1 DEF Typed, Shared, Applications
    <3> QED
      BY <3>1, <3>2
  <2>2. \A p \in Plots : file'[p] # NoRow
    BY <1>0, <1>1, MainTablesApart DEF RowInv, Shared
  <2>3. \A v \in Workers : \A y \in Left(v)' : Fits(y)
    BY <1>0, <1>2, <1>4, <1>5 DEF RowInv
  <2> QED
    BY <2>1, <2>2, <2>3 DEF RowInv, Typed, HistoryRow, TransfersRow, PlotRow, DocRow
<1>8. ImportInv'
  <2>1. \A y \in ToSet(s) : \/ y.op \in Statements
                            \/ y.op \in {"check", "add"} /\ Importing(y)
                            \/ Undoing(y)
    BY <1>0, <1>4 DEF ImportInv, Left
  <2>2. \A j, k \in DOMAIN s : s[j].op \in {"check", "add"} /\ j < k => s[k].op = "check"
    <3>1. \A j, k \in DOMAIN q : q[j].op \in {"check", "add"} /\ j < k => q[k].op = "check"
      BY <1>0 DEF ImportInv
    <3>2. CASE s = Tail(q)
      BY <1>3, <3>1, <3>2
    <3>3. CASE \A k \in DOMAIN s : Undoing(s[k])
      BY <3>3 DEF Undoing
    <3> QED
      BY <3>2, <3>3
  <2> QED
    BY <1>0, <2>1, <2>2, TurnsImports
<1>9. KeyInv'
  BY <1>0, <1>2, <1>4, <1>5, StatementKeys
<1>10. \A id \in Founded : file'[id] = file[id]
  BY <1>1, MainTablesApart DEF Founded, Shared, Applications
<1>11. FreshInv'
  BY <1>0, <1>5, <1>10, StatementFounds
<1>12. LatestInv'
  <2>1. \A d \in Documents : file'[d] = file[d]
    BY <1>10 DEF Founded
  <2> QED
    BY <1>0, <2>1 DEF LatestInv, Versions, Latest
<1> QED
  BY <1>6, <1>7, <1>8, <1>9, <1>11, <1>12 DEF OfficeInv

LEMMA ImportHead ==
  ASSUME OfficeInv, NEW w \in Workers, NEW op \in {"check", "add", "undo"}, At(w, op)
  PROVE  LET x == Head(job[w].todo) IN
         /\ job[w].todo # <<>> /\ Sequence(job[w].todo) /\ Sequence(Tail(job[w].todo))
         /\ x \in Left(w) /\ x.id \in Persons /\ x.id \in Ids /\ x.op = op /\ x = job[w].todo[1]
         /\ op \in {"check", "add"} => Importing(x)
         /\ op = "undo" => Undoing(x)
<1>1. job[w].todo # <<>> /\ Sequence(job[w].todo) /\ Head(job[w].todo).op = op
  BY DEF At, OfficeInv, RequestInv, JobRecord
<1>2. /\ Sequence(Tail(job[w].todo)) /\ Head(job[w].todo) \in Left(w)
      /\ Head(job[w].todo) = job[w].todo[1]
  BY <1>1, Behead DEF Left
<1>3. /\ op \in {"check", "add"} => Importing(Head(job[w].todo))
      /\ op = "undo" => Undoing(Head(job[w].todo))
  BY <1>1, <1>2 DEF OfficeInv, ImportInv, Statements, Undoing, Left
<1>4. Persons \subseteq Ids
  <2>1. \A i, j \in 1..27 : Tables[i] \subseteq Ids
    BY TablesAssumption DEF Tables
  <2>2. Tables[27] \subseteq Ids
    BY <2>1
  <2> QED
    BY <2>2 DEF Tables
<1>5. Head(job[w].todo).id \in Persons
  BY <1>3 DEF Importing, Undoing
<1> QED
  BY <1>1, <1>2, <1>3, <1>4, <1>5

LEMMA UndoIs ==
  ASSUME NEW x, Importing(x)
  PROVE  Sequence(x.undo) /\ \A k \in DOMAIN x.undo : Undoing(x.undo[k])
BY DEF Importing, ToSet

LEMMA AddKeeps ==
  ASSUME OfficeInv, NEW w \in Workers, AddRow(w)
  PROVE  OfficeInv'
<1> DEFINE q == job[w].todo
           x == Head(q)
<1>1. /\ q # <<>> /\ Sequence(q) /\ Sequence(Tail(q)) /\ x \in Left(w) /\ x.id \in Persons /\ x.id \in Ids
      /\ x.op = "add" /\ Importing(x)
  BY ImportHead DEF AddRow
<1>2. /\ file' = [file EXCEPT ![x.id] = x.patch] /\ upset' = upset
      /\ Proceed(w, Tail(q)) \/ Proceed(w, x.undo)
  BY DEF AddRow
<1> HIDE DEF x
<1>3. DOMAIN file' = Ids /\ file' = [id \in Ids |-> file'[id]]
      /\ \A id \in Ids : file'[id] = IF id = x.id THEN x.patch ELSE file[id]
  BY <1>1, <1>2 DEF OfficeInv, RequestInv
<1>4. StoresKeys(x) /\ (Keyed(x) => x.patch.key[1] # "document")
  BY <1>1, <1>3 DEF StoresKeys, Keyed, Importing
<1>5. Turns(w, Tail(q)) \/ Turns(w, x.undo)
  BY <1>1, <1>2, Proceeds, UndoIs DEF OfficeInv
<1> HIDE DEF q
<1>6. CASE Turns(w, Tail(q))
  BY <1>1, <1>2, <1>3, <1>4, <1>6, ImportStatement DEF q
<1>7. CASE Turns(w, x.undo)
  BY <1>1, <1>2, <1>3, <1>4, <1>7, ImportStatement, UndoIs DEF q
<1> QED
  BY <1>5, <1>6, <1>7

LEMMA UndoKeeps ==
  ASSUME OfficeInv, NEW w \in Workers, UndoRow(w)
  PROVE  OfficeInv'
<1> DEFINE q == job[w].todo
           x == Head(q)
<1>1. /\ q # <<>> /\ Sequence(q) /\ Sequence(Tail(q)) /\ x \in Left(w) /\ x.id \in Persons /\ x.id \in Ids
      /\ x.op = "undo" /\ Undoing(x)
  BY ImportHead DEF UndoRow
<1>2. /\ file' = file \/ file' = [file EXCEPT ![x.id] = Over(x.patch, @)]
      /\ upset' = upset /\ Proceed(w, Tail(q))
  BY DEF UndoRow
<1> HIDE DEF x
<1>3. DOMAIN file' = Ids /\ file' = [id \in Ids |-> file'[id]]
      /\ \A id \in Ids : file'[id] = file[id] \/ (id = x.id /\ file'[id] = Over(x.patch, file[id]))
  BY <1>1, <1>2 DEF OfficeInv, RequestInv
<1>4. StoresKeys(x) /\ ~Keyed(x)
  <2>1. "key" \notin DOMAIN x.patch
    BY <1>1 DEF Undoing, Telling
  <2> QED
    BY <1>3, <2>1, OverColumns DEF StoresKeys, Keyed
<1>5. Turns(w, Tail(q))
  BY <1>1, <1>2, Proceeds DEF OfficeInv
<1> HIDE DEF q
<1>6. \A id \in Ids \ {x.id} : file'[id] = file[id]
  BY <1>3
<1> QED
  BY <1>1, <1>2, <1>3, <1>4, <1>5, <1>6, ImportStatement DEF q

LEMMA CommitKeeps ==
  ASSUME OfficeInv, NEW w \in Workers, NEW ms \in [1..2 -> Persons], NEW cnics, NEW all,
         commitMembers(w, ms, cnics, all)
  PROVE  OfficeInv'
<1> DEFINE s == [k \in DOMAIN ms |-> RowOf(ms, cnics, k, all)]
<1>0. RequestInv /\ RowInv /\ ImportInv /\ KeyInv /\ FreshInv /\ LatestInv
  BY DEF OfficeInv
<1>1. DOMAIN ms = 1..2 /\ s = [k \in 1..2 |-> s[k]] /\ DOMAIN s = 1..2 /\ Begin(w, s)
  BY DEF commitMembers
<1>2. Sequence(s) /\ ToSet(s) = {s[k] : k \in 1..2}
  BY <1>1, Numbered
<1>3. ASSUME NEW k \in 1..2 PROVE s[k].op = "check" /\ Importing(s[k])
  <2> DEFINE undo(j) == [Update(ms[j], [status |-> "Inactive"]) EXCEPT !.op = "undo"]
             u == [j \in 1..(k - 1) |-> undo(j)]
             x == s[k]
  <2>1. /\ x = [op |-> "check", id |-> ms[k], patch |-> MemberRow(cnics[k]),
                undo |-> IF all THEN u ELSE <<>>]
        /\ ms[k] \in Persons
    BY <1>1 DEF RowOf
  <2>2. \A j \in 1..(k - 1) : Undoing(undo(j))
    <3> SUFFICES ASSUME NEW j \in 1..(k - 1) PROVE Undoing(undo(j))
      OBVIOUS
    <3>1. undo(j).op = "undo" /\ undo(j).id = ms[j] /\ undo(j).patch = [status |-> "Inactive"]
      BY DEF Update
    <3>2. j \in 1..2
      OBVIOUS
    <3> QED
      BY <3>1, <3>2, Plain DEF Undoing
  <2>3. Sequence(u) /\ \A y \in ToSet(u) : Undoing(y)
    <3>1. k - 1 \in Nat /\ u = [j \in 1..(k - 1) |-> u[j]]
      OBVIOUS
    <3>2. Sequence(u) /\ ToSet(u) = {u[j] : j \in 1..(k - 1)}
      BY <3>1, Numbered
    <3> QED
      BY <2>2, <3>2
  <2>4. MemberRow(cnics[k]).key[1] = "cnic" /\ "key" \in DOMAIN MemberRow(cnics[k])
    BY DEF MemberRow, CnicKey
  <2>5. Sequence(<<>>) /\ ToSet(<<>>) = {}
    BY Tuple0
  <2> HIDE DEF u, x, s
  <2>6. Sequence(x.undo) /\ \A y \in ToSet(x.undo) : Undoing(y)
    BY <2>1, <2>3, <2>5
  <2> QED
    BY <2>1, <2>4, <2>6 DEF Importing, x
<1> HIDE DEF s
<1>4. /\ Turns(w, s) /\ file' = file /\ upset \subseteq upset'
  BY <1>0, <1>1, <1>2, Beginning
<1>5. Left(w)' = ToSet(s) /\ \A v \in Workers \ {w} : Left(v)' = Left(v)
  BY <1>4, TurnsLeft
<1>6. \A x \in ToSet(s) : x.op = "check" /\ Importing(x) /\ ~Keyed(x) /\ Fits(x)
  BY <1>2, <1>3 DEF Keyed, Fits
<1>7. RequestInv'
  BY <1>0, <1>4, TurnsRequests DEF RequestInv
<1>8. RowInv'
  BY <1>0, <1>4, <1>5, <1>6 DEF RowInv
<1>9. ImportInv'
  BY <1>0, <1>1, <1>3, <1>4, <1>6, TurnsImports
<1>10. KeyInv'
  BY <1>0, <1>4, <1>5, <1>6, BegunKeys DEF FreeKey
<1>11. FreshInv'
  <2>1. Novel(s)
    BY <1>1, <1>3 DEF Novel, Founds
  <2> QED
    BY <1>0, <1>4, <2>1, FoundsFreshly
<1>12. LatestInv'
  BY <1>0, <1>4 DEF LatestInv, Versions, Latest
<1> QED
  BY <1>7, <1>8, <1>9, <1>10, <1>11, <1>12 DEF OfficeInv

\* A list that gets shorter, or is given up: no row changes.
LEMMA GivesUp ==
  ASSUME OfficeInv, NEW w \in Workers, NEW s, Turns(w, s), file' = file, upset \subseteq upset',
         \A k \in DOMAIN s : Undoing(s[k])
  PROVE  OfficeInv'
<1>0. RequestInv /\ RowInv /\ ImportInv /\ KeyInv /\ FreshInv /\ LatestInv
  BY DEF OfficeInv
<1>1. Left(w)' = ToSet(s) /\ \A v \in Workers \ {w} : Left(v)' = Left(v)
  BY TurnsLeft
<1>2. \A x \in ToSet(s) : Undoing(x) /\ x.op \in Statements \cup {"undo"} /\ Fits(x) /\ ~Keyed(x)
  BY DEF Undoing, ToSet, Fits, Keyed, Telling
<1>3. RequestInv'
  BY <1>0, TurnsRequests DEF RequestInv
<1>4. RowInv'
  BY <1>0, <1>1, <1>2 DEF RowInv
<1>5. ImportInv'
  BY <1>0, <1>2, PlainImports
<1>6. KeyInv'
  BY <1>0, <1>1, <1>2, BegunKeys DEF FreeKey
<1>7. FreshInv'
  <2>1. Novel(s)
    BY DEF Novel, Founds, Undoing
  <2> QED
    BY <1>0, <2>1, FoundsFreshly
<1>8. LatestInv'
  BY <1>0 DEF LatestInv, Versions, Latest
<1> QED
  BY <1>3, <1>4, <1>5, <1>6, <1>7, <1>8 DEF OfficeInv

LEMMA DieKeeps ==
  ASSUME OfficeInv, NEW w \in Workers, Die(w)
  PROVE  OfficeInv'
<1>1. Turns(w, <<>>) /\ file' = file /\ upset \subseteq upset'
  BY Dying DEF OfficeInv
<1> QED
  BY <1>1, GivesUp

LEMMA CheckKeeps ==
  ASSUME OfficeInv, NEW w \in Workers, CheckRow(w)
  PROVE  OfficeInv'
<1> DEFINE q == job[w].todo
           x == Head(q)
           y == [x EXCEPT !.op = "add"]
           s == [q EXCEPT ![1] = y]
<1>0. RequestInv /\ RowInv /\ ImportInv /\ KeyInv /\ FreshInv /\ LatestInv
  BY DEF OfficeInv
<1>1. /\ q # <<>> /\ Sequence(q) /\ Sequence(Tail(q)) /\ x \in Left(w) /\ x.id \in Persons /\ x.id \in Ids
      /\ x.op = "check" /\ Importing(x) /\ x = q[1]
  BY ImportHead DEF CheckRow
<1>2. CASE Proceed(w, x.undo) /\ upset' = upset
  <2>1. Turns(w, x.undo) /\ file' = file /\ \A k \in DOMAIN x.undo : Undoing(x.undo[k])
    BY <1>0, <1>1, <1>2, Proceeds, UndoIs DEF CheckRow
  <2> QED
    BY <1>2, <2>1, GivesUp
<1>3. CASE /\ Holders(x.patch.key) = {} /\ job' = [job EXCEPT ![w].todo[1].op = "add"]
           /\ upset' = upset \cup Collisions(w, <<Insert(x.id, x.patch)>>)
  <2>0. file' = file
    BY DEF CheckRow
  <2>1. job'[w].todo = s /\ job'[w].wrote = job[w].wrote /\ job'[w] = [todo |-> s, wrote |-> job[w].wrote]
        /\ DOMAIN job' = Workers /\ job' = [v \in Workers |-> job'[v]]
        /\ \A v \in Workers \ {w} : job'[v] = job[v]
    <3>1. /\ DOMAIN job' = Workers /\ job' = [v \in Workers |-> job'[v]]
          /\ \A v \in Workers \ {w} : job'[v] = job[v]
          /\ job'[w] = [job[w] EXCEPT !.todo[1].op = "add"]
      BY <1>0, <1>3 DEF RequestInv
    <3>2. job[w] = [todo |-> q, wrote |-> job[w].wrote]
      BY <1>0 DEF RequestInv, JobRecord
    <3>3. [job[w] EXCEPT !.todo[1].op = "add"] = [job[w] EXCEPT !.todo = [q EXCEPT ![1].op = "add"]]
      OBVIOUS
    <3>4. [q EXCEPT ![1].op = "add"] = s
      BY <1>1
    <3> HIDE DEF s, q
    <3>5. job'[w] = [job[w] EXCEPT !.todo = s]
      BY <3>1, <3>3, <3>4
    <3>6. job'[w] = [todo |-> s, wrote |-> job[w].wrote]
      BY <3>2, <3>5
    <3> QED
      BY <3>1, <3>6
  <2>2. /\ y = [op |-> "add", id |-> x.id, patch |-> x.patch, undo |-> x.undo]
        /\ y.op = "add" /\ y.id = x.id /\ y.patch = x.patch /\ y.undo = x.undo
    BY <1>1 DEF Importing
  <2> HIDE DEF y
  <2>3. Importing(y)
    BY <1>1, <2>2 DEF Importing
  <2>4. /\ Len(q) \in Nat /\ DOMAIN q = 1..Len(q) /\ 1 \in DOMAIN q
        /\ s = [k \in 1..Len(q) |-> s[k]] /\ DOMAIN s = DOMAIN q
        /\ \A k \in DOMAIN q : s[k] = IF k = 1 THEN y ELSE q[k]
    <3>1. q \in Seq(ToSet(q)) /\ q # <<>>
      BY <1>1 DEF Sequence
    <3> HIDE DEF q
    <3>2. Len(q) \in Nat /\ DOMAIN q = 1..Len(q) /\ 1 \in DOMAIN q
      BY <3>1
    <3>3. s = [k \in DOMAIN q |-> IF k = 1 THEN y ELSE q[k]]
      BY <3>1, <3>2
    <3> QED
      BY <3>2, <3>3
  <2> HIDE DEF s, q
  <2>5. Sequence(s) /\ \A z \in ToSet(s) : z = y \/ \E k \in DOMAIN q : k # 1 /\ z = q[k]
    <3> DEFINE n == Len(q)
    <3>1. n \in Nat /\ s = [k \in 1..n |-> s[k]] /\ DOMAIN q = 1..n
      BY <2>4
    <3> HIDE DEF n
    <3>2. Sequence(s) /\ ToSet(s) = {s[k] : k \in 1..n}
      BY ONLY <3>1, Numbered
    <3> QED
      BY <2>4, <3>1, <3>2
  <2>6. \A k \in DOMAIN q : k # 1 => q[k].op = "check" /\ Importing(q[k]) /\ ~Keyed(q[k]) /\ Fits(q[k])
    <3> SUFFICES ASSUME NEW k \in DOMAIN q, k # 1
                 PROVE  q[k].op = "check" /\ Importing(q[k]) /\ ~Keyed(q[k]) /\ Fits(q[k])
      OBVIOUS
    <3>1. 1 < k /\ q[1].op = "check"
      BY <1>1, <2>4
    <3>2. q[k].op = "check"
      BY <1>0, <2>4, <3>1 DEF ImportInv, q
    <3>3. q[k] \in Left(w)
      BY DEF q, Left, ToSet
    <3>4. Importing(q[k])
      BY <1>0, <3>2, <3>3 DEF ImportInv, Statements, Undoing, Left
    <3> QED
      BY <3>2, <3>4 DEF Keyed, Fits
  <2>7. Turns(w, s)
    BY <1>0, <2>1, <2>5 DEF Turns, JobRecord, RequestInv
  <2>8. Left(w)' = ToSet(s) /\ \A v \in Workers \ {w} : Left(v)' = Left(v)
    BY <2>7, TurnsLeft
  <2>9. RequestInv'
    BY <1>0, <2>0, <2>7, TurnsRequests DEF RequestInv
  <2>10. Fits(y)
    BY <2>2 DEF Fits
  <2>11. RowInv'
    BY <1>0, <2>0, <2>5, <2>6, <2>8, <2>10 DEF RowInv
  <2>12. ImportInv'
    <3>1. \A z \in ToSet(s) : z.op \in {"check", "add"} /\ Importing(z)
      BY <2>2, <2>3, <2>5, <2>6
    <3>2. \A j, k \in DOMAIN s : s[j].op \in {"check", "add"} /\ j < k => s[k].op = "check"
      BY <2>4, <2>6
    <3> QED
      BY <1>0, <2>7, <3>1, <3>2, TurnsImports
  <2>13. KeyInv'
    <3>1. \A z \in Left(w)' : Keyed(z) => z = y
      BY <2>5, <2>6, <2>8
    <3>2. FreeKey(y)
      BY <1>3, <2>2 DEF FreeKey
    <3>3. <<x.patch.key, "key">> \in Columns(<<Insert(x.id, x.patch)>>)
      <4> DEFINE i == Insert(x.id, x.patch)
      <4>1. i.op # "check" /\ i.patch = x.patch /\ "key" \in DOMAIN i.patch
        BY <1>1, WriteFields DEF Importing, Insert
      <4> HIDE DEF i
      <4>2. 1 \in DOMAIN <<i>> /\ <<i>>[1] = i
        OBVIOUS
      <4>3. <<i.patch.key, "key">> \in Columns(<<i>>)
        BY <4>1, <4>2 DEF Columns
      <4> QED
        BY <4>1, <4>3 DEF i
    <3>4. \A v \in Workers \ {w} : <<y.patch.key, "key">> \in Pending(v) => <<y.patch.key, "key">> \in upset'
      BY <1>3, <2>2, <3>3 DEF Collisions
    <3>5. upset \subseteq upset'
      BY <1>3
    <3> QED
      BY <1>0, <2>0, <2>8, <3>1, <3>2, <3>4, <3>5, BegunKeys DEF FreeKey
  <2>14. FreshInv'
    <3>1. Novel(s)
      BY <2>2, <2>4, <2>6 DEF Novel, Founds
    <3> QED
      BY <1>0, <2>0, <2>7, <3>1, FoundsFreshly
  <2>15. LatestInv'
    BY <1>0, <2>0 DEF LatestInv, Versions, Latest
  <2> QED
    BY <2>9, <2>11, <2>12, <2>13, <2>14, <2>15 DEF OfficeInv
<1> QED
  BY <1>2, <1>3 DEF CheckRow

\* What the handlers and the statements of the invariants' tables amount to.
Keeps(w) == \/ Briefly(w) \/ Write(w) \/ Die(w)
            \/ \E ms \in [1..2 -> Persons] : \E cnics, all : commitMembers(w, ms, cnics, all)
            \/ CheckRow(w) \/ AddRow(w) \/ UndoRow(w)

LEMMA NotableIs ==
  ASSUME OfficeInv, NEW w \in Workers, Notable(w)
  PROVE  Briefly(w) \/ ImportSteps(w)
BY ThreadingIs, TransferIs, PlotIs, UploadingIs DEF Notable, OfficeInv

\* A step of the office: the clock and the installments touch no row, or a worker moves.
LEMMA Moves ==
  ASSUME OfficeInv, [Next]_societyVars
  PROVE  \/ UNCHANGED <<file, job, upset>>
         \/ \E w \in Workers : Keeps(w)
<1>1. ASSUME NEW d, NEW w \in Workers, DeskSteps(d, w) PROVE Keeps(w)
  <2>1. Aside(w) \/ Notable(w)
    BY <1>1, DeskDoes DEF OfficeInv, KeyInv
  <2>2. Briefly(w) \/ ImportSteps(w)
    BY <2>1, AsideIs, NotableIs
  <2>3. ImportSteps(w) => Keeps(w)
    BY DEF ImportSteps, Keeps
  <2> QED
    BY <2>2, <2>3 DEF Keeps
<1>2. CASE \E w \in Workers : (\E d \in desks : DeskSteps(d, w)) \/ Write(w) \/ Die(w)
  BY <1>1, <1>2 DEF Keeps
<1>3. CASE Tick \/ InstallmentsMove \/ UNCHANGED societyVars
  BY <1>3 DEF Tick, InstallmentsMove, requestVars, societyVars, titleVars
<1> QED
  BY <1>2, <1>3 DEF Next

LEMMA Still ==
  ASSUME OfficeInv, UNCHANGED <<file, job, upset>>
  PROVE  OfficeInv'
<1>1. RequestInv' /\ ImportInv' /\ RowInv'
  BY DEF OfficeInv, RequestInv, ImportInv, JobRecord, RowInv, Left
<1>2. KeyInv'
  BY DEF OfficeInv, KeyInv, OneHolder, FreeKey, Undisturbed, Holders, Left
<1>3. FreshInv' /\ LatestInv'
  BY DEF OfficeInv, FreshInv, LatestInv, Versions, Latest
<1> QED
  BY <1>1, <1>2, <1>3 DEF OfficeInv

LEMMA OfficeStep ==
  ASSUME OfficeInv, [Next]_societyVars
  PROVE  OfficeInv'
<1>1. ASSUME NEW w \in Workers, Keeps(w) PROVE OfficeInv'
  BY <1>1, BrieflyKeeps, WriteKeeps, DieKeeps, CommitKeeps, CheckKeeps, AddKeeps, UndoKeeps DEF Keeps
<1> QED
  BY <1>1, Moves, Still

LEMMA OfficeInit ==
  ASSUME Init
  PROVE  OfficeInv
<1>1. /\ job = [w \in Workers |-> Idle] /\ upset = {} /\ file = Allotted(First, Owner)
  BY DEF Init, TitleInit, RequestsInit
<1>2. \A w \in Workers : job[w] = Idle /\ Left(w) = {} /\ DOMAIN job[w].todo = {}
  <2>1. DOMAIN Idle.todo = {}
    BY DEF Idle
  <2> QED
    BY <1>1, <2>1, IdleJob DEF Left
<1>3. DOMAIN file = Ids /\ file = [id \in Ids |-> file[id]]
  BY <1>1 DEF Allotted
<1>4. RequestInv
  BY <1>1, <1>2, <1>3, IdleJob DEF RequestInv
<1>5. ASSUME NEW p \in Plots
      PROVE  /\ DOMAIN file[p] = {"status", "owner", "since"} /\ p \in Ids
             /\ file[p].owner = Owner[p] /\ file[p].since = First[p] /\ file[p].status = "Allotted"
  <2>1. p \in Ids
    BY MainTablesApart DEF Shared
  <2>2. file[p] = [status |-> "Allotted", owner |-> Owner[p], since |-> First[p]]
    BY <1>1, <2>1 DEF Allotted
  <2> QED
    BY <2>1, <2>2
<1>6. ASSUME NEW id \in Ids \ Plots, file[id] # NoRow
      PROVE  \E p \in Plots :
               /\ id = First[p] /\ DOMAIN file[id] = {"status", "plot", "member", "since", "by"}
               /\ file[id].status = "open" /\ file[id].plot = p /\ file[id].member = Owner[p]
               /\ file[id].since = id /\ file[id].by = None
  <2>1. PICK p \in Plots : id = First[p] /\ file[id] = OwnerRow(p, Owner[p], id, None)
    BY <1>1, <1>6 DEF Allotted
  <2> QED
    BY <2>1 DEF OwnerRow
<1>7. ASSUME NEW id \in Ids, file[id] # NoRow PROVE Typed(id, file[id])
  <2>1. CASE id \in Plots
    <3>1. PlotRow(file[id]) /\ "key" \notin DOMAIN file[id]
      <4>1. Owner[id] \in Members /\ First[id] \in History
        BY <2>1, OwnersAssumption
      <4>2. DOMAIN file[id] = {"status", "owner", "since"} /\ file[id].owner = Owner[id] /\ file[id].since = First[id]
        BY <1>5, <2>1
      <4> QED
        BY <4>1, <4>2 DEF PlotRow
    <3> QED
      BY <2>1, <3>1, MainTablesApart DEF Typed, Shared, Applications
  <2>2. CASE id \notin Plots
    <3>1. id \in History /\ HistoryRow(file[id])
      <4>1. PICK p \in Plots :
              /\ id = First[p] /\ DOMAIN file[id] = {"status", "plot", "member", "since", "by"}
              /\ file[id].plot = p /\ file[id].member = Owner[p] /\ file[id].since = id
        BY <1>6, <1>7, <2>2
      <4>2. Owner[p] \in Members /\ First[p] \in History
        BY OwnersAssumption
      <4> QED
        BY <4>1, <4>2 DEF HistoryRow
    <3> QED
      BY <3>1, MainTablesApart DEF Typed, HistoryRow, Shared, Applications
  <2> QED
    BY <2>1, <2>2
<1>8. RowInv
  <2>1. \A p \in Plots : "owner" \in DOMAIN file[p]
    BY <1>5
  <2>2. \A p \in Plots : file[p] # NoRow
    BY <2>1 DEF NoRow
  <2> QED
    BY <1>2, <1>7, <2>2 DEF RowInv
<1>9. ImportInv
  BY <1>2 DEF ImportInv, Left
<1>10. KeyInv
  <2>1. \A id \in Ids : "key" \notin DOMAIN file[id]
    <3> SUFFICES ASSUME NEW id \in Ids PROVE "key" \notin DOMAIN file[id]
      OBVIOUS
    <3>1. CASE id \in Plots
      BY <1>5, <3>1
    <3>2. CASE id \notin Plots /\ file[id] # NoRow
      BY <1>6, <3>2
    <3>3. CASE file[id] = NoRow
      BY <3>3, WriteFields
    <3> QED
      BY <3>1, <3>2, <3>3
  <2> QED
    BY <1>2, <2>1 DEF KeyInv, OneHolder
<1>11. FreshInv
  BY <1>2 DEF FreshInv
<1>12. LatestInv
  <2>1. \A d \in Documents : file[d] = NoRow
    BY <1>6, MainTablesApart, OwnersAssumption DEF Shared
  <2> QED
    BY <2>1 DEF LatestInv, Versions
<1> QED
  BY <1>4, <1>8, <1>9, <1>10, <1>11, <1>12 DEF OfficeInv

\* Rows, jobs and keys are as the handlers leave them, whatever they are doing.
THEOREM OfficeSound == Spec => []OfficeInv
BY OfficeInit, OfficeStep, PTL DEF Spec

THEOREM KeysStayUnique == Spec => []KeysUnique
<1>1. OfficeInv => KeysUnique
  BY DEF OfficeInv, KeyInv, OneHolder, KeysUnique, Holders, Undisturbed
<1> QED
  BY <1>1, OfficeSound, PTL

-----------------------------------------------------------------------------
(* The lists requests have left                                            *)

Cases == Complaints \cup WorkOrders

\* A statement that none of the invariants below is about.
Bland(x) ==
  /\ x.id \notin History \cup Transfers
  /\ x.id \in Shared => x.op = "update" /\ \A c \in Telling : c \notin DOMAIN x.patch

Calm(q) == \A x \in ToSet(q) : Bland(x)

ThreadList(q, x) ==
  /\ q = <<x>> /\ x.op \in {"insert", "update"} /\ x.id \in Cases /\ "thread" \in DOMAIN x.patch

\* What is left of an upload of version n of s, which replaces last.
UploadList(q, d, s, n, last) ==
  \/ q = <<Bringing(d, s, n), Linking(d)>> /\ n = 1
  \/ /\ last \in Documents
     /\ \/ q = <<Bringing(d, s, n), Linking(d), Replacing(last, d)>>
        \/ q = <<Linking(d), Replacing(last, d)>>
        \/ q = <<Replacing(last, d)>>

\* What is left of an edit that makes m the owner of p, and with st its status.
EditLeft(q, p, m, g, st) ==
  LET last == Moving(p, m, g, st) IN
  \/ \E h, s \in History, old \in Members :
       \/ m # None /\ q = <<Ended(h, p, old, s), Opening(p, m, g), last>>
       \/ m = None /\ q = <<Ended(h, p, old, s), last>>
  \/ m # None /\ q = <<Opening(p, m, g), last>>
  \/ q = <<last>>

EditList(q, p, m, g) == \E st : EditLeft(q, p, m, g, st)

\* What is left of the completion of t, which conveys p, but for its last statement.
DeedList(q, p, to, t, h) ==
  \/ \E o \in History : q = <<Closing(o), Buying(p, to, t, h), Passing(p, to, h), Completing(t)>>
  \/ q = <<Buying(p, to, t, h), Passing(p, to, h), Completing(t)>>
  \/ q = <<Passing(p, to, h), Completing(t)>>

TransferList(q, t) ==
  \/ \E status : q = <<Update(t, [status |-> status])>>
  \/ \E r : q = <<Insert(t, r)>> /\ r.status = "Draft"

Kind(q) ==
  \/ Calm(q)
  \/ \E x : ThreadList(q, x)
  \/ \E d \in Documents, s \in Subjects, n \in 1..MaxVersion : \E last : UploadList(q, d, s, n, last)
  \/ \E p \in Plots, m \in Members \cup {None}, g \in History : EditList(q, p, m, g)
  \/ \E p \in Plots, to \in Members, t \in Transfers, h \in History : DeedList(q, p, to, t, h)
  \/ \E t \in Transfers : TransferList(q, t)

KindInv == \A w \in Workers : Kind(job[w].todo)

\* Rows are as before as far as the invariants are concerned.
SameRow(id) ==
  /\ file[id] = NoRow <=> file'[id] = NoRow
  /\ \A c \in Telling : /\ c \in DOMAIN file[id] <=> c \in DOMAIN file'[id]
                        /\ c \in DOMAIN file[id] => file'[id][c] = file[id][c]

\* A step of a worker that matters to none of the invariants.
Blandly(w) ==
  /\ Calm(job[w].todo) /\ Calm(job'[w].todo)
  /\ \A v \in Workers \ {w} : job'[v] = job[v]
  /\ upset \subseteq upset'
  /\ \A id \in History \cup Transfers : file'[id] = file[id]
  /\ \A id \in Shared : SameRow(id)

LEMMA CalmIdle == Calm(<<>>) /\ Calm(Idle.todo)
BY Tuple0, IdleJob DEF Calm

LEMMA HarmlessBland == ASSUME NEW x, Harmless(x) PROVE Bland(x)
BY DEF Harmless, Bland

LEMMA PersonBland == ASSUME NEW x, x.id \in Persons PROVE Bland(x)
BY TablesApart DEF Apart, Bland, Applications

LEMMA AsideBlandly ==
  ASSUME OfficeInv, NEW w \in Workers, Aside(w)
  PROVE  Blandly(w)
<1>1. PICK s : Begin(w, s) /\ Sequence(s) /\ \A x \in ToSet(s) : Harmless(x)
  BY DEF Aside, Brief
<1>2. Turns(w, s) /\ job[w] = Idle /\ file' = file /\ upset \subseteq upset'
  BY <1>1, Beginning DEF OfficeInv
<1>3. Calm(s)
  BY <1>1, HarmlessBland DEF Calm
<1> QED
  BY <1>2, <1>3, CalmIdle DEF Blandly, Turns, SameRow

LEMMA CommitBlandly ==
  ASSUME OfficeInv, NEW w \in Workers, NEW ms \in [1..2 -> Persons], NEW cnics, NEW all,
         commitMembers(w, ms, cnics, all)
  PROVE  Blandly(w)
<1> DEFINE s == [k \in DOMAIN ms |-> RowOf(ms, cnics, k, all)]
<1>1. s = [k \in 1..2 |-> s[k]] /\ DOMAIN s = 1..2 /\ Begin(w, s)
  BY DEF commitMembers
<1>2. \A k \in 1..2 : s[k].id \in Persons
  BY DEF RowOf
<1> HIDE DEF s
<1>3. Sequence(s) /\ ToSet(s) = {s[k] : k \in 1..2}
  BY <1>1, Numbered
<1>4. Turns(w, s) /\ job[w] = Idle /\ file' = file /\ upset \subseteq upset'
  BY <1>1, <1>3, Beginning DEF OfficeInv
<1>5. Calm(s)
  BY <1>2, <1>3, PersonBland DEF Calm
<1> QED
  BY <1>4, <1>5, CalmIdle DEF Blandly, Turns, SameRow

\* The first statement of a list that is not calm is an insert or an update.
LEMMA HeadIs ==
  ASSUME NEW q, Kind(q), ~Calm(q)
  PROVE  Head(q).op \in {"insert", "update"}
<1>1. \A x : Head(<<x>>) = x
  OBVIOUS
<1>2. \A x, y : Head(<<x, y>>) = x
  OBVIOUS
<1>3. \A x, y, z : Head(<<x, y, z>>) = x
  OBVIOUS
<1>4. \A x, y, z, u : Head(<<x, y, z, u>>) = x
  OBVIOUS
<1>5. /\ \A d, s, n : Bringing(d, s, n).op = "insert" /\ Linking(d).op = "update"
      /\ \A d, e : Replacing(d, e).op = "update"
      /\ \A h, p, m, s : Ended(h, p, m, s).op = "insert" /\ Opening(p, m, s).op = "insert"
      /\ \A p, m, s, st : Moving(p, m, s, st).op = "update" /\ Passing(p, m, s).op = "update"
      /\ \A o : Closing(o).op = "update"
      /\ \A p, m, t, h : Buying(p, m, t, h).op = "insert"
      /\ \A t, r : Update(t, r).op = "update" /\ Insert(t, r).op = "insert"
  BY MovingColumns, WriteFields DEF Bringing, Linking, Replacing, Ended, Opening, Passing, Closing, Buying
<1>6. ASSUME NEW x, ThreadList(q, x) PROVE Head(q).op \in {"insert", "update"}
  BY <1>1, <1>6 DEF ThreadList
<1>7. ASSUME NEW d, NEW s, NEW n, NEW last, UploadList(q, d, s, n, last)
      PROVE  Head(q).op \in {"insert", "update"}
  BY <1>1, <1>2, <1>3, <1>5, <1>7 DEF UploadList
<1>8. ASSUME NEW p, NEW m, NEW g, EditList(q, p, m, g) PROVE Head(q).op \in {"insert", "update"}
  <2>0. PICK st : EditLeft(q, p, m, g, st)
    BY <1>8 DEF EditList
  <2> DEFINE b == Opening(p, m, g)
             c == Moving(p, m, g, st)
  <2>2. b.op = "insert" /\ c.op = "update" /\ \A h, s, old : Ended(h, p, old, s).op = "insert"
    BY <1>5
  <2>3. \/ \E h, s, old : \/ q = <<Ended(h, p, old, s), b, c>>
                          \/ q = <<Ended(h, p, old, s), c>>
        \/ q = <<b, c>> \/ q = <<c>>
    BY <2>0 DEF EditLeft
  <2> HIDE DEF b, c
  <2> QED
    BY <1>1, <1>2, <1>3, <2>2, <2>3
<1>9. ASSUME NEW p, NEW to, NEW t, NEW h, DeedList(q, p, to, t, h)
      PROVE  Head(q).op \in {"insert", "update"}
  BY <1>2, <1>3, <1>4, <1>5, <1>9 DEF DeedList
<1>10. ASSUME NEW t, TransferList(q, t) PROVE Head(q).op \in {"insert", "update"}
  <2>1. ASSUME NEW r, q = <<Update(t, r)>> \/ q = <<Insert(t, r)>> PROVE Head(q).op \in {"insert", "update"}
    BY <1>1, <1>5, <2>1
  <2> QED
    BY <1>10, <2>1 DEF TransferList
<1> QED
  BY <1>6, <1>7, <1>8, <1>9, <1>10 DEF Kind

LEMMA ImportBlandly ==
  ASSUME OfficeInv, KindInv, NEW w \in Workers, CheckRow(w) \/ AddRow(w) \/ UndoRow(w)
  PROVE  Blandly(w)
<1> DEFINE q == job[w].todo
           x == Head(q)
<1>1. /\ q # <<>> /\ Sequence(q) /\ Sequence(Tail(q)) /\ x \in Left(w) /\ x.id \in Persons /\ x.id \in Ids
      /\ x.op \in {"check", "add", "undo"} /\ x = q[1]
      /\ x.op \in {"check", "add"} => Importing(x)
  BY ImportHead DEF CheckRow, AddRow, UndoRow
<1>2. Calm(q)
  BY <1>1, HeadIs DEF KindInv
<1>3. Calm(Tail(q)) /\ (x.op \in {"check", "add"} => Calm(x.undo))
  <2>1. ToSet(Tail(q)) \subseteq ToSet(q)
    BY <1>1, Behead
  <2>2. Importing(x) => \A y \in ToSet(x.undo) : y.id \in Persons
    BY DEF Importing, Undoing
  <2> QED
    BY <1>1, <1>2, <2>1, <2>2, PersonBland DEF Calm
<1>4. \A id \in History \cup Shared \cup Transfers : id # x.id
  BY <1>1, TablesApart DEF Apart, Applications
<1>5. History \cup Shared \cup Transfers \subseteq Ids
  BY MainTablesApart DEF Applications
<1>6. RequestInv
  BY DEF OfficeInv
<1>7. CASE CheckRow(w)
  <2>1. x.op = "check" /\ file' = file
    BY <1>7 DEF CheckRow, At
  <2>2. CASE Proceed(w, x.undo) /\ upset' = upset
    <3>1. Turns(w, x.undo)
      BY <1>1, <1>6, <2>1, <2>2, Proceeds, UndoIs
    <3> QED
      BY <1>1, <1>2, <1>3, <2>1, <2>2, <3>1 DEF Blandly, Turns, SameRow
  <2>3. CASE /\ job' = [job EXCEPT ![w].todo[1].op = "add"]
             /\ upset' = upset \cup Collisions(w, <<Insert(x.id, x.patch)>>)
    <3> DEFINE y == [x EXCEPT !.op = "add"]
               s == [q EXCEPT ![1] = y]
    <3>1. /\ \A v \in Workers \ {w} : job'[v] = job[v]
          /\ job'[w] = [job[w] EXCEPT !.todo[1].op = "add"]
      BY <1>6, <2>3 DEF RequestInv
    <3>2. job[w] = [todo |-> q, wrote |-> job[w].wrote]
      BY <1>6 DEF RequestInv, JobRecord
    <3>3. [job[w] EXCEPT !.todo[1].op = "add"] = [job[w] EXCEPT !.todo = [q EXCEPT ![1].op = "add"]]
      OBVIOUS
    <3>4. [q EXCEPT ![1].op = "add"] = s
      BY <1>1
    <3>5. y.id = x.id
      BY <1>1, <2>1 DEF Importing
    <3>6. DOMAIN s = DOMAIN q /\ \A k \in DOMAIN q : s[k] = IF k = 1 THEN y ELSE q[k]
      BY <1>1 DEF Sequence
    <3> HIDE DEF s, q, y
    <3>7. job'[w].todo = s
      BY <3>1, <3>2, <3>3, <3>4
    <3>8. Calm(s)
      BY <1>1, <1>2, <3>5, <3>6, PersonBland DEF Calm, ToSet
    <3> QED
      BY <1>2, <2>1, <2>3, <3>1, <3>7, <3>8 DEF Blandly, SameRow, q
  <2> QED
    BY <1>7, <2>2, <2>3 DEF CheckRow
<1>8. CASE AddRow(w) \/ UndoRow(w)
  <2>1. /\ \/ file' = file \/ file' = [file EXCEPT ![x.id] = x.patch]
           \/ file' = [file EXCEPT ![x.id] = Over(x.patch, @)]
        /\ Proceed(w, Tail(q)) \/ (x.op = "add" /\ Proceed(w, x.undo))
        /\ upset' = upset
    BY <1>8 DEF AddRow, UndoRow, At
  <2> HIDE DEF x, q
  <2>2. \A id \in History \cup Shared \cup Transfers : file'[id] = file[id]
    BY <1>4, <1>5, <1>6, <2>1 DEF RequestInv
  <2>3. Turns(w, Tail(q)) \/ (x.op = "add" /\ Turns(w, x.undo))
    BY <1>1, <1>6, <2>1, Proceeds, UndoIs
  <2> QED
    BY <1>2, <1>3, <2>1, <2>2, <2>3 DEF Blandly, Turns, SameRow, q
<1> QED
  BY <1>7, <1>8

LEMMA Tails ==
  ASSUME NEW a, NEW b, NEW c, NEW d
  PROVE  /\ Tail(<<a>>) = <<>> /\ Tail(<<a, b>>) = <<b>>
         /\ Tail(<<a, b, c>>) = <<b, c>> /\ Tail(<<a, b, c, d>>) = <<b, c, d>>
         /\ Head(<<a>>) = a /\ Head(<<a, b>>) = a
         /\ Head(<<a, b, c>>) = a /\ Head(<<a, b, c, d>>) = a
         /\ <<a>> # <<>> /\ <<a, b>> # <<>> /\ <<a, b, c>> # <<>> /\ <<a, b, c, d>> # <<>>
OBVIOUS

LEMMA CalmTail ==
  ASSUME NEW q, Sequence(q), q # <<>>, Calm(q)
  PROVE  Calm(Tail(q)) /\ Bland(Head(q))
BY Behead DEF Calm

LEMMA LinkingCalm == ASSUME NEW d \in Documents PROVE Calm(<<Linking(d)>>)
<1> DEFINE x == Linking(d)
<1>1. x.op = "update" /\ x.id = d /\ \A c \in Telling : c \notin DOMAIN x.patch
  BY WriteFields, Plain DEF Linking
<1>2. d \notin History \cup Transfers
  BY MainTablesApart DEF Shared, Applications
<1> HIDE DEF x
<1>3. Bland(x)
  BY <1>1, <1>2 DEF Bland
<1> QED
  BY <1>3, Tuple1 DEF Calm, x

LEMMA TailKind ==
  ASSUME NEW q, Sequence(q), q # <<>>, Kind(q)
  PROVE  Kind(Tail(q))
<1>0. Kind(<<>>)
  BY CalmIdle DEF Kind
<1>1. CASE Calm(q)
  BY <1>1, CalmTail DEF Kind
<1>2. ASSUME NEW x, ThreadList(q, x) PROVE Kind(Tail(q))
  BY <1>0, <1>2, Tails DEF ThreadList
<1>3. ASSUME NEW d \in Documents, NEW s \in Subjects, NEW n \in 1..MaxVersion, NEW last, UploadList(q, d, s, n, last)
      PROVE  Kind(Tail(q))
  <2> DEFINE a == Bringing(d, s, n)
             b == Linking(d)
             c == Replacing(last, d)
  <2>1. \/ q = <<a, b>>
        \/ last \in Documents /\ (q = <<a, b, c>> \/ q = <<b, c>> \/ q = <<c>>)
    BY <1>3 DEF UploadList
  <2> HIDE DEF a, b, c
  <2>2. \/ Tail(q) = <<b>> \/ Tail(q) = <<>>
        \/ last \in Documents /\ (Tail(q) = <<b, c>> \/ Tail(q) = <<c>>)
    <3>1. Tail(<<a, b>>) = <<b>> /\ Tail(<<a, b, c>>) = <<b, c>> /\ Tail(<<b, c>>) = <<c>> /\ Tail(<<c>>) = <<>>
      BY Tails
    <3> QED
      BY ONLY <2>1, <3>1
  <2>3. \/ Calm(Tail(q)) \/ UploadList(Tail(q), d, s, n, last)
    BY <2>2, LinkingCalm, CalmIdle DEF UploadList, b, c
  <2> QED
    BY <2>3 DEF Kind
<1>4. ASSUME NEW p \in Plots, NEW m \in Members \cup {None}, NEW g \in History, EditList(q, p, m, g)
      PROVE  Kind(Tail(q))
  <2>0. PICK st : EditLeft(q, p, m, g, st)
    BY <1>4 DEF EditList
  <2> DEFINE b == Opening(p, m, g)
             c == Moving(p, m, g, st)
  <2>1. \/ m # None /\ \E a : q = <<a, b, c>>
        \/ \E a : q = <<a, c>>
        \/ q = <<c>>
    BY <2>0 DEF EditLeft
  <2> HIDE DEF b, c
  <2>2. \/ m # None /\ Tail(q) = <<b, c>>
        \/ Tail(q) = <<c>> \/ Tail(q) = <<>>
    <3>1. \A a : Tail(<<a, b, c>>) = <<b, c>> /\ Tail(<<a, c>>) = <<c>> /\ Tail(<<c>>) = <<>>
      BY Tails
    <3> QED
      BY ONLY <2>1, <3>1
  <2>3. Calm(Tail(q)) \/ EditList(Tail(q), p, m, g)
    BY <2>2, CalmIdle DEF EditList, EditLeft, b, c
  <2> QED
    BY <2>3 DEF Kind
<1>5. ASSUME NEW p \in Plots, NEW to \in Members, NEW t \in Transfers, NEW h \in History, DeedList(q, p, to, t, h)
      PROVE  Kind(Tail(q))
  <2> DEFINE b == Buying(p, to, t, h)
             c == Passing(p, to, h)
             d == Completing(t)
  <2>1. (\E a : q = <<a, b, c, d>>) \/ q = <<b, c, d>> \/ q = <<c, d>>
    BY <1>5 DEF DeedList
  <2> HIDE DEF b, c, d
  <2>2. Tail(q) = <<b, c, d>> \/ Tail(q) = <<c, d>> \/ Tail(q) = <<d>>
    <3>1. /\ \A a : Tail(<<a, b, c, d>>) = <<b, c, d>>
          /\ Tail(<<b, c, d>>) = <<c, d>> /\ Tail(<<c, d>>) = <<d>>
      BY Tails
    <3> QED
      BY ONLY <2>1, <3>1
  <2>3. DeedList(Tail(q), p, to, t, h) \/ TransferList(Tail(q), t)
    BY <2>2 DEF DeedList, TransferList, b, c, d, Completing
  <2> QED
    BY <2>3 DEF Kind
<1>6. ASSUME NEW t \in Transfers, TransferList(q, t) PROVE Kind(Tail(q))
  <2>1. \E x : q = <<x>>
    BY <1>6 DEF TransferList
  <2> QED
    BY <1>0, <2>1, Tails
<1> QED
  BY <1>1, <1>2, <1>3, <1>4, <1>5, <1>6 DEF Kind

\* What the handlers begin.
LEMMA ThreadBegins ==
  ASSUME OfficeInv, NEW w \in Workers, Threading(w)
  PROVE  \E x : ThreadOf(w, x) /\ ThreadList(<<x>>, x) /\ Begin(w, <<x>>) /\ Sequence(<<x>>)
BY Tuple1 DEF Threading, ThreadOf, ThreadList, Cases

UploadBegins(w, d, s, n, last, q) ==
  /\ Begin(w, q) /\ Sequence(q) /\ UploadList(q, d, s, n, last) /\ Fresh(d)
  /\ \/ Latest(s) = {} /\ n = 1 /\ q = <<Bringing(d, s, n), Linking(d)>>
     \/ last \in Latest(s) /\ n = file[last].version + 1
          /\ q = <<Bringing(d, s, n), Linking(d), Replacing(last, d)>>

LEMMA UploadDoes ==
  ASSUME OfficeInv, NEW w \in Workers, NEW d \in Documents, NEW s \in Subjects, UploadDocument(w, d, s)
  PROVE  \E n \in 1..MaxVersion : \E last, q : UploadBegins(w, d, s, n, last, q)
<1>1. d \in Unused(Documents)
  BY UploadIs
<1>2. Fresh(d)
  BY <1>1, UnusedIs
<1>3. CASE Latest(s) = {} /\ Begin(w, <<Bringing(d, s, 1), Linking(d)>>)
  <2>1. 1 \in 1..MaxVersion
    BY RecordsAssumption
  <2>2. \A last : UploadBegins(w, d, s, 1, last, <<Bringing(d, s, 1), Linking(d)>>)
    BY <1>2, <1>3, Tuple2 DEF UploadBegins, UploadList
  <2> QED
    BY <2>1, <2>2
<1>4. ASSUME NEW last \in Latest(s), file[last].version < MaxVersion,
             Begin(w, <<Bringing(d, s, file[last].version + 1), Linking(d), Replacing(last, d)>>)
      PROVE  \E n \in 1..MaxVersion : \E l, q : UploadBegins(w, d, s, n, l, q)
  <2> DEFINE n == file[last].version + 1
             a == Bringing(d, s, n)
             b == Linking(d)
             c == Replacing(last, d)
  <2>1. last \in Documents /\ n \in 1..MaxVersion
    BY <1>4, VersionsTyped, RecordsAssumption DEF Latest, OfficeInv
  <2>2. UploadList(<<a, b, c>>, d, s, n, last)
    BY <2>1 DEF UploadList
  <2>3. Sequence(<<a, b, c>>)
    BY Tuple3
  <2>4. UploadBegins(w, d, s, n, last, <<a, b, c>>)
    BY <1>2, <1>4, <2>2, <2>3 DEF UploadBegins
  <2> QED
    BY <2>1, <2>4
<1> QED
  BY <1>3, <1>4, UploadIs

EditBegins(w, p, m, h, g, q) ==
  LET old == file[p].owner IN
  /\ Begin(w, q) /\ Sequence(q) /\ EditList(q, p, m, g)
  /\ Fresh(h) /\ Fresh(g) /\ old # m
  /\ \E st :
       LET last == Moving(p, m, g, st) IN
       \/ old \in Members /\ m # None /\ q = <<Ended(h, p, old, file[p].since), Opening(p, m, g), last>>
       \/ old \in Members /\ m = None /\ q = <<Ended(h, p, old, file[p].since), last>>
       \/ old = None /\ m # None /\ q = <<Opening(p, m, g), last>>

LEMMA EditDoes ==
  ASSUME OfficeInv, NEW w \in Workers, Owning(w)
  PROVE  \E p \in Plots, m \in Members \cup {None}, h, g \in History : \E q : EditBegins(w, p, m, h, g, q)
<1>1. PICK p \in Plots, m \in Members \cup {None}, h \in History, g \in History :
        \E st \in Edits \cup {None} : UpdatePlot(w, p, m, st, h, g)
  BY DEF Owning
<1>0. PICK st \in Edits \cup {None} : UpdatePlot(w, p, m, st, h, g)
  BY <1>1
<1> DEFINE a == Ended(h, p, file[p].owner, file[p].since)
           b == Opening(p, m, g)
           c == Moving(p, m, g, st)
<1>2. Fresh(h) /\ Fresh(g) /\ p \in Ids /\ file[p].owner # m
  BY <1>0, UnusedIs, MainTablesApart DEF UpdatePlot, Shared
<1>3. PlotRow(file[p])
  BY <1>2 DEF OfficeInv, RowInv, Typed
<1>4. \/ file[p].owner # None /\ m # None /\ Begin(w, <<a, b, c>>)
      \/ file[p].owner = None /\ m # None /\ Begin(w, <<b, c>>)
      \/ file[p].owner # None /\ m = None /\ Begin(w, <<a, c>>)
  BY <1>0, <1>2, NewOwnerIs DEF UpdatePlot, Ending
<1>5. Sequence(<<a, b, c>>) /\ Sequence(<<b, c>>) /\ Sequence(<<a, c>>)
  BY Tuple2, Tuple3
<1>6. file[p].owner # None => file[p].owner \in Members /\ file[p].since \in History
  BY <1>3 DEF PlotRow
<1>7. CASE file[p].owner # None /\ m # None /\ Begin(w, <<a, b, c>>)
  <2>1. EditList(<<a, b, c>>, p, m, g)
    BY <1>6, <1>7 DEF EditList, EditLeft
  <2>2. EditBegins(w, p, m, h, g, <<a, b, c>>)
    BY <1>2, <1>5, <1>6, <1>7, <2>1 DEF EditBegins
  <2> QED
    BY <2>2
<1>8. CASE file[p].owner = None /\ m # None /\ Begin(w, <<b, c>>)
  <2>1. EditList(<<b, c>>, p, m, g)
    BY <1>8 DEF EditList, EditLeft
  <2>2. EditBegins(w, p, m, h, g, <<b, c>>)
    BY <1>2, <1>5, <1>8, <2>1 DEF EditBegins
  <2> QED
    BY <2>2
<1>9. CASE file[p].owner # None /\ m = None /\ Begin(w, <<a, c>>)
  <2>1. EditList(<<a, c>>, p, m, g)
    BY <1>6, <1>9 DEF EditList, EditLeft
  <2>2. EditBegins(w, p, m, h, g, <<a, c>>)
    BY <1>2, <1>5, <1>6, <1>9, <2>1 DEF EditBegins
  <2> QED
    BY <2>2
<1> QED
  BY <1>4, <1>7, <1>8, <1>9

DeedBegins(w, p, to, t, h, q) ==
  /\ Begin(w, q) /\ Sequence(q) /\ DeedList(q, p, to, t, h)
  /\ Fresh(h) /\ file[t].status = "Approved" /\ file[t].from = file[p].owner /\ file[t].from \in Members
  /\ \/ OpenRows(p, file[t].from) = {} /\ q = <<Buying(p, to, t, h), Passing(p, to, h), Completing(t)>>
     \/ \E o \in OpenRows(p, file[t].from) :
          q = <<Closing(o), Buying(p, to, t, h), Passing(p, to, h), Completing(t)>>

\* A new transfer, or another status of one.
StatusBegins(w, t, q) ==
  /\ Begin(w, q) /\ Sequence(q)
  /\ \/ \E r : q = <<Insert(t, r)>> /\ r.status = "Draft" /\ Fresh(t)
     \/ \E status : /\ q = <<Update(t, [status |-> status])>> /\ status # "Completed"
                    /\ \/ status = "Rejected"
                       \/ file[t].status \in {"Draft", "PendingVerification", "PendingApproval"}

LEMMA TransferDoes ==
  ASSUME OfficeInv, NEW w \in Workers, TransferSteps(w)
  PROVE  \/ \E t \in Transfers : \E q : StatusBegins(w, t, q)
         \/ \E p \in Plots, to \in Members, t \in Transfers, h \in History : \E q : DeedBegins(w, p, to, t, h, q)
<1>1. ASSUME NEW t \in Transfers, NEW p \in Plots, NEW to \in Members, CreateTransfer(w, t, p, to)
      PROVE  \E q : StatusBegins(w, t, q)
  <2>1. Fresh(t) /\ Begin(w, <<Insert(t, TransferRow(p, to))>>)
    BY <1>1, UnusedIs DEF CreateTransfer
  <2>2. TransferRow(p, to).status = "Draft"
    BY DEF TransferRow
  <2> QED
    BY <2>1, <2>2, Tuple1 DEF StatusBegins
<1>2. ASSUME NEW t \in Transfers, NEW mayEdit, VerifyTransfer(w, t, mayEdit) PROVE \E q : StatusBegins(w, t, q)
  <2>1. /\ file[t].status \in {"Draft", "PendingVerification"}
        /\ Begin(w, <<Update(t, [status |-> "PendingApproval"])>>)
    BY <1>2 DEF VerifyTransfer
  <2> QED
    BY <2>1, Tuple1 DEF StatusBegins
<1>3. ASSUME NEW t \in Transfers, ApproveTransfer(w, t) PROVE \E q : StatusBegins(w, t, q)
  <2>1. file[t].status = "PendingApproval" /\ Begin(w, <<Update(t, [status |-> "Approved"])>>)
    BY <1>3 DEF ApproveTransfer
  <2> QED
    BY <2>1, Tuple1 DEF StatusBegins
<1>4. ASSUME NEW t \in Transfers, RejectTransfer(w, t) PROVE \E q : StatusBegins(w, t, q)
  <2>1. Begin(w, <<Update(t, [status |-> "Rejected"])>>)
    BY <1>4 DEF RejectTransfer
  <2> QED
    BY <2>1, Tuple1 DEF StatusBegins
<1>5. ASSUME NEW t \in Transfers, NEW h \in History, CompleteTransfer(w, t, h)
      PROVE  \E p \in Plots, to \in Members, k \in History : \E q : DeedBegins(w, p, to, t, k, q)
  <2> DEFINE p == file[t].plot
             to == file[t].to
             b == Buying(p, to, t, h)
             c == Passing(p, to, h)
             d == Completing(t)
  <2>1. file[t] # NoRow /\ t \in Ids /\ file[t].status = "Approved" /\ file[t].from = file[p].owner
    BY <1>5, MainTablesApart DEF CompleteTransfer, NoRow, Applications, Owns
  <2>2. p \in Plots /\ to \in Members /\ file[t].from \in Members
    BY <2>1 DEF OfficeInv, RowInv, Typed, TransfersRow
  <2>3. Fresh(h) /\ Conveying(w, t, h)
    BY <1>5, ConveyIs, UnusedIs DEF CompleteTransfer
  <2>4. \/ OpenRows(p, file[t].from) = {} /\ Begin(w, <<b, c, d>>)
        \/ \E o \in OpenRows(p, file[t].from) : Begin(w, <<Closing(o), b, c, d>>)
    BY <2>3 DEF Conveying
  <2>5. CASE OpenRows(p, file[t].from) = {} /\ Begin(w, <<b, c, d>>)
    <3>1. DeedBegins(w, p, to, t, h, <<b, c, d>>)
      BY <2>1, <2>2, <2>3, <2>5, Tuple3 DEF DeedBegins, DeedList
    <3> QED
      BY <2>2, <3>1
  <2>6. ASSUME NEW o \in OpenRows(p, file[t].from), Begin(w, <<Closing(o), b, c, d>>)
        PROVE  DeedBegins(w, p, to, t, h, <<Closing(o), b, c, d>>)
    <3>1. o \in History
      BY DEF OpenRows
    <3>2. DeedList(<<Closing(o), b, c, d>>, p, to, t, h)
      BY <3>1 DEF DeedList
    <3>3. Sequence(<<Closing(o), b, c, d>>)
      BY Tuple4
    <3> QED
      BY <2>1, <2>2, <2>3, <2>6, <3>2, <3>3 DEF DeedBegins
  <2> QED
    BY <2>2, <2>4, <2>5, <2>6
<1> QED
  BY <1>1, <1>2, <1>3, <1>4, <1>5 DEF TransferSteps

-----------------------------------------------------------------------------
(* Which rows a step leaves alone                                          *)

Titles == History \cup Transfers \cup Plots
Told   == Titles \cup Documents \cup Cases

\* A statement that changes nothing the invariants are about in the rows of S.
Spares(S, x) ==
  x.id \in S => x.id \in Shared /\ x.op = "update" /\ \A c \in Telling : c \notin DOMAIN x.patch

Sparing(S, q) == \A x \in ToSet(q) : Spares(S, x)

\* A step of a worker that matters to no row of S.
Leaving(S, w) ==
  /\ Sparing(S, job[w].todo) /\ Sparing(S, job'[w].todo)
  /\ \A v \in Workers \ {w} : job'[v] = job[v]
  /\ upset \subseteq upset'
  /\ \A id \in S : SameRow(id) /\ (id \in History \cup Transfers => file'[id] = file[id])

LEMMA ListsSpare ==
  ASSUME NEW q, NEW S, S \subseteq Told
  PROVE  /\ q = <<>> \/ Calm(q) => Sparing(S, q)
         /\ \A x : ThreadList(q, x) /\ S \cap Cases = {} => Sparing(S, q)
         /\ \A d \in Documents : \A s, n, last :
              UploadList(q, d, s, n, last) /\ S \cap Documents = {} => Sparing(S, q)
         /\ \A p \in Plots, g \in History : \A m : EditList(q, p, m, g) /\ S \cap Titles = {} => Sparing(S, q)
         /\ \A p \in Plots, t \in Transfers, h \in History : \A m :
              DeedList(q, p, m, t, h) /\ S \cap Titles = {} => Sparing(S, q)
         /\ \A t \in Transfers : TransferList(q, t) /\ S \cap Titles = {} => Sparing(S, q)
<1>1. q = <<>> \/ Calm(q) => Sparing(S, q)
  <2>1. \A x : Bland(x) => Spares(S, x)
    BY DEF Told, Titles, Cases, Bland, Spares, Shared
  <2> QED
    BY <2>1, CalmIdle DEF Calm, Sparing
<1>2. ASSUME NEW x, ThreadList(q, x), S \cap Cases = {} PROVE Sparing(S, q)
  BY <1>2, Tuple1 DEF ThreadList, Sparing, Spares
<1>3. /\ \A d, s, n : Bringing(d, s, n).id = d /\ Linking(d).id = d
      /\ \A d, e : Replacing(d, e).id = d
      /\ \A h, p, m, s : Ended(h, p, m, s).id = h /\ Opening(p, m, h).id = h
      /\ \A p, m, s, st : Moving(p, m, s, st).id = p /\ Passing(p, m, s).id = p
      /\ \A o, t : Closing(o).id = o /\ Completing(t).id = t
      /\ \A p, m, t, h : Buying(p, m, t, h).id = h
      /\ \A t, r : Update(t, r).id = t /\ Insert(t, r).id = t
  BY MovingColumns, WriteFields DEF Bringing, Linking, Replacing, Ended, Opening, Passing, Closing, Buying, Completing
<1>4. ASSUME NEW T, S \cap T = {}, \A x \in ToSet(q) : x.id \in T PROVE Sparing(S, q)
  BY <1>4 DEF Sparing, Spares
<1>5. ASSUME NEW d \in Documents, NEW s, NEW n, NEW last, UploadList(q, d, s, n, last)
      PROVE  \A x \in ToSet(q) : x.id \in Documents
  BY <1>3, <1>5, Tuple1, Tuple2, Tuple3 DEF UploadList
<1>6. ASSUME NEW p \in Plots, NEW g \in History, NEW m, EditList(q, p, m, g)
      PROVE  \A x \in ToSet(q) : x.id \in Titles
  <2>0. PICK st : EditLeft(q, p, m, g, st)
    BY <1>6 DEF EditList
  <2> DEFINE b == Opening(p, m, g)
             c == Moving(p, m, g, st)
  <2>1. \/ \E a : a.id \in History /\ (q = <<a, b, c>> \/ q = <<a, c>>)
        \/ q = <<b, c>> \/ q = <<c>>
    BY <1>3, <2>0 DEF EditLeft
  <2>2. b.id = g /\ c.id = p
    BY <1>3
  <2> HIDE DEF b, c
  <2> QED
    BY <2>1, <2>2, Tuple1, Tuple2, Tuple3 DEF Titles
<1>7. ASSUME NEW p \in Plots, NEW t \in Transfers, NEW h \in History, NEW m, DeedList(q, p, m, t, h)
      PROVE  \A x \in ToSet(q) : x.id \in Titles
  <2> DEFINE b == Buying(p, m, t, h)
             c == Passing(p, m, h)
             d == Completing(t)
  <2>1. \/ \E a : a.id \in History /\ q = <<a, b, c, d>>
        \/ q = <<b, c, d>> \/ q = <<c, d>>
    BY <1>3, <1>7 DEF DeedList
  <2>2. b.id = h /\ c.id = p /\ d.id = t
    BY <1>3
  <2> HIDE DEF b, c, d
  <2> QED
    <3>1. ASSUME NEW a, a.id \in History, q = <<a, b, c, d>> PROVE \A x \in ToSet(q) : x.id \in Titles
      BY <2>2, <3>1, Tuple4 DEF Titles
    <3>2. CASE q = <<b, c, d>> \/ q = <<c, d>>
      BY <2>2, <3>2, Tuple2, Tuple3 DEF Titles
    <3> QED
      BY <2>1, <3>1, <3>2
<1>8. ASSUME NEW t \in Transfers, TransferList(q, t)
      PROVE  \A x \in ToSet(q) : x.id \in Titles
  <2>1. \E x : x.id = t /\ q = <<x>>
    <3>1. ASSUME NEW r, q = <<Update(t, r)>> \/ q = <<Insert(t, r)>> PROVE \E x : x.id = t /\ q = <<x>>
      BY <1>3, <3>1
    <3> QED
      BY <1>8, <3>1 DEF TransferList
  <2> QED
    BY <2>1, Tuple1 DEF Titles
<1>9. ASSUME S \cap Titles = {}, \A x \in ToSet(q) : x.id \in Titles PROVE Sparing(S, q)
  BY <1>4, <1>9
<1>10. ASSUME S \cap Documents = {}, \A x \in ToSet(q) : x.id \in Documents PROVE Sparing(S, q)
  BY <1>4, <1>10
<1>11. /\ \A d \in Documents : \A s, n, last :
             UploadList(q, d, s, n, last) /\ S \cap Documents = {} => Sparing(S, q)
       /\ \A p \in Plots, g \in History : \A m : EditList(q, p, m, g) /\ S \cap Titles = {} => Sparing(S, q)
  BY <1>5, <1>6, <1>9, <1>10
<1>12. /\ \A p \in Plots, t \in Transfers, h \in History : \A m :
             DeedList(q, p, m, t, h) /\ S \cap Titles = {} => Sparing(S, q)
       /\ \A t \in Transfers : TransferList(q, t) /\ S \cap Titles = {} => Sparing(S, q)
  BY <1>7, <1>8, <1>9
<1> QED
  BY <1>1, <1>2, <1>11, <1>12

LEMMA BlandlyLeaves ==
  ASSUME NEW w, Blandly(w), NEW S, S \subseteq Told
  PROVE  Leaving(S, w)
<1>1. \A id \in S : id \in History \cup Transfers \/ id \in Shared
  BY DEF Told, Titles, Cases, Shared
<1> QED
  BY <1>1, ListsSpare DEF Blandly, Leaving, SameRow

LEMMA BeginLeaves ==
  ASSUME OfficeInv, NEW w \in Workers, NEW q, Begin(w, q), Sequence(q), NEW S, S \subseteq Told, Sparing(S, q)
  PROVE  Leaving(S, w)
<1>1. Turns(w, q) /\ job[w] = Idle /\ file' = file /\ upset \subseteq upset'
  BY Beginning DEF OfficeInv
<1> QED
  BY <1>1, ListsSpare, IdleJob DEF Leaving, Turns, SameRow

\* A row with one of the columns is there, and stays so.
LEMMA StaysThere ==
  ASSUME RowInv, NEW id \in Shared, file[id] # NoRow, NEW p, \A c \in Telling : c \notin DOMAIN p
  PROVE  /\ Over(p, file[id]) # NoRow
         /\ \A c \in Telling : /\ c \in DOMAIN Over(p, file[id]) <=> c \in DOMAIN file[id]
                               /\ c \in DOMAIN file[id] => Over(p, file[id])[c] = file[id][c]
<1>1. Typed(id, file[id])
  BY MainTablesApart DEF RowInv
<1>2. \E c \in Telling : c \in DOMAIN file[id]
  BY <1>1 DEF Typed, Shared, PlotRow, DocRow, Telling
<1> QED
  BY <1>2, OverColumns, WriteFields

LEMMA WriteLeaves ==
  ASSUME OfficeInv, NEW w \in Workers, Write(w), NEW S, S \subseteq Told, Sparing(S, job[w].todo)
  PROVE  Leaving(S, w)
<1> DEFINE q == job[w].todo
           x == Head(q)
<1>1. RequestInv /\ RowInv /\ Sequence(q)
  BY DEF OfficeInv, RequestInv, JobRecord
<1>2. /\ Turns(w, Tail(q)) /\ upset' = upset /\ q # <<>> /\ x \in Left(w)
      /\ \A id \in Ids : file'[id] = IF id = x.id THEN Result(x, file[id]) ELSE file[id]
  BY <1>1, Writing
<1>3. Sparing(S, Tail(q)) /\ Spares(S, x)
  BY <1>1, <1>2, Behead DEF Sparing, Left
<1>4. ASSUME NEW id \in S PROVE SameRow(id) /\ (id \in History \cup Transfers => file'[id] = file[id])
  <2>1. id \in Ids
    BY MainTablesApart DEF Told, Titles, Cases, Shared, Applications
  <2>2. CASE id # x.id
    BY <1>2, <2>1, <2>2 DEF SameRow
  <2>3. CASE id = x.id
    <3>1. id \in Shared /\ x.op = "update" /\ \A c \in Telling : c \notin DOMAIN x.patch
      BY <1>3, <2>3 DEF Spares
    <3>2. file'[id] = IF file[id] # NoRow THEN Over(x.patch, file[id]) ELSE NoRow
      BY <1>2, <2>1, <2>3, <3>1 DEF Result
    <3>3. id \notin History \cup Transfers
      BY <3>1, MainTablesApart DEF Applications
    <3>4. CASE file[id] = NoRow
      BY <3>2, <3>3, <3>4 DEF SameRow
    <3>5. CASE file[id] # NoRow
      <4>1. file'[id] = Over(x.patch, file[id])
        BY <3>2, <3>5
      <4> QED
        BY <1>1, <3>1, <3>3, <3>5, <4>1, StaysThere DEF SameRow
    <3> QED
      BY <3>4, <3>5
  <2> QED
    BY <2>2, <2>3
<1> QED
  BY <1>2, <1>3, <1>4 DEF Leaving, Turns

LEMMA DieLeaves ==
  ASSUME OfficeInv, NEW w \in Workers, Die(w), NEW S, S \subseteq Told, Sparing(S, job[w].todo)
  PROVE  Leaving(S, w)
<1>1. Turns(w, <<>>) /\ file' = file /\ upset \subseteq upset'
  BY Dying DEF OfficeInv
<1> QED
  BY <1>1, ListsSpare DEF Leaving, Turns, SameRow

\* What a worker does, by the lists of statements it is about.
LEMMA Splits ==
  ASSUME OfficeInv, KindInv, [Next]_societyVars
  PROVE  \/ UNCHANGED <<file, job, upset>>
         \/ \E w \in Workers :
              \/ Blandly(w) \/ Threading(w) \/ Owning(w) \/ TransferSteps(w) \/ Write(w) \/ Die(w)
              \/ \E d \in Documents, s \in Subjects : UploadDocument(w, d, s)
<1> DEFINE Does(w) == \/ Blandly(w) \/ Threading(w) \/ Owning(w) \/ TransferSteps(w) \/ Write(w) \/ Die(w)
                      \/ \E d \in Documents, s \in Subjects : UploadDocument(w, d, s)
<1>1. ASSUME NEW d, NEW w \in Workers, DeskSteps(d, w) PROVE Does(w)
  <2>1. Aside(w) \/ Notable(w)
    BY <1>1, DeskDoes DEF OfficeInv, KeyInv
  <2>2. CASE ImportSteps(w)
    <3>1. (\E ms \in [1..2 -> Persons] : \E cnics, all : commitMembers(w, ms, cnics, all))
            \/ CheckRow(w) \/ AddRow(w) \/ UndoRow(w)
      BY <2>2 DEF ImportSteps
    <3> QED
      BY <3>1, CommitBlandly, ImportBlandly
  <2> QED
    BY <2>1, <2>2, AsideBlandly DEF Notable
<1>2. CASE \E w \in Workers : (\E d \in desks : DeskSteps(d, w)) \/ Write(w) \/ Die(w)
  BY <1>1, <1>2
<1>3. CASE Tick \/ InstallmentsMove \/ UNCHANGED societyVars
  BY <1>3 DEF Tick, InstallmentsMove, requestVars, societyVars, titleVars
<1> QED
  BY <1>2, <1>3 DEF Next

LEMMA KindTurns ==
  ASSUME KindInv, NEW w \in Workers, NEW q, Turns(w, q), Kind(q)
  PROVE  KindInv'
BY DEF KindInv, Turns

LEMMA KindStep ==
  ASSUME OfficeInv, KindInv, [Next]_societyVars
  PROVE  KindInv'
<1>1. ASSUME NEW w \in Workers, Blandly(w) PROVE KindInv'
  BY <1>1 DEF Blandly, KindInv, Kind
<1>2. ASSUME NEW w \in Workers, NEW q, Begin(w, q), Sequence(q), Kind(q) PROVE KindInv'
  BY <1>2, Beginning, KindTurns DEF OfficeInv
<1>3. ASSUME NEW w \in Workers, Threading(w) PROVE KindInv'
  <2>1. PICK x : ThreadList(<<x>>, x) /\ Begin(w, <<x>>) /\ Sequence(<<x>>)
    BY <1>3, ThreadBegins
  <2>2. Kind(<<x>>)
    BY <2>1 DEF Kind
  <2> QED
    BY <1>2, <2>1, <2>2
<1>4. ASSUME NEW w \in Workers, NEW d \in Documents, NEW s \in Subjects, UploadDocument(w, d, s) PROVE KindInv'
  <2>1. PICK n \in 1..MaxVersion : \E last, q : UploadBegins(w, d, s, n, last, q)
    BY <1>4, UploadDoes
  <2>2. PICK last, q : UploadBegins(w, d, s, n, last, q)
    BY <2>1
  <2>3. Kind(q)
    BY <2>2 DEF UploadBegins, Kind
  <2> QED
    BY <1>2, <2>2, <2>3 DEF UploadBegins
<1>5. ASSUME NEW w \in Workers, Owning(w) PROVE KindInv'
  <2>1. PICK p \in Plots, m \in Members \cup {None}, h \in History, g \in History :
          \E q : EditBegins(w, p, m, h, g, q)
    BY <1>5, EditDoes
  <2>2. PICK q : EditBegins(w, p, m, h, g, q)
    BY <2>1
  <2>3. Kind(q)
    BY <2>2 DEF EditBegins, Kind
  <2> QED
    BY <1>2, <2>2, <2>3 DEF EditBegins
<1>6. ASSUME NEW w \in Workers, TransferSteps(w) PROVE KindInv'
  <2>1. CASE \E t \in Transfers : \E q : StatusBegins(w, t, q)
    <3>0. PICK t \in Transfers : \E q : StatusBegins(w, t, q)
      BY <2>1
    <3>1. PICK q : StatusBegins(w, t, q)
      BY <3>0
    <3>2. TransferList(q, t)
      BY <3>1 DEF StatusBegins, TransferList
    <3>3. Kind(q)
      BY <3>2 DEF Kind
    <3> QED
      BY <1>2, <3>1, <3>3 DEF StatusBegins
  <2>2. CASE \E p \in Plots, to \in Members, t \in Transfers, h \in History : \E q : DeedBegins(w, p, to, t, h, q)
    <3>1. PICK p \in Plots, to \in Members, t \in Transfers, h \in History : \E q : DeedBegins(w, p, to, t, h, q)
      BY <2>2
    <3>2. PICK q : DeedBegins(w, p, to, t, h, q)
      BY <3>1
    <3>3. Kind(q)
      BY <3>2 DEF DeedBegins, Kind
    <3> QED
      BY <1>2, <3>2, <3>3 DEF DeedBegins
  <2> QED
    BY <1>6, <2>1, <2>2, TransferDoes
<1>7. ASSUME NEW w \in Workers, Write(w) PROVE KindInv'
  <2>1. RequestInv /\ Sequence(job[w].todo) /\ Kind(job[w].todo)
    BY DEF OfficeInv, RequestInv, JobRecord, KindInv
  <2>2. Turns(w, Tail(job[w].todo)) /\ job[w].todo # <<>>
    BY <1>7, <2>1, Writing
  <2> QED
    BY <2>1, <2>2, TailKind, KindTurns
<1>8. ASSUME NEW w \in Workers, Die(w) PROVE KindInv'
  <2>1. Turns(w, <<>>)
    BY <1>8, Dying DEF OfficeInv
  <2>2. Kind(<<>>)
    BY CalmIdle DEF Kind
  <2> QED
    BY <2>1, <2>2, KindTurns
<1>9. CASE UNCHANGED <<file, job, upset>>
  BY <1>9 DEF KindInv
<1> QED
  BY <1>1, <1>3, <1>4, <1>5, <1>6, <1>7, <1>8, <1>9, Splits

LEMMA KindInit ==
  ASSUME Init
  PROVE  KindInv
<1>1. job = [w \in Workers |-> Idle]
  BY DEF Init, TitleInit, RequestsInit
<1> QED
  BY <1>1, CalmIdle DEF KindInv, Kind

LEMMA KindsSound == Spec => []KindInv
BY KindInit, KindStep, OfficeSound, PTL DEF Spec

-----------------------------------------------------------------------------
(* Threads                                                                 *)

\* A thread that is about to be written back goes on from the one that is there, and
\* no other request is about to write it.
ThreadInv ==
  \A c \in Cases, w \in Workers : \A x :
    ThreadList(job[w].todo, x) /\ x.id = c /\ Undisturbed(c, "thread") =>
      /\ file[c] # NoRow => IsPrefix(file[c].thread, x.patch.thread)
      /\ \A v \in Workers \ {w} : \A y : ~(ThreadList(job[v].todo, y) /\ y.id = c)

LEMMA CasesTold == Cases \subseteq Told /\ Cases \cap Titles = {} /\ Cases \cap Documents = {} /\ Cases \subseteq Ids
BY MainTablesApart DEF Told, Titles, Cases, Shared, Applications

LEMMA CaseMoves ==
  ASSUME OfficeInv, KindInv, [Next]_societyVars
  PROVE  \/ UNCHANGED <<file, job, upset>>
         \/ \E w \in Workers : Leaving(Cases, w) \/ Threading(w)
         \/ \E w \in Workers : \E x : ThreadList(job[w].todo, x) /\ (Write(w) \/ Die(w))
<1>1. ASSUME NEW w \in Workers, Blandly(w) PROVE Leaving(Cases, w)
  BY <1>1, BlandlyLeaves, CasesTold
<1>2. ASSUME NEW w \in Workers, NEW q, Begin(w, q), Sequence(q), Sparing(Cases, q) PROVE Leaving(Cases, w)
  BY <1>2, BeginLeaves, CasesTold
<1>3. ASSUME NEW w \in Workers, NEW d \in Documents, NEW s \in Subjects, UploadDocument(w, d, s) PROVE Leaving(Cases, w)
  <2>1. PICK n \in 1..MaxVersion : \E last, q : UploadBegins(w, d, s, n, last, q)
    BY <1>3, UploadDoes
  <2>2. PICK last, q : UploadBegins(w, d, s, n, last, q)
    BY <2>1
  <2> QED
    BY <1>2, <2>2, ListsSpare, CasesTold DEF UploadBegins
<1>4. ASSUME NEW w \in Workers, Owning(w) PROVE Leaving(Cases, w)
  <2>1. PICK p \in Plots, m \in Members \cup {None}, h \in History, g \in History :
          \E q : EditBegins(w, p, m, h, g, q)
    BY <1>4, EditDoes
  <2>2. PICK q : EditBegins(w, p, m, h, g, q)
    BY <2>1
  <2> QED
    BY <1>2, <2>2, ListsSpare, CasesTold DEF EditBegins
<1>5. ASSUME NEW w \in Workers, TransferSteps(w) PROVE Leaving(Cases, w)
  <2>1. ASSUME NEW t \in Transfers, NEW q, StatusBegins(w, t, q) PROVE Leaving(Cases, w)
    <3>1. TransferList(q, t)
      BY <2>1 DEF StatusBegins, TransferList
    <3> QED
      BY <1>2, <2>1, <3>1, ListsSpare, CasesTold DEF StatusBegins
  <2>2. ASSUME NEW p \in Plots, NEW to \in Members, NEW t \in Transfers, NEW h \in History, NEW q,
               DeedBegins(w, p, to, t, h, q)
        PROVE  Leaving(Cases, w)
    BY <1>2, <2>2, ListsSpare, CasesTold DEF DeedBegins
  <2> QED
    BY <1>5, <2>1, <2>2, TransferDoes
<1>6. ASSUME NEW w \in Workers, Write(w) \/ Die(w)
      PROVE  Leaving(Cases, w) \/ \E x : ThreadList(job[w].todo, x)
  <2>1. Sparing(Cases, job[w].todo) \/ \E x : ThreadList(job[w].todo, x)
    <3> DEFINE q == job[w].todo
    <3>1. Kind(q)
      BY DEF KindInv
    <3> HIDE DEF q
    <3>2. /\ Calm(q) => Sparing(Cases, q)
          /\ \A d \in Documents : \A s, n, last : UploadList(q, d, s, n, last) => Sparing(Cases, q)
          /\ \A p \in Plots, g \in History : \A m : EditList(q, p, m, g) => Sparing(Cases, q)
          /\ \A p \in Plots, t \in Transfers, h \in History : \A m : DeedList(q, p, m, t, h) => Sparing(Cases, q)
          /\ \A t \in Transfers : TransferList(q, t) => Sparing(Cases, q)
      BY ListsSpare, CasesTold
    <3>3. \/ Calm(q)
          \/ \E x : ThreadList(q, x)
          \/ \E d \in Documents : \E s, n, last : UploadList(q, d, s, n, last)
          \/ \E p \in Plots, g \in History : \E m : EditList(q, p, m, g)
          \/ \E p \in Plots, t \in Transfers, h \in History : \E m : DeedList(q, p, m, t, h)
          \/ \E t \in Transfers : TransferList(q, t)
      BY <3>1 DEF Kind
    <3>4. Sparing(Cases, q) \/ \E x : ThreadList(q, x)
      BY <3>2, <3>3
    <3> QED
      BY <3>4 DEF q
  <2> QED
    BY <1>6, <2>1, WriteLeaves, DieLeaves, CasesTold
<1>7. \/ UNCHANGED <<file, job, upset>>
      \/ \E w \in Workers :
              \/ Blandly(w) \/ Threading(w) \/ Owning(w) \/ TransferSteps(w) \/ Write(w) \/ Die(w)
              \/ \E d \in Documents, s \in Subjects : UploadDocument(w, d, s)
  BY Splits
<1> QED
  BY <1>1, <1>3, <1>4, <1>5, <1>6, <1>7

LEMMA PrefixSelf ==
  ASSUME NEW S, NEW s \in Seq(S)
  PROVE  IsPrefix(s, s) /\ \A w \in S : IsPrefix(s, Append(s, w))
<1>1. Len(s) \in Nat
  OBVIOUS
<1>2. ASSUME NEW w \in S PROVE SubSeq(Append(s, w), 1, Len(s)) = SubSeq(s, 1, Len(s)) /\ Len(Append(s, w)) = Len(s) + 1
  OBVIOUS
<1> QED
  BY <1>1, <1>2 DEF IsPrefix

LEMMA ThreadTyped ==
  ASSUME RowInv, NEW c \in Cases, file[c] # NoRow
  PROVE  "thread" \in DOMAIN file[c] /\ file[c].thread \in Seq(Workers)
BY CasesTold DEF RowInv, Typed, Cases

\* The lists of threads that are about to be written after a step.
LEMMA ThreadStep ==
  ASSUME OfficeInv, KindInv, ThreadInv, [Next]_societyVars
  PROVE  ThreadInv'
<1> SUFFICES ASSUME NEW c \in Cases, NEW u \in Workers, NEW x, ThreadList(job'[u].todo, x), x.id = c,
                    <<c, "thread">> \notin upset'
             PROVE  /\ file'[c] # NoRow => IsPrefix(file'[c].thread, x.patch.thread)
                    /\ \A v \in Workers \ {u} : \A y : ~(ThreadList(job'[v].todo, y) /\ y.id = c)
  BY DEF ThreadInv, Undisturbed
<1>0. RequestInv /\ RowInv
  BY DEF OfficeInv
<1>1. CASE UNCHANGED <<file, job, upset>>
  BY <1>1 DEF ThreadInv, Undisturbed
<1>2. ASSUME NEW S, Sparing(Cases, S), NEW y, ThreadList(S, y) PROVE FALSE
  <2>1. y \in ToSet(S)
    BY <1>2, Tuple1 DEF ThreadList
  <2> QED
    BY <1>2, <2>1 DEF ThreadList, Sparing, Spares, Telling
<1>3. ASSUME NEW w \in Workers, Leaving(Cases, w)
      PROVE  /\ file'[c] # NoRow => IsPrefix(file'[c].thread, x.patch.thread)
             /\ \A v \in Workers \ {u} : \A y : ~(ThreadList(job'[v].todo, y) /\ y.id = c)
  <2>1. u # w /\ \A v \in Workers \ {w} : job'[v] = job[v]
    BY <1>2, <1>3 DEF Leaving
  <2>2. /\ file[c] # NoRow => IsPrefix(file[c].thread, x.patch.thread)
        /\ \A v \in Workers \ {u} : \A y : ~(ThreadList(job[v].todo, y) /\ y.id = c)
    BY <1>3, <2>1 DEF Leaving, ThreadInv, Undisturbed
  <2>3. (file[c] = NoRow <=> file'[c] = NoRow) /\ (file[c] # NoRow => file'[c].thread = file[c].thread)
    BY <1>0, <1>3, ThreadTyped DEF Leaving, SameRow, Telling
  <2>4. \A y : ~ThreadList(job'[w].todo, y)
    BY <1>2, <1>3 DEF Leaving
  <2> QED
    BY <2>1, <2>2, <2>3, <2>4
<1>4. ASSUME NEW w \in Workers, Threading(w)
      PROVE  /\ file'[c] # NoRow => IsPrefix(file'[c].thread, x.patch.thread)
             /\ \A v \in Workers \ {u} : \A y : ~(ThreadList(job'[v].todo, y) /\ y.id = c)
  <2>1. PICK z : ThreadOf(w, z) /\ ThreadList(<<z>>, z) /\ Begin(w, <<z>>) /\ Sequence(<<z>>)
    BY <1>4, ThreadBegins
  <2>2. Turns(w, <<z>>) /\ file' = file /\ upset \subseteq upset'
    BY <1>0, <2>1, Beginning
  <2>3. ASSUME NEW v \in Workers \ {w}, NEW y, ThreadList(job[v].todo, y), y.id = z.id
        PROVE  <<z.id, "thread">> \in upset'
    <3>1. y \in Left(v) /\ y.op # "check" /\ "thread" \in DOMAIN y.patch
      BY <2>3, Tuple1 DEF ThreadList, Left
    <3>2. <<z.id, "thread">> \in Pending(v)
      BY <2>3, <3>1, PendingColumns
    <3>3. z \in ToSet(<<z>>) /\ z.op # "check" /\ "thread" \in DOMAIN z.patch
      BY <2>1, Tuple1 DEF ThreadList
    <3> QED
      BY <1>0, <2>1, <3>2, <3>3, Collides
  <2>4. \A y : ThreadList(job'[w].todo, y) => y = z
    <3>1. ASSUME NEW y, <<z>> = <<y>> PROVE y = z
      BY <3>1, Tails
    <3> QED
      BY <2>2, <3>1 DEF Turns, ThreadList
  <2>5. CASE u = w
    <3>1. x = z
      BY <2>4, <2>5
    <3>2. file[c] # NoRow => IsPrefix(file[c].thread, x.patch.thread)
      <4>1. CASE x.op = "insert" /\ Fresh(x.id)
        BY <4>1 DEF Fresh
      <4>2. CASE x.op = "update" /\ x.patch.thread = Append(file[c].thread, w)
        BY <1>0, <4>2, PrefixSelf, ThreadTyped
      <4> QED
        BY <2>1, <3>1, <4>1, <4>2 DEF ThreadOf
    <3>3. \A v \in Workers \ {u} : \A y : ~(ThreadList(job'[v].todo, y) /\ y.id = c)
      BY <2>2, <2>3, <2>5, <3>1 DEF Turns
    <3> QED
      BY <2>2, <3>2, <3>3
  <2>6. CASE u # w
    <3>1. job'[u] = job[u] /\ <<c, "thread">> \notin upset
      BY <2>2, <2>6 DEF Turns
    <3>2. /\ file[c] # NoRow => IsPrefix(file[c].thread, x.patch.thread)
          /\ \A v \in Workers \ {u} : \A y : ~(ThreadList(job[v].todo, y) /\ y.id = c)
      BY <3>1 DEF ThreadInv, Undisturbed
    <3>3. z.id # c
      BY <2>3, <2>6, <3>1
    <3>4. \A v \in Workers \ {w} : job'[v] = job[v]
      BY <2>2 DEF Turns
    <3> QED
      BY <2>2, <2>4, <3>2, <3>3, <3>4
  <2> QED
    BY <2>5, <2>6
<1>5. ASSUME NEW w \in Workers, NEW z, ThreadList(job[w].todo, z), Write(w) \/ Die(w)
      PROVE  /\ file'[c] # NoRow => IsPrefix(file'[c].thread, x.patch.thread)
             /\ \A v \in Workers \ {u} : \A y : ~(ThreadList(job'[v].todo, y) /\ y.id = c)
  <2>1. Turns(w, <<>>) /\ upset \subseteq upset'
    <3>1. Tail(job[w].todo) = <<>>
      BY <1>5, Tails DEF ThreadList
    <3> QED
      BY <1>0, <1>5, <3>1, Writing, Dying
  <2>2. \A y : ~ThreadList(job'[w].todo, y)
    BY <2>1, Tails DEF Turns, ThreadList
  <2>3. u # w /\ job'[u] = job[u] /\ <<c, "thread">> \notin upset
    BY <2>1, <2>2 DEF Turns
  <2>4. /\ file[c] # NoRow => IsPrefix(file[c].thread, x.patch.thread)
        /\ \A v \in Workers \ {u} : \A y : ~(ThreadList(job[v].todo, y) /\ y.id = c)
    BY <2>3 DEF ThreadInv, Undisturbed
  <2>5. z.id # c
    BY <1>5, <2>3, <2>4
  <2>6. file'[c] = file[c]
    <3>1. CASE Die(w)
      BY <1>0, <3>1, Dying
    <3>2. CASE Write(w)
      <4>1. Head(job[w].todo) = z
        BY <1>5, Tails DEF ThreadList
      <4> QED
        BY <1>0, <2>5, <3>2, <4>1, Writing, CasesTold
    <3> QED
      BY <1>5, <3>1, <3>2
  <2>7. \A v \in Workers \ {w} : job'[v] = job[v]
    BY <2>1 DEF Turns
  <2> QED
    BY <2>2, <2>4, <2>6, <2>7
<1> QED
  BY <1>1, <1>3, <1>4, <1>5, CaseMoves

LEMMA ThreadsKept ==
  ASSUME OfficeInv, KindInv, ThreadInv, [Next]_societyVars, NEW c \in Cases,
         file[c] # NoRow, <<c, "thread">> \notin upset'
  PROVE  IsPrefix(file[c].thread, file'[c].thread)
<1>0. RequestInv /\ RowInv /\ IsPrefix(file[c].thread, file[c].thread)
  BY ThreadTyped, PrefixSelf DEF OfficeInv
<1>1. CASE UNCHANGED <<file, job, upset>>
  BY <1>0, <1>1
<1>2. ASSUME NEW w \in Workers, Leaving(Cases, w) PROVE IsPrefix(file[c].thread, file'[c].thread)
  <2>1. file'[c].thread = file[c].thread
    BY <1>0, <1>2, ThreadTyped DEF Leaving, SameRow, Telling
  <2> QED
    BY <1>0, <2>1
<1>3. ASSUME NEW w \in Workers, Threading(w) PROVE IsPrefix(file[c].thread, file'[c].thread)
  BY <1>0, <1>3, ThreadBegins, Beginning
<1>4. ASSUME NEW w \in Workers, Die(w) PROVE IsPrefix(file[c].thread, file'[c].thread)
  BY <1>0, <1>4, Dying
<1>5. ASSUME NEW w \in Workers, NEW z, ThreadList(job[w].todo, z), Write(w)
      PROVE  IsPrefix(file[c].thread, file'[c].thread)
  <2>1. Head(job[w].todo) = z
    BY <1>5, Tails DEF ThreadList
  <2>2. file'[c] = (IF c = z.id THEN Result(z, file[c]) ELSE file[c]) /\ upset' = upset
    BY <1>0, <1>5, <2>1, Writing, CasesTold
  <2>3. CASE c # z.id
    BY <1>0, <2>2, <2>3
  <2>4. CASE c = z.id
    <3>1. IsPrefix(file[c].thread, z.patch.thread)
      BY <1>5, <2>2, <2>4 DEF ThreadInv, Undisturbed
    <3>2. file'[c].thread = z.patch.thread
      <4>1. z.op \in {"insert", "update"} /\ "thread" \in DOMAIN z.patch
        BY <1>5 DEF ThreadList
      <4> QED
        BY <2>2, <2>4, <4>1, OverColumns DEF Result
    <3> QED
      BY <3>1, <3>2
  <2> QED
    BY <2>3, <2>4
<1> QED
  BY <1>1, <1>2, <1>3, <1>4, <1>5, CaseMoves

LEMMA ThreadInit ==
  ASSUME Init
  PROVE  ThreadInv
<1>1. job = [w \in Workers |-> Idle]
  BY DEF Init, TitleInit, RequestsInit
<1> QED
  BY <1>1, IdleJob, Tails DEF ThreadInv, ThreadList

\* Threads are written back whole (complaints/service.js:131, maintenance/service.js:215);
\* still no entry is lost, unless two requests were to write the thread at once or one
\* left it unwritten.
THEOREM ThreadsOnlyGrow == Spec => ThreadsGrow
<1>1. Init => ThreadInv
  BY ThreadInit
<1>2. OfficeInv /\ KindInv /\ ThreadInv /\ [Next]_societyVars => ThreadInv'
  BY ThreadStep
<1>3. OfficeInv /\ KindInv /\ ThreadInv /\ [Next]_societyVars =>
        [\A c \in Complaints \cup WorkOrders :
           file[c] # NoRow /\ <<c, "thread">> \notin upset' => IsPrefix(file[c].thread, file'[c].thread)]_societyVars
  BY ThreadsKept DEF Cases
<1> QED
  BY <1>1, <1>2, <1>3, OfficeSound, KindsSound, PTL DEF Spec, ThreadsGrow

-----------------------------------------------------------------------------
(* Edits of a plot's owner, transfers and their completion                 *)

LEMMA TitlesTold == /\ Titles \subseteq Told /\ Titles \cap Cases = {} /\ Titles \cap Documents = {} /\ Titles \subseteq Ids
                    /\ History \cap Shared = {} /\ Transfers \cap Shared = {} /\ Plots \subseteq Shared
                    /\ History \cap Transfers = {} /\ Plots \cap (History \cup Transfers) = {}
BY MainTablesApart DEF Told, Titles, Cases, Shared, Applications

\* What is left of a request about titles.
TitleList(q) ==
  \/ \E p \in Plots, m \in Members \cup {None}, g \in History : EditList(q, p, m, g)
  \/ \E p \in Plots, to \in Members, t \in Transfers, h \in History : DeedList(q, p, to, t, h)
  \/ \E t \in Transfers : TransferList(q, t)

LEMMA TitleKinds ==
  ASSUME NEW q, Kind(q)
  PROVE  Sparing(Titles, q) \/ TitleList(q)
<1>1. /\ Calm(q) => Sparing(Titles, q)
      /\ \A x : ThreadList(q, x) => Sparing(Titles, q)
      /\ \A d \in Documents : \A s, n, last : UploadList(q, d, s, n, last) => Sparing(Titles, q)
  BY ListsSpare, TitlesTold
<1>2. \/ Calm(q)
      \/ \E x : ThreadList(q, x)
      \/ \E d \in Documents : \E s, n, last : UploadList(q, d, s, n, last)
      \/ TitleList(q)
  BY DEF Kind, TitleList
<1> QED
  BY <1>1, <1>2

TitleBegins(w) ==
  \/ \E p \in Plots, m \in Members \cup {None}, h, g \in History : \E q : EditBegins(w, p, m, h, g, q)
  \/ \E t \in Transfers : \E q : StatusBegins(w, t, q)
  \/ \E p \in Plots, to \in Members, t \in Transfers, h \in History : \E q : DeedBegins(w, p, to, t, h, q)

LEMMA TitleMoves ==
  ASSUME OfficeInv, KindInv, [Next]_societyVars
  PROVE  \/ UNCHANGED <<file, job, upset>>
         \/ \E w \in Workers : \/ Leaving(Titles, w) \/ TitleBegins(w)
                               \/ TitleList(job[w].todo) /\ (Write(w) \/ Die(w))
<1>1. ASSUME NEW w \in Workers, Blandly(w) PROVE Leaving(Titles, w)
  BY <1>1, BlandlyLeaves, TitlesTold
<1>2. ASSUME NEW w \in Workers, NEW q, Begin(w, q), Sequence(q), Sparing(Titles, q) PROVE Leaving(Titles, w)
  BY <1>2, BeginLeaves, TitlesTold
<1>3. ASSUME NEW w \in Workers, NEW d \in Documents, NEW s \in Subjects, UploadDocument(w, d, s) PROVE Leaving(Titles, w)
  <2>1. PICK n \in 1..MaxVersion : \E last, q : UploadBegins(w, d, s, n, last, q)
    BY <1>3, UploadDoes
  <2>2. PICK last, q : UploadBegins(w, d, s, n, last, q)
    BY <2>1
  <2> QED
    BY <1>2, <2>2, ListsSpare, TitlesTold DEF UploadBegins
<1>4. ASSUME NEW w \in Workers, Threading(w) PROVE Leaving(Titles, w)
  <2>1. PICK x : ThreadList(<<x>>, x) /\ Begin(w, <<x>>) /\ Sequence(<<x>>)
    BY <1>4, ThreadBegins
  <2>2. Sparing(Titles, <<x>>)
    BY <2>1, ListsSpare, TitlesTold
  <2> QED
    BY <1>2, <2>1, <2>2
<1>5. ASSUME NEW w \in Workers, Owning(w) \/ TransferSteps(w) PROVE TitleBegins(w)
  BY <1>5, EditDoes, TransferDoes DEF TitleBegins
<1>6. ASSUME NEW w \in Workers, Write(w) \/ Die(w)
      PROVE  Leaving(Titles, w) \/ TitleList(job[w].todo)
  <2>1. Sparing(Titles, job[w].todo) \/ TitleList(job[w].todo)
    BY TitleKinds DEF KindInv
  <2> QED
    BY <1>6, <2>1, WriteLeaves, DieLeaves, TitlesTold
<1>7. \/ UNCHANGED <<file, job, upset>>
      \/ \E w \in Workers :
              \/ Blandly(w) \/ Threading(w) \/ Owning(w) \/ TransferSteps(w) \/ Write(w) \/ Die(w)
              \/ \E d \in Documents, s \in Subjects : UploadDocument(w, d, s)
  BY Splits
<1> QED
  BY <1>1, <1>3, <1>4, <1>5, <1>6, <1>7

\* A row of the ownership history is inserted where there was none, and keeps what
\* it says of plot, member, beginning and occasion.
LEMMA HistoryWritten ==
  ASSUME OfficeInv, NEW w \in Workers, Write(w), NEW h \in History
  PROVE  LET x == Head(job[w].todo) IN
         \/ /\ x.id = h /\ x.op = "insert" /\ file[h] = NoRow /\ file'[h] = x.patch /\ x.patch # NoRow
            /\ HistoryRow(x.patch)
         \/ /\ x.id = h /\ x.op = "update" /\ file[h] = NoRow /\ file'[h] = NoRow
         \/ /\ x.id = h /\ x.op = "update" /\ file[h] # NoRow /\ file'[h] # NoRow /\ HistoryRow(file[h])
            /\ \A c \in {"plot", "member", "since", "by"} : file'[h][c] = file[h][c]
            /\ "status" \in DOMAIN x.patch => file'[h].status = x.patch.status
            /\ "status" \notin DOMAIN x.patch => file'[h].status = file[h].status
         \/ x.id # h /\ file'[h] = file[h]
<1> DEFINE q == job[w].todo
           x == Head(q)
<1>1. RequestInv /\ RowInv /\ FreshInv /\ Sequence(q) /\ h \in Ids
  BY MainTablesApart DEF OfficeInv, RequestInv, JobRecord
<1>2. /\ q # <<>> /\ x.op \in Statements /\ x \in Left(w)
      /\ file'[h] = IF h = x.id THEN Result(x, file[h]) ELSE file[h]
  BY <1>1, Writing
<1>3. Fits(x) /\ x = q[1] /\ 1 \in DOMAIN q
  <2>1. 1 \in DOMAIN q
    BY <1>1, <1>2 DEF Sequence
  <2> QED
    BY <1>1, <1>2, <2>1, Behead DEF RowInv
<1> HIDE DEF x
<1>4. CASE x.id = h /\ x.op = "insert"
  <2>1. file[h] = NoRow
    BY <1>1, <1>3, <1>4 DEF FreshInv, Founds, Founded
  <2>2. HistoryRow(x.patch)
    BY <1>3, <1>4 DEF Fits, Typed
  <2>3. x.patch # NoRow
    BY <2>2, WriteFields DEF HistoryRow, Telling
  <2> QED
    BY <1>2, <1>4, <2>1, <2>2, <2>3 DEF Result, x
<1>5. CASE x.id = h /\ x.op = "update"
  <2>1. \A c \in Telling : c \notin DOMAIN x.patch
    BY <1>3, <1>5 DEF Fits, Compatible
  <2>2. CASE file[h] = NoRow
    BY <1>2, <1>5, <2>2 DEF Result, x
  <2>3. CASE file[h] # NoRow
    <3>1. HistoryRow(file[h])
      BY <1>1, <2>3 DEF RowInv, Typed
    <3>2. file'[h] = Over(x.patch, file[h])
      BY <1>2, <1>5, <2>3 DEF Result
    <3>3. \A c \in {"plot", "member", "since", "by"} : c \in DOMAIN file[h] /\ c \notin DOMAIN x.patch
      BY <2>1, <3>1 DEF HistoryRow, Telling
    <3>4. \A c \in {"plot", "member", "since", "by"} : file'[h][c] = file[h][c] /\ c \in DOMAIN file'[h]
      BY <3>2, <3>3, OverColumns
    <3>5. file'[h] # NoRow
      BY <3>4, WriteFields DEF Telling
    <3>6. "status" \in DOMAIN file[h]
      BY <3>1 DEF HistoryRow
    <3>7. /\ "status" \in DOMAIN x.patch => file'[h].status = x.patch.status
          /\ "status" \notin DOMAIN x.patch => file'[h].status = file[h].status
      BY <3>2, <3>6, OverColumns
    <3> QED
      BY <1>5, <2>3, <3>1, <3>4, <3>5, <3>7 DEF x
  <2> QED
    BY <2>2, <2>3
<1>6. CASE x.id # h
  BY <1>2, <1>6 DEF x
<1>7. x.id = h => x.op # "delete"
  BY <1>3 DEF Fits
<1> QED
  BY <1>2, <1>4, <1>5, <1>6, <1>7 DEF Statements

\* A request is about to add the buyer's row for t, or has added it and goes on.
Buys(q, t) ==
  \E p \in Plots, to \in Members, h \in History :
    \/ \E o \in History : q = <<Closing(o), Buying(p, to, t, h), Passing(p, to, h), Completing(t)>>
    \/ q = <<Buying(p, to, t, h), Passing(p, to, h), Completing(t)>>

Completes(q, t) ==
  \/ \E p \in Plots, to \in Members, h \in History : q = <<Passing(p, to, h), Completing(t)>>
  \/ q = <<Completing(t)>>

Deals(q, t) == Buys(q, t) \/ Completes(q, t) \/ TransferList(q, t)

\* A transfer that moved its plot was completed, or rejected afterwards.
Final(t) ==
  /\ RowsBy(t) # {} => file[t].status \in {"Completed", "Rejected"}
  /\ file[t].status = "Completed" => RowsBy(t) # {}

TransferSound(t) ==
  /\ \A v, w \in Workers : Deals(job[v].todo, t) /\ Deals(job[w].todo, t) => v = w
  /\ \A g, h \in RowsBy(t) : g = h
  /\ \A w \in Workers : Buys(job[w].todo, t) => RowsBy(t) = {} /\ file[t].status = "Approved"
  /\ \A w \in Workers : Completes(job[w].todo, t) =>
       RowsBy(t) # {} /\ job[w].wrote /\ file[t].status = "Approved"
  /\ \A w \in Workers : \A status :
       job[w].todo = <<Update(t, [status |-> status])>> /\ status \notin {"Completed", "Rejected"}
         => RowsBy(t) = {}
  /\ (\A w \in Workers : ~Completes(job[w].todo, t)) => Final(t)

TransferInv == \A t \in Transfers : Undisturbed(t, "status") => TransferSound(t)

\* The identifier of the last statement of a list.
Target(q) == q[Len(q)].id

LEMMA Target1 == ASSUME NEW a PROVE Target(<<a>>) = a.id
BY DEF Target

LEMMA Target2 == ASSUME NEW a, NEW b PROVE Target(<<a, b>>) = b.id
BY DEF Target

LEMMA Target3 == ASSUME NEW a, NEW b, NEW c PROVE Target(<<a, b, c>>) = c.id
BY DEF Target

LEMMA Target4 == ASSUME NEW a, NEW b, NEW c, NEW d PROVE Target(<<a, b, c, d>>) = d.id
BY DEF Target

LEMMA StatementIds ==
  /\ \A p, m, s, st : Moving(p, m, s, st).id = p /\ Passing(p, m, s).id = p
  /\ \A o : Closing(o).id = o
  /\ \A t : Completing(t).id = t /\ Completing(t) = Update(t, [status |-> "Completed"])
  /\ \A p, m, h : Opening(p, m, h).id = h
  /\ \A h, p, m, s : Ended(h, p, m, s).id = h
  /\ \A p, m, t, h : Buying(p, m, t, h).id = h
  /\ \A t, r : Update(t, r).id = t /\ Insert(t, r).id = t
BY MovingColumns, WriteFields DEF Ended, Opening, Passing, Closing, Buying, Completing

\* The last statement of a list that deals with t, and what list is left.
LEMMA DealsLast ==
  ASSUME NEW q, NEW t, Deals(q, t)
  PROVE  /\ q # <<>> /\ Target(q) = t
         /\ \E x \in ToSet(q) : /\ x.id = t /\ x.op \in {"insert", "update"}
                                /\ x.op = "update" => "status" \in DOMAIN x.patch
<1>1. Completing(t).op = "update" /\ Completing(t).id = t /\ "status" \in DOMAIN Completing(t).patch
  BY WriteFields DEF Completing
<1>2. Buys(q, t) \/ Completes(q, t) =>
        \E a, b, c, d : d = Completing(t) /\ (q = <<a, b, c, d>> \/ q = <<b, c, d>> \/ q = <<c, d>> \/ q = <<d>>)
  BY DEF Buys, Completes
<1>3. ASSUME NEW a, NEW b, NEW c, NEW d, d = Completing(t),
             q = <<a, b, c, d>> \/ q = <<b, c, d>> \/ q = <<c, d>> \/ q = <<d>>
      PROVE  q # <<>> /\ Target(q) = t /\ d \in ToSet(q)
  <2>1. /\ Target(<<a, b, c, d>>) = d.id /\ Target(<<b, c, d>>) = d.id /\ Target(<<c, d>>) = d.id
        /\ Target(<<d>>) = d.id
    BY Target1, Target2, Target3, Target4
  <2>2. <<a, b, c, d>> # <<>> /\ <<b, c, d>> # <<>> /\ <<c, d>> # <<>> /\ <<d>> # <<>>
    BY Tails
  <2>3. d \in ToSet(<<a, b, c, d>>) /\ d \in ToSet(<<b, c, d>>) /\ d \in ToSet(<<c, d>>) /\ d \in ToSet(<<d>>)
    BY Tuple1, Tuple2, Tuple3, Tuple4
  <2> QED
    BY <1>1, <1>3, <2>1, <2>2, <2>3
<1>4. CASE TransferList(q, t)
  <2>1. ASSUME NEW r, q = <<Insert(t, r)>>
        PROVE  \E x : q = <<x>> /\ x.id = t /\ x.op = "insert"
    BY <2>1, WriteFields
  <2>2. ASSUME NEW s, q = <<Update(t, [status |-> s])>>
        PROVE  \E x : q = <<x>> /\ x.id = t /\ x.op = "update" /\ "status" \in DOMAIN x.patch
    <3> DEFINE r == [status |-> s]
    <3>1. "status" \in DOMAIN r
      OBVIOUS
    <3> HIDE DEF r
    <3> QED
      BY <2>2, <3>1, WriteFields DEF r
  <2>3. PICK x : q = <<x>> /\ x.id = t /\ x.op \in {"insert", "update"} /\ (x.op = "update" => "status" \in DOMAIN x.patch)
    BY <1>4, <2>1, <2>2 DEF TransferList
  <2> QED
    BY <2>3, Tails, Target1, Tuple1
<1> QED
  BY <1>1, <1>2, <1>3, <1>4 DEF Deals

LEMMA TargetStays ==
  ASSUME NEW q, Sequence(q), q # <<>>, Tail(q) # <<>>
  PROVE  Target(Tail(q)) = Target(q)
<1>1. Len(q) \in Nat /\ Len(Tail(q)) = Len(q) - 1
  BY DEF Sequence
<1>2. Len(q) # 0
  BY DEF Sequence
<1>3. Len(q) # 1
  <2>1. ASSUME Len(q) = 1 PROVE FALSE
    <3>1. Len(Tail(q)) = 0 /\ Sequence(Tail(q))
      BY <1>1, <2>1, Behead
    <3> QED
      BY <3>1, EmptySeq DEF Sequence
  <2> QED
    BY <2>1
<1>4. Tail(q)[Len(q) - 1] = q[Len(q)]
  BY <1>1, <1>2, <1>3 DEF Sequence
<1> QED
  BY <1>1, <1>4 DEF Target

LEMMA DealsTail ==
  ASSUME NEW q, NEW t, Sequence(q), q # <<>>, Deals(Tail(q), t)
  PROVE  Target(q) = t
BY DealsLast, TargetStays

LEMMA IdleDeals == ASSUME NEW t PROVE ~Deals(<<>>, t) /\ ~Deals(Idle.todo, t)
BY DealsLast, IdleJob

\* A list that spares titles deals with no transfer, and one that edits neither.
LEMMA SparesDeals ==
  ASSUME NEW q, NEW t \in Transfers, Sparing(Titles, q)
  PROVE  ~Deals(q, t)
<1>1. ASSUME Deals(q, t) PROVE FALSE
  <2>1. PICK x \in ToSet(q) : x.id = t
    BY <1>1, DealsLast
  <2> QED
    BY <2>1, TitlesTold DEF Sparing, Spares, Titles
<1> QED
  BY <1>1

LEMMA TitleTargets ==
  ASSUME NEW q
  PROVE  /\ \A p, m, g : EditList(q, p, m, g) => Target(q) = p
         /\ \A p, to, t, h : DeedList(q, p, to, t, h) => Target(q) = t
         /\ \A t : TransferList(q, t) => Target(q) = t
<1>1. ASSUME NEW p, NEW m, NEW g, EditList(q, p, m, g) PROVE Target(q) = p
  <2>0. PICK st : EditLeft(q, p, m, g, st)
    BY <1>1 DEF EditList
  <2> DEFINE c == Moving(p, m, g, st)
  <2>1. \E a, b : q = <<a, b, c>> \/ q = <<b, c>> \/ q = <<c>>
    BY <2>0 DEF EditLeft
  <2>2. c.id = p
    BY StatementIds
  <2>3. ASSUME NEW a, NEW b PROVE Target(<<a, b, c>>) = p /\ Target(<<b, c>>) = p /\ Target(<<c>>) = p
    BY <2>2, Target1, Target2, Target3
  <2> HIDE DEF c
  <2> QED
    BY ONLY <2>1, <2>3
<1>2. ASSUME NEW p, NEW to, NEW t, NEW h, DeedList(q, p, to, t, h) PROVE Target(q) = t
  <2> DEFINE d == Completing(t)
  <2>1. \E a, b, c : q = <<a, b, c, d>> \/ q = <<b, c, d>> \/ q = <<c, d>>
    BY <1>2 DEF DeedList
  <2>2. d.id = t
    BY StatementIds
  <2>3. ASSUME NEW a, NEW b, NEW c
        PROVE  Target(<<a, b, c, d>>) = t /\ Target(<<b, c, d>>) = t /\ Target(<<c, d>>) = t
    BY <2>2, Target2, Target3, Target4
  <2> HIDE DEF d
  <2> QED
    BY ONLY <2>1, <2>3
<1>3. ASSUME NEW t, TransferList(q, t) PROVE Target(q) = t
  <2>1. ASSUME NEW r, q = <<Update(t, r)>> \/ q = <<Insert(t, r)>> PROVE Target(q) = t
    BY <2>1, StatementIds, Target1
  <2> QED
    BY <1>3, <2>1 DEF TransferList
<1> QED
  BY <1>1, <1>2, <1>3

\* The rows a statement adds for t.
LEMMA RowsWritten ==
  ASSUME OfficeInv, NEW w \in Workers, Write(w), NEW t
  PROVE  LET x == Head(job[w].todo) IN
         RowsBy(t)' = IF x.op = "insert" /\ x.id \in History /\ x.patch.by = t
                      THEN RowsBy(t) \cup {x.id} ELSE RowsBy(t)
<1> DEFINE x == Head(job[w].todo)
<1>1. ASSUME NEW h \in History
      PROVE  \/ /\ x.id = h /\ x.op = "insert" /\ file[h] = NoRow /\ file'[h] = x.patch /\ x.patch # NoRow
             \/ /\ ~(x.id = h /\ x.op = "insert") /\ (file[h] = NoRow <=> file'[h] = NoRow)
                /\ file[h] # NoRow => file'[h].by = file[h].by
  BY HistoryWritten
<1> HIDE DEF x
<1>2. ASSUME NEW h \in History
      PROVE  (file'[h] # NoRow /\ file'[h].by = t) <=>
               (file[h] # NoRow /\ file[h].by = t) \/ (x.id = h /\ x.op = "insert" /\ x.patch.by = t)
  BY <1>1
<1>3. RowsBy(t)' = {h \in History : (file[h] # NoRow /\ file[h].by = t) \/ (x.id = h /\ x.op = "insert" /\ x.patch.by = t)}
  BY <1>2 DEF RowsBy
<1>4. CASE x.op = "insert" /\ x.id \in History /\ x.patch.by = t
  BY <1>3, <1>4 DEF RowsBy, x
<1>5. CASE ~(x.op = "insert" /\ x.id \in History /\ x.patch.by = t)
  <2>1. RowsBy(t)' = RowsBy(t)
    BY <1>3, <1>5 DEF RowsBy
  <2> QED
    BY <1>5, <2>1 DEF x
<1> QED
  BY <1>4, <1>5

LEMMA RowsKept ==
  ASSUME \A h \in History : file'[h] = file[h], NEW t
  PROVE  RowsBy(t)' = RowsBy(t)
BY DEF RowsBy

-----------------------------------------------------------------------------
(* A transfer moves its plot once                                          *)

\* A step that is not about t.
LEMMA TransferStays ==
  ASSUME TransferInv, NEW t \in Transfers, NEW w \in Workers, upset \subseteq upset', file'[t] = file[t],
         RowsBy(t)' = RowsBy(t), \A v \in Workers \ {w} : job'[v] = job[v],
         ~Deals(job[w].todo, t), ~Deals(job'[w].todo, t), Undisturbed(t, "status")'
  PROVE  TransferSound(t)'
<1>1. TransferSound(t)
  BY DEF TransferInv, Undisturbed
<1>2. \A status : job'[w].todo # <<Update(t, [status |-> status])>>
  BY DEF Deals, TransferList
<1>3. ~Buys(job'[w].todo, t) /\ ~Completes(job'[w].todo, t) /\ ~Buys(job[w].todo, t) /\ ~Completes(job[w].todo, t)
  BY DEF Deals
<1>4. (\A v, u \in Workers : Deals(job[v].todo, t) /\ Deals(job[u].todo, t) => v = u)'
  <2>1. \A v, u \in Workers : Deals(job[v].todo, t) /\ Deals(job[u].todo, t) => v = u
    BY <1>1 DEF TransferSound
  <2> QED
    BY <2>1
<1>5. (\A v \in Workers : Buys(job[v].todo, t) => RowsBy(t) = {} /\ file[t].status = "Approved")'
  <2>1. \A v \in Workers : Buys(job[v].todo, t) => RowsBy(t) = {} /\ file[t].status = "Approved"
    BY <1>1 DEF TransferSound
  <2> QED
    BY <1>3, <2>1
<1>6. (\A v \in Workers : Completes(job[v].todo, t) => RowsBy(t) # {} /\ job[v].wrote /\ file[t].status = "Approved")'
  <2>1. \A v \in Workers : Completes(job[v].todo, t) => RowsBy(t) # {} /\ job[v].wrote /\ file[t].status = "Approved"
    BY <1>1 DEF TransferSound
  <2> QED
    BY <1>3, <2>1
<1>7. (\A v \in Workers : \A status :
         job[v].todo = <<Update(t, [status |-> status])>> /\ status \notin {"Completed", "Rejected"} => RowsBy(t) = {})'
  <2>1. \A v \in Workers : \A status :
          job[v].todo = <<Update(t, [status |-> status])>> /\ status \notin {"Completed", "Rejected"} => RowsBy(t) = {}
    BY <1>1 DEF TransferSound
  <2> QED
    BY <1>2, <2>1
<1>8. ((\A v \in Workers : ~Completes(job[v].todo, t)) => Final(t))'
  <2>1. ASSUME \A v \in Workers : ~Completes(job'[v].todo, t) PROVE Final(t)'
    <3>1. \A v \in Workers : ~Completes(job[v].todo, t)
      BY <1>3, <2>1
    <3>2. Final(t)
      BY <1>1, <3>1 DEF TransferSound
    <3> QED
      BY <3>2 DEF Final
  <2> QED
    BY <2>1
<1>9. (\A g, h \in RowsBy(t) : g = h)'
  <2>1. \A g, h \in RowsBy(t) : g = h
    BY <1>1 DEF TransferSound
  <2> QED
    BY <2>1
<1> QED
  BY <1>4, <1>5, <1>6, <1>7, <1>8, <1>9 DEF TransferSound

\* A request about t begins: if another was, the status of t is disturbed.
LEMMA TransferBegins ==
  ASSUME OfficeInv, OfficeInv', TransferInv, NEW w \in Workers, NEW q, Begin(w, q), Sequence(q),
         NEW t \in Transfers, Deals(q, t), Undisturbed(t, "status")',
         ~Completes(q, t), Buys(q, t) => file[t].status = "Approved",
         \A s : q = <<Update(t, [status |-> s])>> /\ s # "Rejected" => file[t].status \notin {"Completed", "Rejected"}
  PROVE  TransferSound(t)'
<1>1. Turns(w, q) /\ file' = file /\ upset \subseteq upset' /\ job[w] = Idle
  BY Beginning DEF OfficeInv
<1>2. TransferSound(t)
  BY <1>1 DEF TransferInv, Undisturbed
<1>3. ASSUME NEW v \in Workers \ {w}, Deals(job[v].todo, t) PROVE FALSE
  <2>1. PICK y \in Left(v) : y.id = t /\ y.op \in {"insert", "update"} /\ (y.op = "update" => "status" \in DOMAIN y.patch)
    BY <1>3, DealsLast DEF Left
  <2>2. PICK x \in ToSet(q) : x.id = t /\ x.op \in {"insert", "update"} /\ (x.op = "update" => "status" \in DOMAIN x.patch)
    BY DealsLast
  <2>3. Fits(x) /\ Fits(y)
    <3>1. x \in Left(w)'
      BY <1>1, TurnsLeft
    <3> QED
      BY <2>1, <3>1 DEF OfficeInv, RowInv
  <2>4. "status" \in DOMAIN x.patch /\ "status" \in DOMAIN y.patch
    BY <2>1, <2>2, <2>3 DEF Fits, Typed, TransfersRow
  <2>5. <<t, "status">> \in Pending(v)
    BY <2>1, <2>4, PendingColumns
  <2>6. <<t, "status">> \in upset'
    BY <2>2, <2>4, <2>5, Collides DEF OfficeInv
  <2> QED
    BY <2>6 DEF Undisturbed
<1>4. job'[w].todo = q /\ \A v \in Workers \ {w} : job'[v] = job[v]
  BY <1>1 DEF Turns
<1>5. \A v \in Workers : ~Deals(job[v].todo, t)
  BY <1>1, <1>3, IdleDeals
<1>6. Final(t)
  BY <1>2, <1>5 DEF TransferSound, Deals
<1>7. RowsBy(t)' = RowsBy(t) /\ Final(t)'
  BY <1>1, <1>6 DEF RowsBy, Final
<1>8. \A v \in Workers : Deals(job'[v].todo, t) => v = w
  BY <1>4, <1>5
<1>9. \A v \in Workers : ~Completes(job'[v].todo, t)
  BY <1>4, <1>8 DEF Deals
<1>10. \A v \in Workers : Buys(job'[v].todo, t) => RowsBy(t) = {} /\ file[t].status = "Approved"
  <2>1. \A v \in Workers : Buys(job'[v].todo, t) => v = w
    BY <1>8 DEF Deals
  <2> QED
    BY <1>4, <1>6, <2>1 DEF Final
<1>11. ASSUME NEW v \in Workers, NEW s, job'[v].todo = <<Update(t, [status |-> s])>>, s \notin {"Completed", "Rejected"}
       PROVE  RowsBy(t) = {}
  <2>1. v = w
    BY <1>8, <1>11 DEF Deals, TransferList
  <2>2. q = <<Update(t, [status |-> s])>>
    BY <1>4, <1>11, <2>1
  <2>3. file[t].status \notin {"Completed", "Rejected"}
    BY <1>11, <2>2
  <2> QED
    BY <1>6, <2>3 DEF Final
<1>12. (\A g, h \in RowsBy(t) : g = h)'
  <2>1. \A g, h \in RowsBy(t) : g = h
    BY <1>2 DEF TransferSound
  <2> QED
    BY <1>7, <2>1
<1> QED
  BY <1>1, <1>7, <1>8, <1>9, <1>10, <1>11, <1>12 DEF TransferSound

\* A statement of another request, or of an edit of the owner.
LEMMA OtherWrites ==
  ASSUME OfficeInv, TransferInv, NEW w \in Workers, Write(w), NEW t \in Transfers,
         Target(job[w].todo) # t, Head(job[w].todo).id # t,
         Head(job[w].todo).op = "insert" /\ Head(job[w].todo).id \in History => Head(job[w].todo).patch.by # t,
         Undisturbed(t, "status")'
  PROVE  TransferSound(t)'
<1> DEFINE q == job[w].todo
           x == Head(q)
<1>1. RequestInv /\ Sequence(q) /\ t \in Ids
  BY MainTablesApart DEF OfficeInv, RequestInv, JobRecord, Applications
<1>2. /\ Turns(w, Tail(q)) /\ upset' = upset /\ q # <<>>
      /\ file'[t] = IF t = x.id THEN Result(x, file[t]) ELSE file[t]
  BY <1>1, Writing
<1>3. file'[t] = file[t]
  BY <1>2
<1>4. RowsBy(t)' = RowsBy(t)
  BY RowsWritten
<1>5. ~Deals(q, t) /\ ~Deals(Tail(q), t)
  BY <1>1, <1>2, DealsLast, DealsTail
<1>6. job'[w].todo = Tail(q) /\ \A v \in Workers \ {w} : job'[v] = job[v]
  BY <1>2 DEF Turns
<1> QED
  BY <1>2, <1>3, <1>4, <1>5, <1>6, TransferStays

LEMMA TransferDies ==
  ASSUME OfficeInv, TransferInv, NEW w \in Workers, Die(w), NEW t \in Transfers, Undisturbed(t, "status")'
  PROVE  TransferSound(t)'
<1> DEFINE q == job[w].todo
<1>1. Turns(w, <<>>) /\ file' = file /\ upset \subseteq upset' /\ (job[w].wrote => Pending(w) \subseteq upset')
  BY Dying DEF OfficeInv
<1>2. job'[w].todo = <<>> /\ \A v \in Workers \ {w} : job'[v] = job[v]
  BY <1>1 DEF Turns
<1>3. RowsBy(t)' = RowsBy(t)
  BY <1>1 DEF RowsBy
<1>4. CASE ~Deals(q, t)
  BY <1>1, <1>2, <1>3, <1>4, IdleDeals, TransferStays
<1>5. CASE Deals(q, t)
  <2>1. PICK x \in ToSet(q) : x.id = t /\ x.op \in {"insert", "update"} /\ (x.op = "update" => "status" \in DOMAIN x.patch)
    BY <1>5, DealsLast
  <2>2. x \in Left(w) /\ Fits(x)
    BY DEF Left, OfficeInv, RowInv
  <2>3. "status" \in DOMAIN x.patch
    BY <2>1, <2>2 DEF Fits, Typed, TransfersRow
  <2>4. <<t, "status">> \in Pending(w)
    BY <2>1, <2>2, <2>3, PendingColumns
  <2>5. ~job[w].wrote
    BY <1>1, <2>4 DEF Undisturbed
  <2>6. TransferSound(t)
    BY <1>1 DEF TransferInv, Undisturbed
  <2>7. \A v \in Workers : Deals(job[v].todo, t) => v = w
    BY <1>5, <2>6 DEF TransferSound
  <2>8. ~Completes(q, t)
    BY <2>5, <2>6 DEF TransferSound
  <2>9. Final(t)
    BY <2>6, <2>7, <2>8 DEF TransferSound, Deals
  <2>10. Final(t)'
    BY <1>1, <1>3, <2>9 DEF Final
  <2>11. \A v \in Workers : ~Deals(job'[v].todo, t)
    BY <1>2, <2>7, IdleDeals
  <2>12. (\A g, h \in RowsBy(t) : g = h)'
    <3>1. \A g, h \in RowsBy(t) : g = h
      BY <2>6 DEF TransferSound
    <3> QED
      BY <1>3, <3>1
  <2> QED
    BY <2>10, <2>11, <2>12 DEF TransferSound, Deals, TransferList
<1> QED
  BY <1>4, <1>5

LEMMA Lengths ==
  ASSUME NEW a, NEW b, NEW c, NEW d
  PROVE  Len(<<a>>) = 1 /\ Len(<<a, b>>) = 2 /\ Len(<<a, b, c>>) = 3 /\ Len(<<a, b, c, d>>) = 4
OBVIOUS

LEMMA DealLengths ==
  ASSUME NEW q, NEW t
  PROVE  /\ Buys(q, t) => Len(q) \in {3, 4}
         /\ Completes(q, t) => Len(q) \in {1, 2}
         /\ \A x : q = <<x>> => Len(q) = 1
<1>1. Buys(q, t) => \E a, b, c, d : q = <<a, b, c, d>> \/ q = <<b, c, d>>
  BY DEF Buys
<1>2. Completes(q, t) => \E a, b : q = <<a, b>> \/ q = <<a>>
  BY DEF Completes
<1>3. \A a, b, c, d : Len(<<a, b, c, d>>) = 4 /\ Len(<<b, c, d>>) = 3 /\ Len(<<a, b>>) = 2 /\ Len(<<a>>) = 1
  BY Lengths
<1>4. Buys(q, t) => Len(q) \in {3, 4}
  BY ONLY <1>1, <1>3
<1>5. Completes(q, t) => Len(q) \in {1, 2}
  BY ONLY <1>2, <1>3
<1> QED
  BY <1>3, <1>4, <1>5

\* The one request about t goes on.
LEMMA TransferGoesOn ==
  ASSUME NEW t, TransferSound(t), NEW w \in Workers, Deals(job[w].todo, t),
         \A v \in Workers \ {w} : job'[v] = job[v],
         NEW r, job'[w].todo = r,
         (\A g, h \in RowsBy(t) : g = h)',
         Buys(r, t) => (RowsBy(t) = {} /\ file[t].status = "Approved")',
         Completes(r, t) => (RowsBy(t) # {} /\ job[w].wrote /\ file[t].status = "Approved")',
         \A s : r = <<Update(t, [status |-> s])>> /\ s \notin {"Completed", "Rejected"} => RowsBy(t)' = {},
         ~Completes(r, t) => Final(t)'
  PROVE  TransferSound(t)'
<1>1. \A v \in Workers \ {w} : ~Deals(job'[v].todo, t)
  BY DEF TransferSound
<1>2. \A v \in Workers \ {w} : ~Buys(job'[v].todo, t) /\ ~Completes(job'[v].todo, t)
  BY <1>1 DEF Deals
<1>3. \A v \in Workers \ {w} : \A s : job'[v].todo # <<Update(t, [status |-> s])>>
  BY <1>1 DEF Deals, TransferList
<1>4. (\A u, v \in Workers : Deals(job[u].todo, t) /\ Deals(job[v].todo, t) => u = v)'
  BY <1>1
<1>5. (\A v \in Workers : Buys(job[v].todo, t) => RowsBy(t) = {} /\ file[t].status = "Approved")'
  BY <1>2
<1>6. (\A v \in Workers : Completes(job[v].todo, t) => RowsBy(t) # {} /\ job[v].wrote /\ file[t].status = "Approved")'
  BY <1>2
<1>7. (\A v \in Workers : \A s : job[v].todo = <<Update(t, [status |-> s])>> /\ s \notin {"Completed", "Rejected"}
          => RowsBy(t) = {})'
  BY <1>3
<1>8. ((\A v \in Workers : ~Completes(job[v].todo, t)) => Final(t))'
  OBVIOUS
<1> QED
  BY <1>4, <1>5, <1>6, <1>7, <1>8 DEF TransferSound

\* Another status than Completed, and a new transfer, complete none.
LEMMA NotCompleting ==
  ASSUME NEW t, NEW q
  PROVE  /\ \A s : q = <<Update(t, [status |-> s])>> /\ s # "Completed" => ~Completes(q, t) /\ ~Buys(q, t)
         /\ \A r : q = <<Insert(t, r)>> => ~Completes(q, t) /\ ~Buys(q, t)
<1>1. ASSUME NEW x, q = <<x>>, x # Completing(t) PROVE ~Completes(q, t) /\ ~Buys(q, t)
  <2>1. Len(q) = 1
    BY <1>1, DealLengths
  <2>2. \A p, to, h : Len(<<Passing(p, to, h), Completing(t)>>) = 2
    BY Lengths
  <2>3. q # <<Completing(t)>>
    BY <1>1, Tails
  <2> QED
    BY <2>1, <2>2, <2>3, DealLengths DEF Completes
<1>2. ASSUME NEW s, s # "Completed" PROVE Update(t, [status |-> s]) # Completing(t)
  <2>1. ASSUME Update(t, [status |-> s]) = Update(t, [status |-> "Completed"]) PROVE FALSE
    <3>1. [status |-> "Completed"] = [status |-> s]
      BY <2>1, WriteFields
    <3> QED
      BY <1>2, <3>1
  <2> QED
    BY <2>1, StatementIds
<1>3. \A r : Insert(t, r) # Completing(t)
  BY WriteFields DEF Completing
<1>4. ASSUME NEW s, q = <<Update(t, [status |-> s])>>, s # "Completed" PROVE ~Completes(q, t) /\ ~Buys(q, t)
  <2> DEFINE x == Update(t, [status |-> s])
  <2>1. x # Completing(t) /\ q = <<x>>
    BY <1>2, <1>4
  <2> HIDE DEF x
  <2> QED
    BY <1>1, <2>1
<1>5. ASSUME NEW r, q = <<Insert(t, r)>> PROVE ~Completes(q, t) /\ ~Buys(q, t)
  <2> DEFINE x == Insert(t, r)
  <2>1. x # Completing(t) /\ q = <<x>>
    BY <1>3, <1>5
  <2> HIDE DEF x
  <2> QED
    BY <1>1, <2>1
<1> QED
  BY <1>4, <1>5

LEMMA DealsWrites ==
  ASSUME OfficeInv, TransferInv, NEW w \in Workers, Write(w), NEW t \in Transfers, Deals(job[w].todo, t),
         Undisturbed(t, "status")'
  PROVE  TransferSound(t)'
<1> DEFINE q == job[w].todo
           x == Head(q)
           r == Tail(q)
<1>1. RequestInv /\ RowInv /\ FreshInv /\ Sequence(q) /\ t \in Ids /\ t \notin History \cup Plots
  BY MainTablesApart, TitlesTold DEF OfficeInv, RequestInv, JobRecord, Applications, Titles
<1>2. /\ Turns(w, r) /\ upset' = upset /\ q # <<>> /\ x \in Left(w)
      /\ file'[t] = IF t = x.id THEN Result(x, file[t]) ELSE file[t]
      /\ r # <<>> => job'[w].wrote
  BY <1>1, Writing
<1>3. job'[w].todo = r /\ \A v \in Workers \ {w} : job'[v] = job[v]
  BY <1>2 DEF Turns
<1>4. TransferSound(t)
  BY <1>2 DEF TransferInv, Undisturbed
<1>5. RowsBy(t)' = IF x.op = "insert" /\ x.id \in History /\ x.patch.by = t THEN RowsBy(t) \cup {x.id} ELSE RowsBy(t)
  BY RowsWritten
<1>6. \A g, h \in RowsBy(t) : g = h
  BY <1>4 DEF TransferSound
<1>7. ~Buys(<<>>, t) /\ ~Completes(<<>>, t) /\ \A s : <<>> # <<Update(t, [status |-> s])>>
  BY IdleDeals, Tails DEF Deals
<1> HIDE DEF q, x, r
<1>8. ASSUME NEW p \in Plots, NEW to \in Members, NEW h \in History, NEW o \in History,
             q = <<Closing(o), Buying(p, to, t, h), Passing(p, to, h), Completing(t)>>
      PROVE  TransferSound(t)'
  <2> DEFINE a == Closing(o)
             b == Buying(p, to, t, h)
             c == Passing(p, to, h)
             d == Completing(t)
  <2>1. RowsBy(t) = {} /\ file[t].status = "Approved"
    BY <1>4, <1>8 DEF TransferSound, Buys, q
  <2>2. a.id = o /\ a.op = "update"
    BY WriteFields DEF Closing
  <2> HIDE DEF a
  <2>3. x = a /\ r = <<b, c, d>>
    <3> HIDE DEF b, c, d
    <3>1. q = <<a, b, c, d>>
      BY <1>8 DEF a, b, c, d
    <3> QED
      BY <3>1, Tails DEF x, r
  <2>4. file'[t].status = "Approved" /\ RowsBy(t)' = {}
    BY <1>1, <1>2, <1>5, <2>1, <2>2, <2>3
  <2>5. Len(r) = 3
    <3> HIDE DEF b, c, d
    <3> QED
      BY <2>3, Lengths
  <2>6. ~Completes(r, t)
    BY <2>5, DealLengths
  <2>7. Final(t)'
    BY <2>4 DEF Final
  <2>8. (\A g, k \in RowsBy(t) : g = k)'
    BY <2>4
  <2> QED
    BY <1>3, <1>4, <2>4, <2>6, <2>7, <2>8, TransferGoesOn DEF q
<1>9. ASSUME NEW p \in Plots, NEW to \in Members, NEW h \in History,
             q = <<Buying(p, to, t, h), Passing(p, to, h), Completing(t)>>
      PROVE  TransferSound(t)'
  <2> DEFINE b == Buying(p, to, t, h)
             c == Passing(p, to, h)
             d == Completing(t)
  <2>1. RowsBy(t) = {} /\ file[t].status = "Approved"
    BY <1>4, <1>9 DEF TransferSound, Buys, q
  <2>2. b.id = h /\ b.op = "insert" /\ b.patch.by = t
    BY WriteFields DEF Buying, OwnerRow
  <2>3. x = b /\ r = <<c, d>> /\ r # <<>>
    <3> HIDE DEF b, c, d
    <3>1. q = <<b, c, d>>
      BY <1>9 DEF b, c, d
    <3> QED
      BY <3>1, Tails DEF x, r
  <2> HIDE DEF b
  <2>4. file'[t].status = "Approved" /\ RowsBy(t)' = {h}
    BY <1>1, <1>2, <1>5, <2>1, <2>2, <2>3
  <2>5. Completes(r, t)
    BY <2>3 DEF Completes
  <2>6. Len(r) = 2
    <3> HIDE DEF c, d
    <3> QED
      BY <2>3, Lengths
  <2>7. ~Buys(r, t) /\ \A y : r # <<y>>
    BY <2>6, DealLengths
  <2>8. (\A g, k \in RowsBy(t) : g = k)'
    BY <2>4
  <2> QED
    BY <1>2, <1>3, <1>4, <2>3, <2>4, <2>5, <2>7, <2>8, TransferGoesOn DEF q
<1>10. ASSUME NEW p \in Plots, NEW to \in Members, NEW h \in History, q = <<Passing(p, to, h), Completing(t)>>
      PROVE  TransferSound(t)'
  <2> DEFINE c == Passing(p, to, h)
             d == Completing(t)
  <2>1. RowsBy(t) # {} /\ file[t].status = "Approved"
    BY <1>4, <1>10 DEF TransferSound, Completes, q
  <2>2. c.id = p /\ c.op = "update"
    BY WriteFields DEF Passing
  <2>3. x = c /\ r = <<d>> /\ r # <<>>
    <3> HIDE DEF c, d
    <3>1. q = <<c, d>>
      BY <1>10 DEF c, d
    <3> QED
      BY <3>1, Tails DEF x, r
  <2> HIDE DEF c
  <2>4. file'[t].status = "Approved" /\ RowsBy(t)' = RowsBy(t)
    BY <1>1, <1>2, <1>5, <2>1, <2>2, <2>3
  <2>5. Completes(r, t)
    BY <2>3 DEF Completes
  <2>6. Len(r) = 1
    <3> HIDE DEF d
    <3> QED
      BY <2>3, Lengths
  <2>7. ~Buys(r, t)
    BY <2>6, DealLengths
  <2>8. \A s : r = <<Update(t, [status |-> s])>> => s = "Completed"
    <3>1. ASSUME NEW s, <<Update(t, [status |-> "Completed"])>> = <<Update(t, [status |-> s])>> PROVE s = "Completed"
      <4>1. Update(t, [status |-> "Completed"]) = Update(t, [status |-> s])
        BY <3>1, Tails
      <4>2. [status |-> "Completed"] = [status |-> s]
        BY <4>1, WriteFields
      <4> QED
        BY <4>2
    <3> QED
      BY <2>3, <3>1, StatementIds
  <2>9. (\A g, k \in RowsBy(t) : g = k)'
    BY <1>6, <2>4
  <2> QED
    BY <1>2, <1>3, <1>4, <2>1, <2>3, <2>4, <2>5, <2>7, <2>8, <2>9, TransferGoesOn DEF q
<1>11. ASSUME NEW s, q = <<Update(t, [status |-> s])>> PROVE TransferSound(t)'
  <2> DEFINE y == [status |-> s]
             d == Update(t, y)
  <2>1. d.id = t /\ d.op = "update" /\ d.patch = y
    BY WriteFields
  <2>2. DOMAIN y = {"status"} /\ y.status = s
    OBVIOUS
  <2>3. x = d /\ r = <<>>
    BY <1>11, Tails DEF x, r
  <2> HIDE DEF y
  <2> HIDE DEF d
  <2>4. file'[t] = (IF file[t] # NoRow THEN Over(y, file[t]) ELSE NoRow) /\ RowsBy(t)' = RowsBy(t)
    BY <1>2, <1>5, <2>1, <2>3 DEF Result
  <2>5. (file[t] # NoRow => file'[t].status = s) /\ (file[t] = NoRow => file'[t].status = "none" /\ file[t].status = "none")
    <3>1. file[t] # NoRow => file'[t].status = s
      BY <2>2, <2>4, OverColumns
    <3>2. NoRow.status = "none"
      BY DEF NoRow
    <3> QED
      BY <2>4, <3>1, <3>2
  <2>6. CASE s = "Completed"
    <3>1. RowsBy(t) # {} /\ file[t].status = "Approved"
      BY <1>4, <1>11, <2>6, StatementIds DEF TransferSound, Completes, q
    <3>2. Final(t)'
      BY <2>4, <2>5, <2>6, <3>1 DEF Final
    <3>3. (\A g, k \in RowsBy(t) : g = k)'
      BY <1>6, <2>4
    <3> QED
      BY <1>3, <1>4, <1>7, <2>3, <3>2, <3>3, TransferGoesOn DEF q
  <2>7. CASE s # "Completed"
    <3>1. ~Completes(q, t)
      BY <1>11, <2>7, NotCompleting
    <3>2. Final(t)
      <4>1. \A v \in Workers : Deals(job[v].todo, t) => v = w
        BY <1>4 DEF TransferSound
      <4> QED
        BY <1>4, <3>1, <4>1 DEF TransferSound, Deals, q
    <3>3. s # "Rejected" => RowsBy(t) = {}
      BY <1>4, <1>11, <2>7 DEF TransferSound, q
    <3>4. Final(t)'
      BY <2>4, <2>5, <2>7, <3>2, <3>3 DEF Final
    <3>5. (\A g, k \in RowsBy(t) : g = k)'
      BY <1>6, <2>4
    <3> QED
      BY <1>3, <1>4, <1>7, <2>3, <3>4, <3>5, TransferGoesOn DEF q
  <2> QED
    BY <2>6, <2>7
<1>12. ASSUME NEW y, q = <<Insert(t, y)>>, y.status = "Draft" PROVE TransferSound(t)'
  <2> DEFINE d == Insert(t, y)
  <2>1. d.id = t /\ d.op = "insert" /\ d.patch = y
    BY WriteFields
  <2>2. x = d /\ r = <<>> /\ Len(q) = 1
    BY <1>12, Tails, DealLengths DEF x, r
  <2>3. ~Completes(q, t)
    BY <1>12, NotCompleting
  <2> HIDE DEF d
  <2>4. file[t] = NoRow
    <3>1. x = q[1] /\ 1 \in DOMAIN q
      BY <1>1, <1>2, Behead DEF x, Sequence
    <3> QED
      BY <1>1, <2>1, <2>2, <3>1 DEF FreshInv, Founds, Founded, q
  <2>5. Final(t)
    <3>1. \A v \in Workers : Deals(job[v].todo, t) => v = w
      BY <1>4 DEF TransferSound
    <3> QED
      BY <1>4, <2>3, <3>1 DEF TransferSound, Deals, q
  <2>6. RowsBy(t)' = RowsBy(t) /\ file'[t].status = "Draft" /\ RowsBy(t) = {}
    <3>1. NoRow.status = "none"
      BY DEF NoRow
    <3> QED
      BY <1>1, <1>2, <1>5, <1>12, <2>1, <2>2, <2>4, <2>5, <3>1 DEF Final, Result
  <2>7. Final(t)' /\ (\A g, k \in RowsBy(t) : g = k)'
    BY <2>6 DEF Final
  <2> QED
    BY <1>3, <1>4, <1>7, <2>2, <2>7, TransferGoesOn DEF q
<1>13. q = <<Completing(t)>> => TransferSound(t)'
  BY <1>11, StatementIds
<1> QED
  <2>1. Buys(q, t) \/ Completes(q, t) \/ TransferList(q, t)
    BY DEF Deals, q
  <2>2. CASE Buys(q, t)
    BY <1>8, <1>9, <2>2 DEF Buys
  <2>3. CASE Completes(q, t)
    BY <1>10, <1>13, <2>3 DEF Completes
  <2>4. CASE TransferList(q, t)
    BY <1>11, <1>12, <2>4 DEF TransferList
  <2> QED
    BY <2>1, <2>2, <2>3, <2>4

LEMMA EditHeads ==
  ASSUME NEW q, NEW p, NEW m, NEW g \in History, EditList(q, p, m, g)
  PROVE  \/ Head(q).id = p /\ Head(q).op = "update"
         \/ Head(q).id \in History /\ Head(q).op = "insert" /\ Head(q).patch.by = "hand"
<1>0. PICK st : EditLeft(q, p, m, g, st)
  BY DEF EditList
<1> DEFINE b == Opening(p, m, g)
           c == Moving(p, m, g, st)
<1>1. /\ b.id = g /\ b.op = "insert" /\ b.patch.by = "hand"
      /\ c.id = p /\ c.op = "update"
  BY MovingColumns, WriteFields DEF Opening, OwnerRow
<1>2. ASSUME NEW h, NEW old, NEW s
      PROVE  LET a == Ended(h, p, old, s) IN a.id = h /\ a.op = "insert" /\ a.patch.by = "hand"
  BY WriteFields DEF Ended, OwnerRow
<1>3. \/ \E a : /\ q = <<a, b, c>> \/ q = <<a, c>>
                /\ a.id \in History /\ a.op = "insert" /\ a.patch.by = "hand"
      \/ q = <<b, c>> \/ q = <<c>>
  <2>1. ASSUME NEW h \in History, NEW s, NEW old,
               q = <<Ended(h, p, old, s), b, c>> \/ q = <<Ended(h, p, old, s), c>>
        PROVE  \E a : /\ q = <<a, b, c>> \/ q = <<a, c>>
                      /\ a.id \in History /\ a.op = "insert" /\ a.patch.by = "hand"
    <3> DEFINE a == Ended(h, p, old, s)
    <3>1. a.id \in History /\ a.op = "insert" /\ a.patch.by = "hand" /\ (q = <<a, b, c>> \/ q = <<a, c>>)
      BY <1>2, <2>1
    <3> HIDE DEF a
    <3> QED
      BY <3>1
  <2> QED
    BY <1>0, <2>1 DEF EditLeft
<1> HIDE DEF b, c
<1>5. \A a : Head(<<a, b, c>>) = a /\ Head(<<a, c>>) = a /\ Head(<<b, c>>) = b /\ Head(<<c>>) = c
  BY Tails
<1> QED
  BY <1>1, <1>3, <1>5

LEMMA DeedHeads ==
  ASSUME NEW q, NEW p, NEW to, NEW t, NEW h \in History, DeedList(q, p, to, t, h)
  PROVE  \/ Head(q).id \in History \cup {p} /\ Head(q).op = "update"
         \/ Head(q).id = h /\ Head(q).op = "insert" /\ Head(q).patch.by = t
<1> DEFINE b == Buying(p, to, t, h)
           c == Passing(p, to, h)
           d == Completing(t)
<1>1. /\ b.id = h /\ b.op = "insert" /\ b.patch.by = t
      /\ c.id = p /\ c.op = "update"
  BY WriteFields DEF Buying, Passing, OwnerRow
<1>2. \A o : Closing(o).id = o /\ Closing(o).op = "update"
  BY WriteFields DEF Closing
<1>3. \/ \E a : q = <<a, b, c, d>> /\ a.id \in History /\ a.op = "update"
      \/ q = <<b, c, d>> \/ q = <<c, d>>
  BY <1>2 DEF DeedList
<1> HIDE DEF b, c, d
<1>4. \A a : Head(<<a, b, c, d>>) = a /\ Head(<<b, c, d>>) = b /\ Head(<<c, d>>) = c
  BY Tails
<1> QED
  BY <1>1, <1>3, <1>4

LEMMA DeedDeals ==
  ASSUME NEW q, NEW p \in Plots, NEW to \in Members, NEW t, NEW h \in History, DeedList(q, p, to, t, h)
  PROVE  Deals(q, t)
BY DEF DeedList, Deals, Buys, Completes

LEMMA TransferStep ==
  ASSUME OfficeInv, OfficeInv', KindInv, TransferInv, [Next]_societyVars
  PROVE  TransferInv'
<1> SUFFICES ASSUME NEW t \in Transfers, Undisturbed(t, "status")'
             PROVE  TransferSound(t)'
  BY DEF TransferInv
<1>0. t \notin History \cup Plots /\ t # "hand"
  BY TitlesTold, NamesAssumption
<1>1. CASE UNCHANGED <<file, job, upset>>
  <2>1. TransferSound(t)
    BY <1>1 DEF TransferInv, Undisturbed
  <2> QED
    BY <1>1, <2>1 DEF TransferSound, Final, RowsBy
<1>2. ASSUME NEW w \in Workers, Leaving(Titles, w) PROVE TransferSound(t)'
  <2>1. \A id \in History \cup Transfers : file'[id] = file[id]
    BY <1>2 DEF Leaving, Titles
  <2>2. ~Deals(job[w].todo, t) /\ ~Deals(job'[w].todo, t)
    BY <1>2, SparesDeals DEF Leaving
  <2> QED
    BY <1>2, <2>1, <2>2, RowsKept, TransferStays DEF Leaving
<1>3. ASSUME NEW w \in Workers, NEW q, Begin(w, q), Sequence(q), ~Deals(q, t) PROVE TransferSound(t)'
  <2>1. Turns(w, q) /\ file' = file /\ upset \subseteq upset' /\ job[w] = Idle
    BY <1>3, Beginning DEF OfficeInv
  <2>2. job'[w].todo = q /\ \A v \in Workers \ {w} : job'[v] = job[v]
    BY <2>1 DEF Turns
  <2>3. RowsBy(t)' = RowsBy(t)
    BY <2>1, RowsKept
  <2> QED
    BY <1>3, <2>1, <2>2, <2>3, IdleDeals, TransferStays
<1>4. ASSUME NEW w \in Workers, TitleBegins(w) PROVE TransferSound(t)'
  <2>1. ASSUME NEW p \in Plots, NEW m, NEW h, NEW g, NEW q, EditBegins(w, p, m, h, g, q) PROVE TransferSound(t)'
    <3>1. Target(q) = p
      BY <2>1, TitleTargets DEF EditBegins
    <3> QED
      BY <1>0, <1>3, <2>1, <3>1, DealsLast DEF EditBegins
  <2>2. ASSUME NEW u \in Transfers, NEW q, StatusBegins(w, u, q) PROVE TransferSound(t)'
    <3>1. TransferList(q, u) /\ Begin(w, q) /\ Sequence(q)
      BY <2>2 DEF StatusBegins, TransferList
    <3>2. CASE u # t
      BY <1>3, <3>1, <3>2, TitleTargets, DealsLast
    <3>3. CASE u = t
      <4>1. ~Completes(q, t) /\ ~Buys(q, t)
        BY <2>2, <3>3, NotCompleting DEF StatusBegins
      <4>2. ASSUME NEW s, q = <<Update(t, [status |-> s])>>, s # "Rejected"
            PROVE  file[t].status \notin {"Completed", "Rejected"}
        <5>1. ASSUME NEW r, q = <<Insert(t, r)>> PROVE FALSE
          <6> DEFINE a == Insert(t, r)
                     b == Update(t, [status |-> s])
          <6>1. a.op # b.op
            BY WriteFields
          <6>2. <<a>> = <<b>>
            BY <4>2, <5>1
          <6> HIDE DEF a, b
          <6> QED
            BY <6>1, <6>2, Tails
        <5>2. ASSUME NEW s2, q = <<Update(t, [status |-> s2])>> PROVE s2 = s
          <6> DEFINE a == Update(t, [status |-> s2])
                     b == Update(t, [status |-> s])
          <6>1. <<a>> = <<b>>
            BY <4>2, <5>2
          <6>2. a.patch = [status |-> s2] /\ b.patch = [status |-> s]
            BY WriteFields
          <6> HIDE DEF a, b
          <6>3. [status |-> s2] = [status |-> s]
            BY <6>1, <6>2, Tails
          <6> QED
            BY <6>3
        <5> QED
          BY <2>2, <3>3, <4>2, <5>1, <5>2 DEF StatusBegins
      <4>3. Deals(q, t)
        BY <3>1, <3>3 DEF Deals
      <4> QED
        BY <3>1, <4>1, <4>2, <4>3, TransferBegins
    <3> QED
      BY <3>2, <3>3
  <2>3. ASSUME NEW p \in Plots, NEW to \in Members, NEW u \in Transfers, NEW h \in History, NEW q,
               DeedBegins(w, p, to, u, h, q)
        PROVE  TransferSound(t)'
    <3>1. DeedList(q, p, to, u, h) /\ Begin(w, q) /\ Sequence(q) /\ file[u].status = "Approved"
      BY <2>3 DEF DeedBegins
    <3>2. CASE u # t
      BY <1>3, <3>1, <3>2, TitleTargets, DealsLast
    <3>3. CASE u = t
      <4>1. Len(q) \in {3, 4}
        <5>1. \A o : Len(<<Closing(o), Buying(p, to, u, h), Passing(p, to, h), Completing(u)>>) = 4
          BY Lengths
        <5>2. Len(<<Buying(p, to, u, h), Passing(p, to, h), Completing(u)>>) = 3
          BY Lengths
        <5> QED
          BY <2>3, <5>1, <5>2 DEF DeedBegins
      <4>2. ~Completes(q, t) /\ \A s : q # <<Update(t, [status |-> s])>>
        BY <4>1, DealLengths
      <4> QED
        BY <3>1, <3>3, <4>2, DeedDeals, TransferBegins
    <3> QED
      BY <3>2, <3>3
  <2> QED
    BY <1>4, <2>1, <2>2, <2>3 DEF TitleBegins
<1>5. ASSUME NEW w \in Workers, TitleList(job[w].todo), Write(w) PROVE TransferSound(t)'
  <2> DEFINE q == job[w].todo
  <2>1. ASSUME NEW p \in Plots, NEW m, NEW g \in History, EditList(q, p, m, g) PROVE TransferSound(t)'
    <3>1. Target(q) = p
      BY <2>1, TitleTargets
    <3>2. \/ Head(q).id = p /\ Head(q).op = "update"
          \/ Head(q).id \in History /\ Head(q).op = "insert" /\ Head(q).patch.by = "hand"
      BY <2>1, EditHeads
    <3> QED
      BY <1>0, <1>5, <3>1, <3>2, OtherWrites
  <2>2. ASSUME NEW p \in Plots, NEW to \in Members, NEW u \in Transfers, NEW h \in History, DeedList(q, p, to, u, h)
        PROVE  TransferSound(t)'
    <3>1. CASE u = t
      BY <1>5, <2>2, <3>1, DeedDeals, DealsWrites
    <3>2. CASE u # t
      <4>1. Target(q) = u
        BY <2>2, TitleTargets
      <4>2. \/ Head(q).id \in History \cup {p} /\ Head(q).op = "update"
            \/ Head(q).id = h /\ Head(q).op = "insert" /\ Head(q).patch.by = u
        BY <2>2, DeedHeads
      <4> QED
        BY <1>0, <1>5, <3>2, <4>1, <4>2, OtherWrites
    <3> QED
      BY <3>1, <3>2
  <2>3. ASSUME NEW u \in Transfers, TransferList(q, u) PROVE TransferSound(t)'
    <3>1. CASE u = t
      BY <1>5, <2>3, <3>1, DealsWrites DEF Deals
    <3>2. CASE u # t
      <4>1. Target(q) = u
        BY <2>3, TitleTargets
      <4>2. Head(q).id = u
        <5>1. ASSUME NEW r, q = <<Insert(u, r)>> \/ q = <<Update(u, r)>> PROVE Head(q).id = u
          BY <5>1, Tails, StatementIds
        <5> QED
          BY <2>3, <5>1 DEF TransferList
      <4>3. u \notin History
        BY TitlesTold
      <4> QED
        BY <1>5, <3>2, <4>1, <4>2, <4>3, OtherWrites
    <3> QED
      BY <3>1, <3>2
  <2> QED
    BY <1>5, <2>1, <2>2, <2>3 DEF TitleList
<1>6. ASSUME NEW w \in Workers, Die(w) PROVE TransferSound(t)'
  BY <1>6, TransferDies
<1> QED
  BY <1>1, <1>2, <1>4, <1>5, <1>6, TitleMoves

LEMMA TransferInit ==
  ASSUME Init
  PROVE  TransferInv
<1>1. job = [w \in Workers |-> Idle] /\ file = Allotted(First, Owner)
  BY DEF Init, TitleInit, RequestsInit
<1>2. \A w \in Workers : job[w].todo = <<>>
  BY <1>1, IdleJob
<1>3. ASSUME NEW t \in Transfers PROVE RowsBy(t) = {} /\ file[t].status = "none"
  <2>1. ASSUME NEW h \in History, file[h] # NoRow PROVE file[h].by = None
    <3>1. h \in Ids /\ h \notin Plots
      BY MainTablesApart, TitlesTold DEF Applications
    <3>2. PICK p \in Plots : file[h] = OwnerRow(p, Owner[p], h, None)
      BY <1>1, <2>1, <3>1 DEF Allotted
    <3> QED
      BY <3>2 DEF OwnerRow
  <2>2. file[t] = NoRow
    <3>1. t \in Ids /\ t \notin Plots /\ \A p \in Plots : t # First[p]
      BY MainTablesApart, TitlesTold, OwnersAssumption DEF Applications
    <3> QED
      BY <1>1, <3>1 DEF Allotted
  <2> QED
    BY <2>1, <2>2, NamesAssumption DEF RowsBy, NoRow
<1>4. ASSUME NEW t PROVE ~Deals(<<>>, t)
  BY IdleDeals
<1>5. ASSUME NEW t \in Transfers PROVE TransferSound(t)
  <2>1. \A w \in Workers : ~Deals(job[w].todo, t) /\ ~Buys(job[w].todo, t) /\ ~Completes(job[w].todo, t)
    BY <1>2, <1>4 DEF Deals
  <2>2. \A s : <<>> # <<Update(t, [status |-> s])>>
    BY Tails
  <2> QED
    BY <1>2, <1>3, <2>1, <2>2 DEF TransferSound, Final
<1> QED
  BY <1>5 DEF TransferInv

\* A transfer's completion adds the buyer's row, changes the owner and only then is
\* recorded (transfers/service.js:181); still no transfer moves its plot twice, or
\* moves it and is not Completed, unless another request was about its status at once
\* or one broke off.
THEOREM TransfersMoveOnce == Spec => []TransferMovesOnce
<1>1. Init => TransferInv
  BY TransferInit
<1>2. OfficeInv /\ OfficeInv' /\ KindInv /\ TransferInv /\ [Next]_societyVars => TransferInv'
  BY TransferStep
<1>3. OfficeInv /\ TransferInv => TransferMovesOnce
  <2> SUFFICES ASSUME OfficeInv, TransferInv, NEW t \in Transfers, Undisturbed(t, "status"), AtRest(t, "status")
               PROVE  (\A g, h \in RowsBy(t) : g = h) /\ Final(t)
    BY DEF TransferMovesOnce, Final
  <2>1. TransferSound(t)
    BY DEF TransferInv
  <2>2. ASSUME NEW w \in Workers, Completes(job[w].todo, t) PROVE FALSE
    <3>1. PICK x \in Left(w) : x.id = t /\ x.op \in {"insert", "update"} /\ (x.op = "update" => "status" \in DOMAIN x.patch)
      BY <2>2, DealsLast DEF Left, Deals
    <3>2. "status" \in DOMAIN x.patch
      <4>1. Fits(x)
        BY DEF OfficeInv, RowInv
      <4> QED
        BY <3>1, <4>1 DEF Fits, Typed, TransfersRow
    <3> QED
      BY <3>1, <3>2, PendingColumns DEF AtRest
  <2> QED
    BY <2>1, <2>2 DEF TransferSound
<1> QED
  BY <1>1, <1>2, <1>3, OfficeSound, KindsSound, PTL DEF Spec

-----------------------------------------------------------------------------
(* The owner on record                                                     *)

\* The history of a plot.
Book(p) == [h \in RowsOf(p) |-> file[h]]

\* The interval a row began is not shown as closed; another interval of its member;
\* an edit has been recorded.
Current(b, s) == s \in DOMAIN b /\ b[s].status = "open" /\ \A k \in DOMAIN b : b[k].since = s => k = s
Another(b, s) == \E k \in DOMAIN b : b[k].member = b[s].member /\ b[k].since # s
ByHand(b)     == \E h \in DOMAIN b : b[h].by = "hand"

\* A row belongs to the interval that a row of the same member began.
Begun(b) ==
  \A h \in DOMAIN b :
    /\ b[h].status \in {"open", "closed"}
    /\ b[h].since \in DOMAIN b
    /\ b[b[h].since].member = b[h].member /\ b[b[h].since].since = b[h].since
    /\ b[h].status = "open" => b[h].since = h

\* What a history says when m owns the plot since s, and when all owners are former.
OnRecord(b, m, s) ==
  /\ m # None => Current(b, s) /\ b[s].member = m
  /\ \A k \in DOMAIN b : Current(b, k) /\ (m = None \/ k # s) => Another(b, k)
  /\ ByHand(b) \/ (m # None /\ \A k \in DOMAIN b : b[k].status = "open" => k = s)

Former(b) == \A k \in DOMAIN b : Current(b, k) => Another(b, k)

\* A row r is added as g; a row is closed.
Adds(b, g, r, b2) ==
  /\ g \notin DOMAIN b /\ DOMAIN b2 = DOMAIN b \cup {g}
  /\ b2[g] = r /\ \A h \in DOMAIN b : b2[h] = b[h]

Closes(b, o, b2) ==
  /\ o \in DOMAIN b /\ DOMAIN b2 = DOMAIN b
  /\ \A h \in DOMAIN b :
       /\ b2[h].member = b[h].member /\ b2[h].since = b[h].since /\ b2[h].by = b[h].by
       /\ b2[h].status = IF h = o THEN "closed" ELSE b[h].status

\* An edit adds the old owner's interval once more, closed.
LEMMA EndsInterval ==
  ASSUME NEW b, NEW b2, NEW m, NEW s, NEW h, NEW r, Begun(b), OnRecord(b, m, s), m # None,
         Adds(b, h, r, b2), r.status = "closed", r.member = m, r.since = s, r.by = "hand"
  PROVE  Begun(b2) /\ Former(b2) /\ ByHand(b2)
<1>1. s \in DOMAIN b /\ b[s].member = m /\ b[s].since = s /\ b[s].status = "open"
  BY DEF OnRecord, Current, Begun
<1>2. Begun(b2)
  BY <1>1 DEF Begun, Adds
<1>3. ByHand(b2)
  BY DEF ByHand, Adds
<1>4. ASSUME NEW k \in DOMAIN b2, Current(b2, k) PROVE Another(b2, k)
  <2>1. k \in DOMAIN b /\ k # s
    BY <1>1, <1>4 DEF Current, Adds
  <2>2. Current(b, k)
    BY <1>4, <2>1 DEF Current, Adds
  <2>3. Another(b, k)
    BY <2>1, <2>2 DEF OnRecord
  <2> QED
    BY <2>1, <2>3 DEF Another, Adds
<1> QED
  BY <1>2, <1>3, <1>4 DEF Former

\* The new owner's row begins his interval.
LEMMA BeginsInterval ==
  ASSUME NEW b, NEW b2, NEW m, NEW g, NEW r, Begun(b), Former(b), m # None,
         Adds(b, g, r, b2), r.status = "open", r.member = m, r.since = g,
         r.by = "hand" \/ ByHand(b) \/ \A k \in DOMAIN b : b[k].status # "open"
  PROVE  Begun(b2) /\ OnRecord(b2, m, g)
<1>1. Begun(b2)
  BY DEF Begun, Adds
<1>2. Current(b2, g) /\ b2[g].member = m
  BY DEF Begun, Adds, Current
<1>3. ASSUME NEW k \in DOMAIN b2, Current(b2, k), k # g PROVE Another(b2, k)
  <2>1. k \in DOMAIN b /\ Current(b, k)
    BY <1>3 DEF Current, Adds
  <2>2. Another(b, k)
    BY <2>1 DEF Former
  <2> QED
    BY <2>1, <2>2 DEF Another, Adds
<1>4. ByHand(b2) \/ \A k \in DOMAIN b2 : b2[k].status = "open" => k = g
  BY DEF ByHand, Adds
<1> QED
  BY <1>1, <1>2, <1>3, <1>4 DEF OnRecord

\* Completion closes an open row of the owner, which need not be that of his interval.
LEMMA ClosesInterval ==
  ASSUME NEW b, NEW b2, NEW m, NEW s, NEW o, Begun(b), OnRecord(b, m, s), m # None,
         Closes(b, o, b2), b[o].status = "open", b[o].member = m
  PROVE  Begun(b2) /\ Former(b2) /\ (ByHand(b2) \/ \A k \in DOMAIN b2 : b2[k].status # "open")
<1>1. s \in DOMAIN b /\ b[s].member = m /\ b[s].since = s /\ b[o].since = o
  BY DEF OnRecord, Current, Begun, Closes
<1>2. Begun(b2)
  BY DEF Begun, Closes
<1>3. ASSUME NEW k \in DOMAIN b2, Current(b2, k) PROVE Another(b2, k)
  <2>1. k \in DOMAIN b /\ k # o /\ Current(b, k)
    BY <1>3 DEF Current, Closes
  <2>2. CASE k # s
    BY <2>1, <2>2 DEF OnRecord, Another, Closes
  <2>3. CASE k = s
    BY <1>1, <2>1, <2>3 DEF Another, Closes
  <2> QED
    BY <2>2, <2>3
<1>4. ByHand(b) => ByHand(b2)
  BY DEF ByHand, Closes
<1>5. ASSUME ~ByHand(b), NEW k \in DOMAIN b2 PROVE b2[k].status # "open"
  BY <1>5 DEF OnRecord, Closes
<1> QED
  BY <1>2, <1>3, <1>4, <1>5 DEF Former

LEMMA Nobody ==
  ASSUME NEW b, NEW s
  PROVE  OnRecord(b, None, s) <=> Former(b) /\ ByHand(b)
BY DEF OnRecord, Former

-----------------------------------------------------------------------------
(* Requests that change the owner of a plot                                *)

\* A request is about to change the owner of p.
Changes(q, p) ==
  \/ \E m \in Members \cup {None}, g \in History : EditList(q, p, m, g)
  \/ \E to \in Members, t \in Transfers, h \in History : DeedList(q, p, to, t, h)

\* What is true of p meanwhile, by what the request has left to write.
Replacing3(w, p) ==
  \E m, old \in Members, g, h, s \in History :
    /\ \E st : job[w].todo = <<Ended(h, p, old, s), Opening(p, m, g), Moving(p, m, g, st)>>
    /\ old = file[p].owner /\ s = file[p].since /\ OnRecord(Book(p), old, s)

Removing2(w, p) ==
  \E old \in Members, g, h, s \in History :
    /\ \E st : job[w].todo = <<Ended(h, p, old, s), Moving(p, None, g, st)>>
    /\ old = file[p].owner /\ s = file[p].since /\ OnRecord(Book(p), old, s)

Opening2(w, p) ==
  \E m \in Members, g \in History :
    /\ \E st : job[w].todo = <<Opening(p, m, g), Moving(p, m, g, st)>>
    /\ Former(Book(p)) /\ ByHand(Book(p)) /\ (job[w].wrote \/ file[p].owner = None)

Moving1(w, p) ==
  \E m \in Members \cup {None}, g \in History :
    /\ \E st : job[w].todo = <<Moving(p, m, g, st)>>
    /\ job[w].wrote /\ OnRecord(Book(p), m, g)

Closing4(w, p) ==
  \E to \in Members, t \in Transfers, o, h \in History :
    /\ job[w].todo = <<Closing(o), Buying(p, to, t, h), Passing(p, to, h), Completing(t)>>
    /\ OnRecord(Book(p), file[p].owner, file[p].since) /\ file[p].owner # None
    /\ o \in DOMAIN Book(p) /\ Book(p)[o].status = "open" /\ Book(p)[o].member = file[p].owner

Buying3(w, p) ==
  \E to \in Members, t \in Transfers, h \in History :
    /\ job[w].todo = <<Buying(p, to, t, h), Passing(p, to, h), Completing(t)>>
    /\ job[w].wrote /\ Former(Book(p))
    /\ ByHand(Book(p)) \/ \A k \in DOMAIN Book(p) : Book(p)[k].status # "open"

Passing2(w, p) ==
  \E to \in Members, t \in Transfers, h \in History :
    job[w].todo = <<Passing(p, to, h), Completing(t)>> /\ job[w].wrote /\ OnRecord(Book(p), to, h)

Changing(w, p) ==
  \/ Replacing3(w, p) \/ Removing2(w, p) \/ Opening2(w, p) \/ Moving1(w, p)
  \/ Closing4(w, p) \/ Buying3(w, p) \/ Passing2(w, p)

OwnerSound(p) ==
  /\ Begun(Book(p))
  /\ \A v, w \in Workers : Changes(job[v].todo, p) /\ Changes(job[w].todo, p) => v = w
  /\ (\A w \in Workers : ~Changes(job[w].todo, p)) => OnRecord(Book(p), file[p].owner, file[p].since)
  /\ \A w \in Workers : Changes(job[w].todo, p) => Changing(w, p)

\* A completion is about to close a row, which is one of its plot.
Closer(q) ==
  \E p \in Plots, to \in Members, t \in Transfers, o, h \in History :
    q = <<Closing(o), Buying(p, to, t, h), Passing(p, to, h), Completing(t)>>

ClosingInv ==
  \A w \in Workers : Closer(job[w].todo) => Head(job[w].todo).id \in RowsOf(job[w].todo[3].id)

OwnerInv == ClosingInv /\ \A p \in Plots : Undisturbed(p, "owner") => OwnerSound(p)

\* The statement before the last.
Middle(q) == q[Len(q) - 1].id

LEMMA DeedMiddle ==
  ASSUME NEW q, NEW p, NEW to, NEW t, NEW h, DeedList(q, p, to, t, h)
  PROVE  Middle(q) = p /\ Len(q) \in {2, 3, 4}
<1> DEFINE b == Buying(p, to, t, h)
           c == Passing(p, to, h)
           d == Completing(t)
<1>1. \E a : q = <<a, b, c, d>> \/ q = <<b, c, d>> \/ q = <<c, d>>
  BY DEF DeedList
<1>2. c.id = p
  BY StatementIds
<1> HIDE DEF b, c, d
<1>3. PICK a : q = <<a, b, c, d>> \/ q = <<b, c, d>> \/ q = <<c, d>>
  BY <1>1
<1>4. /\ Middle(<<a, b, c, d>>) = p /\ Middle(<<b, c, d>>) = p /\ Middle(<<c, d>>) = p
      /\ Len(<<a, b, c, d>>) = 4 /\ Len(<<b, c, d>>) = 3 /\ Len(<<c, d>>) = 2
  BY <1>2 DEF Middle
<1> QED
  BY ONLY <1>3, <1>4

LEMMA MiddleStays ==
  ASSUME NEW q, Sequence(q), q # <<>>, Len(Tail(q)) \in {2, 3, 4}
  PROVE  Middle(Tail(q)) = Middle(q)
<1>1. Len(q) \in Nat /\ Len(Tail(q)) = Len(q) - 1 /\ Len(q) \in {3, 4, 5}
  BY DEF Sequence
<1>2. Tail(q)[Len(q) - 2] = q[Len(q) - 1]
  BY <1>1 DEF Sequence
<1> QED
  BY <1>1, <1>2 DEF Middle

\* Which plot a list is about.
LEMMA ChangesTold ==
  ASSUME NEW q, NEW p \in Plots, Changes(q, p)
  PROVE  /\ q # <<>>
         /\ \/ Target(q) = p
            \/ Target(q) \in Transfers /\ Middle(q) = p /\ Len(q) \in {2, 3, 4}
         /\ \E x \in ToSet(q) : x.id = p /\ x.op = "update" /\ "owner" \in DOMAIN x.patch
<1>1. /\ \A m, s, st : /\ Moving(p, m, s, st).id = p /\ Moving(p, m, s, st).op = "update"
                        /\ "owner" \in DOMAIN Moving(p, m, s, st).patch
      /\ \A m, s : Passing(p, m, s).id = p /\ Passing(p, m, s).op = "update" /\ "owner" \in DOMAIN Passing(p, m, s).patch
  BY MovingColumns, WriteFields DEF Passing
<1>2. ASSUME NEW m, NEW g \in History, EditList(q, p, m, g)
      PROVE  q # <<>> /\ Target(q) = p /\ \E st : Moving(p, m, g, st) \in ToSet(q)
  <2>0. PICK st : EditLeft(q, p, m, g, st)
    BY <1>2 DEF EditList
  <2> DEFINE c == Moving(p, m, g, st)
  <2>1. \E a, b : q = <<a, b, c>> \/ q = <<b, c>> \/ q = <<c>>
    BY <2>0 DEF EditLeft
  <2>2. ASSUME NEW a, NEW b
        PROVE  /\ c \in ToSet(<<a, b, c>>) /\ c \in ToSet(<<b, c>>) /\ c \in ToSet(<<c>>)
               /\ <<a, b, c>> # <<>> /\ <<b, c>> # <<>> /\ <<c>> # <<>>
    BY Tuple1, Tuple2, Tuple3
  <2>3. c \in ToSet(q) /\ q # <<>>
    <3> HIDE DEF c
    <3> QED
      BY <2>1, <2>2
  <2> QED
    BY <1>2, <2>3, TitleTargets
<1>3. ASSUME NEW to, NEW t \in Transfers, NEW h \in History, DeedList(q, p, to, t, h)
      PROVE  q # <<>> /\ Target(q) = t /\ Passing(p, to, h) \in ToSet(q)
  <2> DEFINE c == Passing(p, to, h)
             d == Completing(t)
  <2>1. \E a, b : q = <<a, b, c, d>> \/ q = <<b, c, d>> \/ q = <<c, d>>
    BY <1>3 DEF DeedList
  <2>2. ASSUME NEW a, NEW b
        PROVE  /\ c \in ToSet(<<a, b, c, d>>) /\ c \in ToSet(<<b, c, d>>) /\ c \in ToSet(<<c, d>>)
               /\ <<a, b, c, d>> # <<>> /\ <<b, c, d>> # <<>> /\ <<c, d>> # <<>>
    BY Tuple2, Tuple3, Tuple4
  <2>3. c \in ToSet(q) /\ q # <<>>
    <3> HIDE DEF c, d
    <3> QED
      BY <2>1, <2>2
  <2> QED
    BY <1>3, <2>3, TitleTargets
<1>4. ASSUME NEW m, NEW g \in History, EditList(q, p, m, g)
      PROVE  /\ q # <<>> /\ Target(q) = p
             /\ \E x \in ToSet(q) : x.id = p /\ x.op = "update" /\ "owner" \in DOMAIN x.patch
  BY <1>1, <1>2, <1>4
<1>5. ASSUME NEW to, NEW t \in Transfers, NEW h \in History, DeedList(q, p, to, t, h)
      PROVE  /\ q # <<>> /\ Target(q) \in Transfers /\ Middle(q) = p /\ Len(q) \in {2, 3, 4}
             /\ \E x \in ToSet(q) : x.id = p /\ x.op = "update" /\ "owner" \in DOMAIN x.patch
  BY <1>1, <1>3, <1>5, DeedMiddle
<1> QED
  BY <1>4, <1>5 DEF Changes

\* A request about titles changes the owner of one plot, before and after a statement.
LEMMA ChangesOnce ==
  ASSUME NEW q, Sequence(q), NEW p \in Plots
  PROVE  /\ \A r \in Plots : Changes(q, p) /\ Changes(q, r) => p = r
         /\ \A t \in Transfers : TransferList(q, t) => ~Changes(q, p)
         /\ q # <<>> /\ TitleList(q) /\ Changes(Tail(q), p) => Changes(q, p)
<1>1. \A r \in Plots : Changes(q, p) /\ Changes(q, r) => p = r
  BY ChangesTold, TitlesTold
<1>2. ASSUME NEW t \in Transfers, TransferList(q, t) PROVE ~Changes(q, p) /\ Tail(q) = <<>>
  <2>1. Target(q) = t
    BY <1>2, TitleTargets
  <2>2. ASSUME NEW x, q = <<x>> PROVE Len(q) = 1 /\ Tail(q) = <<>>
    BY <2>2, Tails
  <2>3. \E x : q = <<x>>
    <3>1. (\E status : q = <<Update(t, [status |-> status])>>) \/ (\E r : q = <<Insert(t, r)>>)
      BY <1>2 DEF TransferList
    <3> QED
      BY <3>1
  <2> QED
    BY <2>1, <2>2, <2>3, ChangesTold, TitlesTold
<1>3. ASSUME q # <<>>, TitleList(q), Changes(Tail(q), p) PROVE Changes(q, p)
  <2>1. Tail(q) # <<>> /\ Target(Tail(q)) = Target(q)
    BY <1>3, ChangesTold, TargetStays
  <2>2. \E r \in Plots : Changes(q, r)
    <3>1. ~\E t \in Transfers : TransferList(q, t)
      BY <1>2, <2>1
    <3> QED
      BY <1>3, <3>1 DEF TitleList, Changes
  <2>3. PICK r \in Plots : Changes(q, r)
    BY <2>2
  <2>4. CASE Target(Tail(q)) = p
    <3>1. Target(q) \notin Transfers
      BY <2>1, <2>4, TitlesTold
    <3>2. Target(q) = r
      BY <2>3, <3>1, ChangesTold
    <3> QED
      BY <2>1, <2>3, <2>4, <3>2
  <2>5. CASE Target(Tail(q)) # p
    <3>1. Target(Tail(q)) \in Transfers /\ Middle(Tail(q)) = p /\ Len(Tail(q)) \in {2, 3, 4}
      BY <1>3, <2>5, ChangesTold
    <3>2. Middle(q) = p
      BY <1>3, <3>1, MiddleStays
    <3>3. Target(q) # r
      BY <2>1, <3>1, TitlesTold
    <3>4. Middle(q) = r
      BY <2>3, <3>3, ChangesTold
    <3> QED
      BY <2>3, <3>2, <3>4
  <2> QED
    BY <2>4, <2>5
<1> QED
  BY <1>1, <1>2, <1>3

LEMMA SparesChanges ==
  ASSUME NEW q, NEW p \in Plots, Sparing(Titles, q)
  PROVE  ~Changes(q, p)
<1>1. ASSUME Changes(q, p) PROVE FALSE
  <2>1. PICK x \in ToSet(q) : x.id = p /\ x.op = "update" /\ "owner" \in DOMAIN x.patch
    BY <1>1, ChangesTold
  <2> QED
    BY <2>1 DEF Sparing, Spares, Titles, Telling
<1> QED
  BY <1>1

LEMMA IdleChanges == ASSUME NEW p \in Plots PROVE ~Changes(<<>>, p) /\ ~Changes(Idle.todo, p)
BY ChangesTold, IdleJob

\* A step that is not about p.
LEMMA PlotStays ==
  ASSUME NEW p \in Plots, NEW w \in Workers, OwnerSound(p), Book(p)' = Book(p),
         file'[p].owner = file[p].owner, file'[p].since = file[p].since,
         \A v \in Workers \ {w} : job'[v] = job[v],
         ~Changes(job[w].todo, p), ~Changes(job'[w].todo, p)
  PROVE  OwnerSound(p)'
<1>1. Begun(Book(p))'
  BY DEF OwnerSound
<1>2. \A v \in Workers : Changes(job'[v].todo, p) <=> Changes(job[v].todo, p)
  OBVIOUS
<1>3. (\A u, v \in Workers : Changes(job[u].todo, p) /\ Changes(job[v].todo, p) => u = v)'
  <2>1. \A u, v \in Workers : Changes(job[u].todo, p) /\ Changes(job[v].todo, p) => u = v
    BY DEF OwnerSound
  <2> QED
    BY <1>2, <2>1
<1>4. ((\A v \in Workers : ~Changes(job[v].todo, p)) => OnRecord(Book(p), file[p].owner, file[p].since))'
  BY <1>2 DEF OwnerSound
<1>5. ASSUME NEW v \in Workers, Changes(job'[v].todo, p) PROVE Changing(v, p)'
  <2>1. v # w /\ job'[v] = job[v] /\ Changing(v, p)
    BY <1>2, <1>5 DEF OwnerSound
  <2>2. Replacing3(v, p) => Replacing3(v, p)'
    BY <2>1 DEF Replacing3
  <2>3. Removing2(v, p) => Removing2(v, p)'
    BY <2>1 DEF Removing2
  <2>4. Opening2(v, p) => Opening2(v, p)'
    BY <2>1 DEF Opening2
  <2>5. Moving1(v, p) => Moving1(v, p)'
    BY <2>1 DEF Moving1
  <2>6. Closing4(v, p) => Closing4(v, p)'
    BY <2>1 DEF Closing4
  <2>7. Buying3(v, p) => Buying3(v, p)'
    BY <2>1 DEF Buying3
  <2>8. Passing2(v, p) => Passing2(v, p)'
    BY <2>1 DEF Passing2
  <2> QED
    BY <2>1, <2>2, <2>3, <2>4, <2>5, <2>6, <2>7, <2>8 DEF Changing
<1> QED
  BY <1>1, <1>3, <1>4, <1>5 DEF OwnerSound

\* The one request about p goes on.
LEMMA PlotGoesOn ==
  ASSUME NEW p \in Plots, NEW w \in Workers, \A v \in Workers \ {w} : ~Changes(job[v].todo, p),
         \A v \in Workers \ {w} : job'[v] = job[v],
         Begun(Book(p))',
         Changes(job'[w].todo, p) => Changing(w, p)',
         ~Changes(job'[w].todo, p) => OnRecord(Book(p), file[p].owner, file[p].since)'
  PROVE  OwnerSound(p)'
<1>1. \A v \in Workers \ {w} : ~Changes(job'[v].todo, p)
  OBVIOUS
<1>2. (\A u, v \in Workers : Changes(job[u].todo, p) /\ Changes(job[v].todo, p) => u = v)'
  BY <1>1
<1>3. ((\A v \in Workers : ~Changes(job[v].todo, p)) => OnRecord(Book(p), file[p].owner, file[p].since))'
  OBVIOUS
<1>4. (\A v \in Workers : Changes(job[v].todo, p) => Changing(v, p))'
  BY <1>1
<1> QED
  BY <1>2, <1>3, <1>4 DEF OwnerSound

LEMMA NoRowStatus == NoRow.status = "none"
BY DEF NoRow

LEMMA BookKept ==
  ASSUME \A h \in History : file'[h] = file[h], NEW p
  PROVE  Book(p)' = Book(p)
<1>1. RowsOf(p)' = RowsOf(p)
  BY DEF RowsOf
<1>2. \A h \in RowsOf(p) : file'[h] = file[h]
  BY DEF RowsOf
<1> QED
  BY <1>1, <1>2 DEF Book

\* A request that changes the owner of p begins: no other may be about to.
LEMMA ChangeAlone ==
  ASSUME OfficeInv, NEW w \in Workers, NEW q, Begin(w, q), Sequence(q), NEW p \in Plots, OwnerSound(p),
         Changes(q, p), Undisturbed(p, "owner")'
  PROVE  /\ \A v \in Workers : ~Changes(job[v].todo, p)
         /\ OnRecord(Book(p), file[p].owner, file[p].since)
         /\ job'[w].todo = q /\ \A v \in Workers \ {w} : job'[v] = job[v]
         /\ file' = file /\ Book(p)' = Book(p)
<1>1. Turns(w, q) /\ file' = file /\ job[w] = Idle
  BY Beginning DEF OfficeInv
<1>2. ASSUME NEW v \in Workers \ {w}, Changes(job[v].todo, p) PROVE FALSE
  <2>1. PICK y \in Left(v) : y.id = p /\ y.op = "update" /\ "owner" \in DOMAIN y.patch
    BY <1>2, ChangesTold DEF Left
  <2>2. PICK x \in ToSet(q) : x.id = p /\ x.op = "update" /\ "owner" \in DOMAIN x.patch
    BY ChangesTold
  <2>3. <<p, "owner">> \in Pending(v)
    BY <2>1, PendingColumns
  <2>4. <<p, "owner">> \in upset'
    BY <2>2, <2>3, Collides DEF OfficeInv
  <2> QED
    BY <2>4 DEF Undisturbed
<1>3. \A v \in Workers : ~Changes(job[v].todo, p)
  BY <1>1, <1>2, IdleChanges
<1>4. OnRecord(Book(p), file[p].owner, file[p].since)
  BY <1>3 DEF OwnerSound
<1> QED
  BY <1>1, <1>3, <1>4, BookKept DEF Turns

LEMMA EditBeginsSound ==
  ASSUME OfficeInv, NEW w \in Workers, NEW p \in Plots, NEW m \in Members \cup {None}, NEW h \in History,
         NEW g \in History, NEW q, EditBegins(w, p, m, h, g, q), OwnerSound(p), Undisturbed(p, "owner")'
  PROVE  OwnerSound(p)'
<1>1. Begin(w, q) /\ Sequence(q) /\ Changes(q, p)
  BY DEF EditBegins, Changes
<1>2. /\ \A v \in Workers : ~Changes(job[v].todo, p)
      /\ OnRecord(Book(p), file[p].owner, file[p].since)
      /\ job'[w].todo = q /\ \A v \in Workers \ {w} : job'[v] = job[v]
      /\ file' = file /\ Book(p)' = Book(p)
  BY <1>1, ChangeAlone
<1> DEFINE old == file[p].owner
           s == file[p].since
<1>3. old # None => s \in History
  <2>1. PlotRow(file[p])
    BY TitlesTold DEF OfficeInv, RowInv, Typed, Titles
  <2> QED
    BY <2>1 DEF PlotRow
<1>0. PICK st :
        LET last == Moving(p, m, g, st) IN
        \/ old \in Members /\ m # None /\ q = <<Ended(h, p, old, s), Opening(p, m, g), last>>
        \/ old \in Members /\ m = None /\ q = <<Ended(h, p, old, s), last>>
        \/ old = None /\ m # None /\ q = <<Opening(p, m, g), last>>
  BY DEF EditBegins
<1>4. CASE old \in Members /\ m # None /\ q = <<Ended(h, p, old, s), Opening(p, m, g), Moving(p, m, g, st)>>
  <2>1. Replacing3(w, p)'
    BY <1>2, <1>3, <1>4, NamesAssumption DEF Replacing3
  <2> QED
    BY <1>1, <1>2, <2>1, PlotGoesOn DEF Changing, OwnerSound
<1>5. CASE old \in Members /\ m = None /\ q = <<Ended(h, p, old, s), Moving(p, m, g, st)>>
  <2>1. Removing2(w, p)'
    BY <1>2, <1>3, <1>5, NamesAssumption DEF Removing2
  <2> QED
    BY <1>1, <1>2, <2>1, PlotGoesOn DEF Changing, OwnerSound
<1>6. CASE old = None /\ m # None /\ q = <<Opening(p, m, g), Moving(p, m, g, st)>>
  <2>1. Former(Book(p)) /\ ByHand(Book(p))
    BY <1>2, <1>6, Nobody
  <2>2. Opening2(w, p)'
    BY <1>2, <1>6, <2>1 DEF Opening2
  <2> QED
    BY <1>1, <1>2, <2>2, PlotGoesOn DEF Changing, OwnerSound
<1> QED
  BY <1>0, <1>4, <1>5, <1>6

LEMMA DeedBeginsSound ==
  ASSUME OfficeInv, NEW w \in Workers, NEW p \in Plots, NEW to \in Members, NEW t \in Transfers,
         NEW h \in History, NEW q, DeedBegins(w, p, to, t, h, q), OwnerSound(p), Undisturbed(p, "owner")'
  PROVE  OwnerSound(p)'
<1>1. Begin(w, q) /\ Sequence(q) /\ Changes(q, p) /\ file[t].from = file[p].owner /\ file[t].from \in Members
  BY DEF DeedBegins, Changes
<1>2. /\ \A v \in Workers : ~Changes(job[v].todo, p)
      /\ OnRecord(Book(p), file[p].owner, file[p].since)
      /\ job'[w].todo = q /\ \A v \in Workers \ {w} : job'[v] = job[v]
      /\ file' = file /\ Book(p)' = Book(p)
  BY <1>1, ChangeAlone
<1>3. file[p].owner # None
  BY <1>1, NamesAssumption
<1>4. OpenRows(p, file[t].from) # {}
  <2>1. Current(Book(p), file[p].since) /\ Book(p)[file[p].since].member = file[p].owner
    BY <1>2, <1>3 DEF OnRecord
  <2> QED
    BY <1>1, <2>1 DEF Current, Book, RowsOf, OpenRows
<1>5. PICK o \in OpenRows(p, file[t].from) :
        q = <<Closing(o), Buying(p, to, t, h), Passing(p, to, h), Completing(t)>>
  BY <1>4 DEF DeedBegins
<1>6. o \in History /\ o \in DOMAIN Book(p) /\ Book(p)[o].status = "open" /\ Book(p)[o].member = file[p].owner
  BY <1>1, NoRowStatus DEF OpenRows, Book, RowsOf
<1>7. Closing4(w, p)'
  BY <1>2, <1>3, <1>5, <1>6 DEF Closing4
<1> QED
  BY <1>1, <1>2, <1>7, PlotGoesOn DEF Changing, OwnerSound

\* A request that has not begun to write changes nothing when it dies.
LEMMA ChangeDies ==
  ASSUME OfficeInv, NEW w \in Workers, Die(w), NEW p \in Plots, OwnerSound(p), Undisturbed(p, "owner")'
  PROVE  OwnerSound(p)'
<1>1. Turns(w, <<>>) /\ file' = file /\ (job[w].wrote => Pending(w) \subseteq upset')
  BY Dying DEF OfficeInv
<1>2. job'[w].todo = <<>> /\ (\A v \in Workers \ {w} : job'[v] = job[v]) /\ Book(p)' = Book(p)
  BY <1>1, BookKept DEF Turns
<1>3. CASE ~Changes(job[w].todo, p)
  BY <1>1, <1>2, <1>3, IdleChanges, PlotStays
<1>4. CASE Changes(job[w].todo, p)
  <2>1. PICK x \in Left(w) : x.id = p /\ x.op = "update" /\ "owner" \in DOMAIN x.patch
    BY <1>4, ChangesTold DEF Left
  <2>2. ~job[w].wrote
    BY <1>1, <2>1, PendingColumns DEF Undisturbed
  <2>3. Changing(w, p) /\ \A v \in Workers \ {w} : ~Changes(job[v].todo, p)
    BY <1>4 DEF OwnerSound
  <2>4. OnRecord(Book(p), file[p].owner, file[p].since)
    <3>1. CASE Replacing3(w, p) \/ Removing2(w, p) \/ Closing4(w, p)
      BY <3>1 DEF Replacing3, Removing2, Closing4
    <3>2. CASE Opening2(w, p)
      BY <2>2, <3>2, Nobody DEF Opening2
    <3>3. ~Moving1(w, p) /\ ~Buying3(w, p) /\ ~Passing2(w, p)
      BY <2>2 DEF Moving1, Buying3, Passing2
    <3> QED
      BY <2>3, <3>1, <3>2, <3>3 DEF Changing
  <2> QED
    BY <1>1, <1>2, <2>3, <2>4, IdleChanges, PlotGoesOn DEF OwnerSound
<1> QED
  BY <1>3, <1>4

\* What a statement does to the history of p.
LEMMA BookAdds ==
  ASSUME OfficeInv, NEW w \in Workers, Write(w), NEW p \in Plots, NEW g \in History, NEW r,
         Head(job[w].todo).op = "insert", Head(job[w].todo).id = g, Head(job[w].todo).patch = r, r.plot = p
  PROVE  Adds(Book(p), g, r, Book(p)')
<1> DEFINE x == Head(job[w].todo)
<1>1. file[g] = NoRow /\ file'[g] = r /\ r # NoRow
  BY HistoryWritten
<1>2. \A h \in History \ {g} : file'[h] = file[h]
  BY HistoryWritten
<1>3. RowsOf(p)' = RowsOf(p) \cup {g} /\ g \notin RowsOf(p) /\ RowsOf(p) \subseteq History
  BY <1>1, <1>2 DEF RowsOf
<1>4. /\ DOMAIN Book(p) = RowsOf(p) /\ DOMAIN Book(p)' = RowsOf(p)'
      /\ \A h \in RowsOf(p) : Book(p)[h] = file[h]
      /\ \A h \in RowsOf(p)' : Book(p)'[h] = file'[h]
  BY DEF Book
<1> QED
  BY <1>1, <1>2, <1>3, <1>4 DEF Adds

LEMMA BookCloses ==
  ASSUME OfficeInv, NEW w \in Workers, Write(w), NEW p \in Plots, NEW o \in DOMAIN Book(p),
         Head(job[w].todo).op = "update", Head(job[w].todo).id = o, Head(job[w].todo).patch = [status |-> "closed"]
  PROVE  Closes(Book(p), o, Book(p)')
<1> DEFINE x == Head(job[w].todo)
<1>1. o \in History /\ file[o] # NoRow /\ file[o].plot = p
  BY DEF Book, RowsOf
<1>2. x.id = o /\ x.op = "update" /\ "status" \in DOMAIN x.patch /\ x.patch.status = "closed"
  OBVIOUS
<1>3. /\ file'[o] # NoRow /\ \A c \in {"plot", "member", "since", "by"} : file'[o][c] = file[o][c]
      /\ file'[o].status = "closed"
  <2> HIDE DEF x
  <2> QED
    BY <1>1, <1>2, HistoryWritten DEF x
<1>4. \A h \in History \ {o} : file'[h] = file[h]
  BY HistoryWritten
<1>5. RowsOf(p)' = RowsOf(p) /\ RowsOf(p) \subseteq History
  BY <1>1, <1>3, <1>4 DEF RowsOf
<1>6. /\ DOMAIN Book(p) = RowsOf(p) /\ DOMAIN Book(p)' = RowsOf(p)'
      /\ \A h \in RowsOf(p) : Book(p)[h] = file[h]
      /\ \A h \in RowsOf(p)' : Book(p)'[h] = file'[h]
  BY DEF Book
<1>7. \A h \in RowsOf(p) \ {o} : Book(p)'[h] = Book(p)[h]
  BY <1>4, <1>5, <1>6
<1>8. /\ Book(p)'[o].member = Book(p)[o].member /\ Book(p)'[o].since = Book(p)[o].since
      /\ Book(p)'[o].by = Book(p)[o].by /\ Book(p)'[o].status = "closed"
  BY <1>3, <1>5, <1>6
<1> QED
  BY <1>5, <1>6, <1>7, <1>8 DEF Closes

LEMMA BookLeft ==
  ASSUME OfficeInv, NEW w \in Workers, Write(w), NEW p \in Plots,
         LET x == Head(job[w].todo) IN
         \/ x.id \notin History
         \/ x.op = "insert" /\ x.patch.plot # p
         \/ x.op = "update" /\ x.id \notin RowsOf(p)
  PROVE  Book(p)' = Book(p)
<1> DEFINE x == Head(job[w].todo)
<1>1. ASSUME NEW h \in History
      PROVE  /\ h \in RowsOf(p)' <=> h \in RowsOf(p)
             /\ h \in RowsOf(p) => file'[h] = file[h]
  <2>1. \/ x.id = h /\ x.op = "insert" /\ file[h] = NoRow /\ file'[h] = x.patch /\ x.patch # NoRow
        \/ x.id = h /\ x.op = "update" /\ file[h] = NoRow /\ file'[h] = NoRow
        \/ x.id = h /\ x.op = "update" /\ file[h] # NoRow /\ file'[h] # NoRow /\ file'[h].plot = file[h].plot
        \/ x.id # h /\ file'[h] = file[h]
    BY HistoryWritten
  <2> QED
    BY <2>1 DEF RowsOf
<1>2. RowsOf(p)' = RowsOf(p) /\ RowsOf(p) \subseteq History
  BY <1>1 DEF RowsOf
<1>3. \A h \in RowsOf(p) : file'[h] = file[h]
  BY <1>1, <1>2
<1> QED
  BY <1>2, <1>3 DEF Book

\* What a statement does to the plot.
LEMMA PlotWritten ==
  ASSUME OfficeInv, NEW w \in Workers, Write(w), NEW p \in Plots
  PROVE  LET x == Head(job[w].todo) IN
         IF x.id = p /\ x.op = "update" /\ {"owner", "since"} \subseteq DOMAIN x.patch
         THEN file'[p].owner = x.patch.owner /\ file'[p].since = x.patch.since
         ELSE file'[p].owner = file[p].owner /\ file'[p].since = file[p].since
<1> DEFINE x == Head(job[w].todo)
<1>1. RequestInv /\ RowInv /\ p \in Ids
  BY TitlesTold DEF OfficeInv, Titles
<1>2. x \in Left(w) /\ file'[p] = IF p = x.id THEN Result(x, file[p]) ELSE file[p]
  BY <1>1, Writing
<1>3. Fits(x) /\ x.op \in Statements /\ file[p] # NoRow
  BY <1>1, <1>2, Writing DEF RowInv
<1>4. {"owner", "since"} \subseteq DOMAIN file[p]
  BY <1>1, <1>3 DEF RowInv, Typed, PlotRow
<1> HIDE DEF x
<1>5. CASE x.id # p
  BY <1>2, <1>5 DEF x
<1>6. CASE x.id = p
  <2>1. x.op = "update" /\ ("owner" \in DOMAIN x.patch <=> "since" \in DOMAIN x.patch)
    BY <1>3, <1>6, TitlesTold DEF Fits, Statements, Shared, Compatible
  <2>2. file'[p] = Over(x.patch, file[p])
    BY <1>2, <1>3, <1>6, <2>1 DEF Result
  <2>3. /\ "owner" \in DOMAIN x.patch => file'[p].owner = x.patch.owner
        /\ "owner" \notin DOMAIN x.patch => file'[p].owner = file[p].owner
    BY <1>4, <2>2, OverColumns
  <2>4. /\ "since" \in DOMAIN x.patch => file'[p].since = x.patch.since
        /\ "since" \notin DOMAIN x.patch => file'[p].since = file[p].since
    BY <1>4, <2>2, OverColumns
  <2> QED
    BY <1>6, <2>1, <2>3, <2>4 DEF x
<1> QED
  BY <1>5, <1>6

\* The statements of the request about p, one by one.
Writes(w, p) == OfficeInv /\ Write(w) /\ OwnerSound(p) /\ Changes(job[w].todo, p)

LEMMA WritesTold ==
  ASSUME NEW w \in Workers, NEW p \in Plots, Writes(w, p)
  PROVE  /\ job'[w].todo = Tail(job[w].todo) /\ \A v \in Workers \ {w} : job'[v] = job[v]
         /\ Tail(job[w].todo) # <<>> => job'[w].wrote
         /\ \A v \in Workers \ {w} : ~Changes(job[v].todo, p)
         /\ Begun(Book(p)) /\ Sequence(job[w].todo)
<1>1. OfficeInv /\ Write(w) /\ OwnerSound(p) /\ Changes(job[w].todo, p) /\ RequestInv /\ Sequence(job[w].todo)
  BY DEF Writes, OfficeInv, RequestInv, JobRecord
<1>2. /\ Turns(w, Tail(job[w].todo))
      /\ Tail(job[w].todo) # <<>> => job'[w].wrote
  BY <1>1, Writing
<1> QED
  BY <1>1, <1>2 DEF Turns, OwnerSound

LEMMA HistoryApart == ASSUME NEW p \in Plots PROVE p \notin History /\ p \notin Transfers
BY TitlesTold

\* The old owner's interval, by an edit.
LEMMA EndedWrites ==
  ASSUME NEW w \in Workers, NEW p \in Plots, Writes(w, p), Replacing3(w, p) \/ Removing2(w, p)
  PROVE  OwnerSound(p)'
<1> DEFINE q == job[w].todo
<1>0. OfficeInv /\ Write(w) /\ RequestInv
  BY DEF Writes, OfficeInv
<1>1. ASSUME NEW old \in Members, NEW h \in History, NEW s \in History, NEW r, Tail(q) = r, r # <<>>,
             Head(q) = Ended(h, p, old, s), OnRecord(Book(p), old, s)
      PROVE  /\ job'[w].todo = r /\ job'[w].wrote
             /\ Begun(Book(p))' /\ Former(Book(p))' /\ ByHand(Book(p))'
             /\ file'[p].owner = file[p].owner
  <2> DEFINE x == Ended(h, p, old, s)
             y == x.patch
  <2>1. x.id = h /\ x.op = "insert"
    BY WriteFields DEF Ended
  <2>2. y.plot = p /\ y.status = "closed" /\ y.member = old /\ y.since = s /\ y.by = "hand"
    BY WriteFields DEF Ended, OwnerRow
  <2> HIDE DEF y, x
  <2>3. Adds(Book(p), h, y, Book(p)')
    BY <1>0, <1>1, <2>1, <2>2, BookAdds DEF x, y
  <2>4. Begun(Book(p)') /\ Former(Book(p)') /\ ByHand(Book(p)')
    BY <1>1, <2>2, <2>3, WritesTold, EndsInterval, NamesAssumption
  <2>5. file'[p].owner = file[p].owner
    BY <1>0, <1>1, <2>1, PlotWritten, HistoryApart DEF x
  <2> QED
    BY <1>1, <2>4, <2>5, WritesTold DEF Begun, Former, ByHand, Current, Another
<1>2. CASE Replacing3(w, p)
  <2>1. PICK m \in Members, old \in Members, g \in History, h \in History, s \in History :
          /\ \E st : q = <<Ended(h, p, old, s), Opening(p, m, g), Moving(p, m, g, st)>>
          /\ OnRecord(Book(p), old, s)
    BY <1>2 DEF Replacing3
  <2>0. PICK st : q = <<Ended(h, p, old, s), Opening(p, m, g), Moving(p, m, g, st)>>
    BY <2>1
  <2> DEFINE a == Ended(h, p, old, s)
             b == Opening(p, m, g)
             c == Moving(p, m, g, st)
  <2>2. Head(q) = a /\ Tail(q) = <<b, c>> /\ <<b, c>> # <<>>
    <3> HIDE DEF a, b, c
    <3>1. q = <<a, b, c>>
      BY <2>0 DEF a, b, c
    <3> QED
      BY ONLY <3>1, Tails
  <2>3. job'[w].todo = <<b, c>> /\ job'[w].wrote /\ Begun(Book(p))' /\ Former(Book(p))' /\ ByHand(Book(p))'
    BY <1>1, <2>1, <2>2
  <2>4. Opening2(w, p)'
    BY <2>3 DEF Opening2
  <2>5. Changes(job'[w].todo, p)
    <3>1. EditList(<<b, c>>, p, m, g)
      BY NamesAssumption DEF EditList, EditLeft
    <3> QED
      BY <2>3, <3>1 DEF Changes
  <2> QED
    BY <2>3, <2>4, <2>5, WritesTold, PlotGoesOn DEF Changing
<1>3. CASE Removing2(w, p)
  <2>1. PICK old \in Members, g \in History, h \in History, s \in History :
          /\ \E st : q = <<Ended(h, p, old, s), Moving(p, None, g, st)>>
          /\ OnRecord(Book(p), old, s)
    BY <1>3 DEF Removing2
  <2>0. PICK st : q = <<Ended(h, p, old, s), Moving(p, None, g, st)>>
    BY <2>1
  <2> DEFINE a == Ended(h, p, old, s)
             c == Moving(p, None, g, st)
  <2>2. Head(q) = a /\ Tail(q) = <<c>> /\ <<c>> # <<>>
    <3> HIDE DEF a, c
    <3>1. q = <<a, c>>
      BY <2>0 DEF a, c
    <3> QED
      BY ONLY <3>1, Tails
  <2>3. job'[w].todo = <<c>> /\ job'[w].wrote /\ Begun(Book(p))' /\ Former(Book(p))' /\ ByHand(Book(p))'
    BY <1>1, <2>1, <2>2
  <2>4. OnRecord(Book(p), None, g)'
    <3>1. OnRecord(Book(p)', None, g) <=> Former(Book(p)') /\ ByHand(Book(p)')
      BY Nobody
    <3> QED
      BY <2>3, <3>1 DEF Former, ByHand, OnRecord, Current, Another
  <2>5. Moving1(w, p)'
    BY <2>3, <2>4 DEF Moving1
  <2>6. Changes(job'[w].todo, p)
    <3>1. EditList(<<c>>, p, None, g)
      BY DEF EditList, EditLeft
    <3> QED
      BY <2>3, <3>1 DEF Changes
  <2> QED
    BY <2>3, <2>5, <2>6, WritesTold, PlotGoesOn DEF Changing
<1> QED
  BY <1>2, <1>3

\* The new owner's row, by an edit.
LEMMA OpeningWrites ==
  ASSUME NEW w \in Workers, NEW p \in Plots, Writes(w, p), Opening2(w, p)
  PROVE  OwnerSound(p)'
<1> DEFINE q == job[w].todo
<1>0. OfficeInv /\ Write(w)
  BY DEF Writes
<1>1. PICK m \in Members, g \in History :
        (\E st : q = <<Opening(p, m, g), Moving(p, m, g, st)>>) /\ Former(Book(p)) /\ ByHand(Book(p))
  BY DEF Opening2
<1>a. PICK st : q = <<Opening(p, m, g), Moving(p, m, g, st)>>
  BY <1>1
<1> DEFINE x == Opening(p, m, g)
           c == Moving(p, m, g, st)
           y == x.patch
<1>2. x.id = g /\ x.op = "insert"
  BY WriteFields DEF Opening
<1>3. y.plot = p /\ y.status = "open" /\ y.member = m /\ y.since = g /\ y.by = "hand"
  BY WriteFields DEF Opening, OwnerRow
<1>4. Head(q) = x /\ Tail(q) = <<c>> /\ <<c>> # <<>>
  <2> HIDE DEF x, c
  <2>1. q = <<x, c>>
    BY <1>a DEF x, c
  <2> QED
    BY ONLY <2>1, Tails
<1>5. EditList(<<c>>, p, m, g)
  BY DEF EditList, EditLeft
<1> HIDE DEF x, y
<1>6. Adds(Book(p), g, y, Book(p)')
  BY <1>0, <1>2, <1>3, <1>4, BookAdds DEF y
<1>7. Begun(Book(p)') /\ OnRecord(Book(p)', m, g)
  BY <1>1, <1>3, <1>6, WritesTold, BeginsInterval, NamesAssumption
<1>8. job'[w].todo = <<c>> /\ job'[w].wrote
  BY <1>4, WritesTold
<1>9. Begun(Book(p))' /\ OnRecord(Book(p), m, g)'
  BY <1>7 DEF Begun, OnRecord, Current, Another, ByHand
<1>10. Moving1(w, p)'
  BY <1>8, <1>9 DEF Moving1
<1>11. Changes(job'[w].todo, p)
  BY <1>5, <1>8 DEF Changes
<1> QED
  BY <1>9, <1>10, <1>11, WritesTold, PlotGoesOn DEF Changing

\* The plot itself, by an edit.
LEMMA MovingWrites ==
  ASSUME NEW w \in Workers, NEW p \in Plots, Writes(w, p), Moving1(w, p)
  PROVE  OwnerSound(p)'
<1> DEFINE q == job[w].todo
<1>0. OfficeInv /\ Write(w)
  BY DEF Writes
<1>1. PICK m \in Members \cup {None}, g \in History :
        (\E st : q = <<Moving(p, m, g, st)>>) /\ OnRecord(Book(p), m, g)
  BY DEF Moving1
<1>a. PICK st : q = <<Moving(p, m, g, st)>>
  BY <1>1
<1> DEFINE x == Moving(p, m, g, st)
           y == x.patch
<1>2. /\ x.id = p /\ x.op = "update" /\ {"owner", "since"} \subseteq DOMAIN y
      /\ y.owner = m /\ (m # None => y.since = g)
  BY MovingColumns
<1>3. Head(q) = x /\ Tail(q) = <<>>
  <2> HIDE DEF x
  <2>1. q = <<x>>
    BY <1>a DEF x
  <2> QED
    BY ONLY <2>1, Tails
<1> HIDE DEF x, y
<1>4. file'[p].owner = m /\ file'[p].since = y.since
  BY <1>0, <1>2, <1>3, PlotWritten DEF y
<1>5. Book(p)' = Book(p)
  BY <1>0, <1>2, <1>3, HistoryApart, BookLeft
<1>6. job'[w].todo = <<>> /\ ~Changes(<<>>, p)
  BY <1>3, WritesTold, IdleChanges
<1>7. OnRecord(Book(p), m, y.since)
  BY <1>1, <1>2, Nobody
<1>8. OnRecord(Book(p), file[p].owner, file[p].since)'
  BY <1>4, <1>5, <1>7
<1>9. Begun(Book(p))'
  BY <1>5, WritesTold
<1> QED
  BY <1>6, <1>8, <1>9, WritesTold, PlotGoesOn

\* The seller's row, by a completion.
LEMMA ClosingWrites ==
  ASSUME NEW w \in Workers, NEW p \in Plots, Writes(w, p), Closing4(w, p)
  PROVE  OwnerSound(p)'
<1> DEFINE q == job[w].todo
<1>0. OfficeInv /\ Write(w)
  BY DEF Writes
<1>1. PICK to \in Members, t \in Transfers, o \in History, h \in History :
        /\ q = <<Closing(o), Buying(p, to, t, h), Passing(p, to, h), Completing(t)>>
        /\ OnRecord(Book(p), file[p].owner, file[p].since) /\ file[p].owner # None
        /\ o \in DOMAIN Book(p) /\ Book(p)[o].status = "open" /\ Book(p)[o].member = file[p].owner
  BY DEF Closing4
<1> DEFINE x == Closing(o)
           b == Buying(p, to, t, h)
           c == Passing(p, to, h)
           d == Completing(t)
<1>2. x.id = o /\ x.op = "update" /\ x.patch = [status |-> "closed"]
  BY WriteFields DEF Closing
<1>3. Head(q) = x /\ Tail(q) = <<b, c, d>> /\ <<b, c, d>> # <<>>
  <2> HIDE DEF x, b, c, d
  <2>1. q = <<x, b, c, d>>
    BY <1>1 DEF x, b, c, d
  <2> QED
    BY ONLY <2>1, Tails
<1>4. DeedList(<<b, c, d>>, p, to, t, h)
  BY DEF DeedList
<1> HIDE DEF x
<1>5. Closes(Book(p), o, Book(p)')
  <2>1. Head(q).op = "update" /\ Head(q).id = o /\ Head(q).patch = [status |-> "closed"]
    BY <1>2, <1>3
  <2> QED
    BY <1>0, <1>1, <2>1, BookCloses
<1>6. Begun(Book(p)') /\ Former(Book(p)') /\ (ByHand(Book(p)') \/ \A k \in DOMAIN Book(p)' : Book(p)'[k].status # "open")
  BY <1>1, <1>5, WritesTold, ClosesInterval
<1>7. job'[w].todo = <<b, c, d>> /\ job'[w].wrote
  BY <1>3, WritesTold
<1>8. Begun(Book(p))' /\ Former(Book(p))' /\ (ByHand(Book(p)) \/ \A k \in DOMAIN Book(p) : Book(p)[k].status # "open")'
  BY <1>6 DEF Begun, Former, Current, Another, ByHand
<1>9. Buying3(w, p)'
  BY <1>7, <1>8 DEF Buying3
<1>10. Changes(job'[w].todo, p)
  BY <1>4, <1>7 DEF Changes
<1> QED
  BY <1>8, <1>9, <1>10, WritesTold, PlotGoesOn DEF Changing

\* The buyer's row.
LEMMA BuyingWrites ==
  ASSUME NEW w \in Workers, NEW p \in Plots, Writes(w, p), Buying3(w, p)
  PROVE  OwnerSound(p)'
<1> DEFINE q == job[w].todo
<1>0. OfficeInv /\ Write(w)
  BY DEF Writes
<1>1. PICK to \in Members, t \in Transfers, h \in History :
        /\ q = <<Buying(p, to, t, h), Passing(p, to, h), Completing(t)>> /\ Former(Book(p))
        /\ ByHand(Book(p)) \/ \A k \in DOMAIN Book(p) : Book(p)[k].status # "open"
  BY DEF Buying3
<1> DEFINE x == Buying(p, to, t, h)
           c == Passing(p, to, h)
           d == Completing(t)
           y == x.patch
<1>2. x.id = h /\ x.op = "insert"
  BY WriteFields DEF Buying
<1>3. y.plot = p /\ y.status = "open" /\ y.member = to /\ y.since = h
  BY WriteFields DEF Buying, OwnerRow
<1>4. Head(q) = x /\ Tail(q) = <<c, d>> /\ <<c, d>> # <<>>
  <2> HIDE DEF x, c, d
  <2>1. q = <<x, c, d>>
    BY <1>1 DEF x, c, d
  <2> QED
    BY ONLY <2>1, Tails
<1>5. DeedList(<<c, d>>, p, to, t, h)
  BY DEF DeedList
<1> HIDE DEF x, y
<1>6. Adds(Book(p), h, y, Book(p)')
  BY <1>0, <1>2, <1>3, <1>4, BookAdds DEF y
<1>7. Begun(Book(p)') /\ OnRecord(Book(p)', to, h)
  BY <1>1, <1>3, <1>6, WritesTold, BeginsInterval, NamesAssumption
<1>8. job'[w].todo = <<c, d>> /\ job'[w].wrote
  BY <1>4, WritesTold
<1>9. Begun(Book(p))' /\ OnRecord(Book(p), to, h)'
  BY <1>7 DEF Begun, OnRecord, Current, Another, ByHand
<1>10. Passing2(w, p)'
  BY <1>8, <1>9 DEF Passing2
<1>11. Changes(job'[w].todo, p)
  BY <1>5, <1>8 DEF Changes
<1> QED
  BY <1>9, <1>10, <1>11, WritesTold, PlotGoesOn DEF Changing

\* The plot itself, by a completion.
LEMMA PassingWrites ==
  ASSUME NEW w \in Workers, NEW p \in Plots, Writes(w, p), Passing2(w, p)
  PROVE  OwnerSound(p)'
<1> DEFINE q == job[w].todo
<1>0. OfficeInv /\ Write(w)
  BY DEF Writes
<1>1. PICK to \in Members, t \in Transfers, h \in History :
        q = <<Passing(p, to, h), Completing(t)>> /\ OnRecord(Book(p), to, h)
  BY DEF Passing2
<1> DEFINE x == Passing(p, to, h)
           d == Completing(t)
<1>2. /\ x.id = p /\ x.op = "update" /\ {"owner", "since"} \subseteq DOMAIN x.patch
      /\ x.patch.owner = to /\ x.patch.since = h
  BY WriteFields DEF Passing
<1>3. Head(q) = x /\ Tail(q) = <<d>>
  <2> HIDE DEF x, d
  <2>1. q = <<x, d>>
    BY <1>1 DEF x, d
  <2> QED
    BY ONLY <2>1, Tails
<1>4. ~Changes(<<d>>, p)
  <2>1. TransferList(<<d>>, t)
    BY DEF TransferList, Completing
  <2> QED
    BY <2>1, ChangesOnce, Tuple1
<1> HIDE DEF x, d
<1>5. file'[p].owner = to /\ file'[p].since = h
  BY <1>0, <1>2, <1>3, PlotWritten
<1>6. Book(p)' = Book(p)
  BY <1>0, <1>2, <1>3, HistoryApart, BookLeft
<1>7. OnRecord(Book(p), file[p].owner, file[p].since)'
  BY <1>1, <1>5, <1>6
<1>8. Begun(Book(p))'
  BY <1>6, WritesTold
<1>9. /\ job'[w].todo = <<d>> /\ \A v \in Workers \ {w} : job'[v] = job[v]
      /\ \A v \in Workers \ {w} : ~Changes(job[v].todo, p)
  BY <1>3, WritesTold
<1>10. ~Changes(job'[w].todo, p)
  BY <1>4, <1>9
<1> QED
  BY <1>7, <1>8, <1>9, <1>10, PlotGoesOn

\* A statement of a request about another plot, or about a transfer.
LEMMA OtherPlotWrites ==
  ASSUME OfficeInv, ClosingInv, NEW w \in Workers, Write(w), TitleList(job[w].todo), NEW p \in Plots,
         OwnerSound(p), ~Changes(job[w].todo, p)
  PROVE  OwnerSound(p)'
<1> DEFINE q == job[w].todo
           x == Head(q)
<1>1. RequestInv /\ Sequence(q)
  BY DEF OfficeInv, RequestInv, JobRecord
<1>2. Turns(w, Tail(q)) /\ q # <<>>
  BY <1>1, Writing
<1>3. job'[w].todo = Tail(q) /\ \A v \in Workers \ {w} : job'[v] = job[v]
  BY <1>2 DEF Turns
<1>4. ~Changes(Tail(q), p)
  BY <1>1, <1>2, ChangesOnce
<1>5. x.id # p /\ (\/ x.id \notin History
                   \/ x.op = "insert" /\ x.patch.plot # p
                   \/ x.op = "update" /\ x.id \notin RowsOf(p))
  <2>1. ASSUME NEW t \in Transfers, TransferList(q, t) PROVE x.id = t
    <3>1. ASSUME NEW r, q = <<Insert(t, r)>> \/ q = <<Update(t, r)>> PROVE Head(q).id = t
      BY <3>1, Tails, StatementIds
    <3> QED
      BY <2>1, <3>1 DEF TransferList
  <2>2. ASSUME NEW r \in Plots, NEW m \in Members \cup {None}, NEW g \in History, EditList(q, r, m, g)
        PROVE  \/ x.id = r
               \/ x.id \in History /\ x.op = "insert" /\ x.patch.plot = r
    <3>0. PICK st : EditLeft(q, r, m, g, st)
      BY <2>2 DEF EditList
    <3> DEFINE b == Opening(r, m, g)
               c == Moving(r, m, g, st)
    <3>1. b.id = g /\ b.op = "insert" /\ b.patch.plot = r /\ c.id = r
      BY MovingColumns, WriteFields DEF Opening, OwnerRow
    <3>2. ASSUME NEW h, NEW old, NEW s
          PROVE  LET a == Ended(h, r, old, s) IN a.id = h /\ a.op = "insert" /\ a.patch.plot = r
      BY WriteFields DEF Ended, OwnerRow
    <3>3. \/ \E a : /\ q = <<a, b, c>> \/ q = <<a, c>>
                    /\ a.id \in History /\ a.op = "insert" /\ a.patch.plot = r
          \/ q = <<b, c>> \/ q = <<c>>
      <4>1. ASSUME NEW h \in History, NEW s, NEW old,
                   q = <<Ended(h, r, old, s), b, c>> \/ q = <<Ended(h, r, old, s), c>>
            PROVE  \E a : /\ q = <<a, b, c>> \/ q = <<a, c>>
                          /\ a.id \in History /\ a.op = "insert" /\ a.patch.plot = r
        <5> DEFINE a == Ended(h, r, old, s)
        <5>1. a.id \in History /\ a.op = "insert" /\ a.patch.plot = r /\ (q = <<a, b, c>> \/ q = <<a, c>>)
          BY <3>2, <4>1
        <5> HIDE DEF a
        <5> QED
          BY <5>1
      <4> QED
        BY <3>0, <4>1 DEF EditLeft
    <3> HIDE DEF b, c
    <3>4. \A a : Head(<<a, b, c>>) = a /\ Head(<<a, c>>) = a /\ Head(<<b, c>>) = b /\ Head(<<c>>) = c
      BY Tails
    <3> QED
      BY <3>1, <3>3, <3>4
  <2>3. ASSUME NEW r \in Plots, NEW to \in Members, NEW t \in Transfers, NEW h \in History, DeedList(q, r, to, t, h)
        PROVE  \/ x.id = r
               \/ x.id \in History /\ x.op = "insert" /\ x.patch.plot = r
               \/ x.op = "update" /\ x.id \in RowsOf(r)
    <3> DEFINE b == Buying(r, to, t, h)
               c == Passing(r, to, h)
               d == Completing(t)
    <3>1. b.id = h /\ b.op = "insert" /\ b.patch.plot = r /\ c.id = r
      BY WriteFields DEF Buying, Passing, OwnerRow
    <3>2. ASSUME NEW o \in History, q = <<Closing(o), b, c, d>> PROVE x.op = "update" /\ x.id \in RowsOf(r)
      <4> DEFINE a == Closing(o)
      <4>1. Head(q).id \in RowsOf(q[3].id)
        BY <2>3, <3>2 DEF ClosingInv, Closer
      <4>2. a.op = "update"
        BY WriteFields DEF Closing
      <4> HIDE DEF a, b, c, d
      <4>3. q = <<a, b, c, d>>
        BY <3>2 DEF a, b, c, d
      <4>4. q[3] = c /\ Head(q) = a
        BY <4>3
      <4> QED
        BY <3>1, <4>1, <4>2, <4>4
    <3>3. (\E o \in History : q = <<Closing(o), b, c, d>>) \/ q = <<b, c, d>> \/ q = <<c, d>>
      BY <2>3 DEF DeedList
    <3> HIDE DEF b, c, d
    <3>4. Head(<<b, c, d>>) = b /\ Head(<<c, d>>) = c
      BY Tails
    <3> QED
      BY <3>1, <3>2, <3>3, <3>4
  <2>4. \A r \in Plots \ {p} : \A h \in RowsOf(r) : h \in History /\ h \notin RowsOf(p)
    BY DEF RowsOf
  <2>5. CASE \E t \in Transfers : TransferList(q, t)
    BY <2>1, <2>5, TitlesTold
  <2>6. CASE \E r \in Plots, m \in Members \cup {None}, g \in History : EditList(q, r, m, g)
    <3>1. PICK r \in Plots, m \in Members \cup {None}, g \in History : EditList(q, r, m, g)
      BY <2>6
    <3>2. r # p
      BY <3>1 DEF Changes
    <3> QED
      BY <2>2, <3>1, <3>2, TitlesTold
  <2>7. CASE \E r \in Plots, to \in Members, t \in Transfers, h \in History : DeedList(q, r, to, t, h)
    <3>1. PICK r \in Plots, to \in Members, t \in Transfers, h \in History : DeedList(q, r, to, t, h)
      BY <2>7
    <3>2. r # p
      BY <3>1 DEF Changes
    <3> QED
      BY <2>3, <2>4, <3>1, <3>2, TitlesTold
  <2> QED
    BY <2>5, <2>6, <2>7 DEF TitleList
<1>6. Book(p)' = Book(p)
  BY <1>5, BookLeft
<1>7. file'[p].owner = file[p].owner /\ file'[p].since = file[p].since
  BY <1>5, PlotWritten
<1> QED
  BY <1>3, <1>4, <1>6, <1>7, PlotStays

-----------------------------------------------------------------------------
(* The owner stays on record                                               *)

LEMMA CloserTold ==
  ASSUME NEW q, Closer(q)
  PROVE  Len(q) = 4 /\ q[3].id \in Plots /\ Target(q) \in Transfers
<1>1. PICK p \in Plots, to \in Members, t \in Transfers, o \in History, h \in History :
        q = <<Closing(o), Buying(p, to, t, h), Passing(p, to, h), Completing(t)>>
  BY DEF Closer
<1> DEFINE a == Closing(o)
           b == Buying(p, to, t, h)
           c == Passing(p, to, h)
           d == Completing(t)
<1>2. c.id = p /\ d.id = t
  BY StatementIds
<1>3. q = <<a, b, c, d>>
  BY <1>1
<1> HIDE DEF a, b, c, d
<1> QED
  BY <1>2, <1>3, Target4

LEMMA TitleLengths ==
  ASSUME NEW q, TitleList(q)
  PROVE  /\ Len(q) \in 1..4
         /\ \A t \in Transfers : TransferList(q, t) => Len(q) = 1
<1>1. ASSUME NEW t, TransferList(q, t) PROVE Len(q) = 1
  <2>1. \E x : q = <<x>>
    <3>1. (\E status : q = <<Update(t, [status |-> status])>>) \/ (\E r : q = <<Insert(t, r)>>)
      BY <1>1 DEF TransferList
    <3> QED
      BY <3>1
  <2> QED
    BY <2>1, Lengths
<1>2. ASSUME NEW p, NEW m, NEW g, EditList(q, p, m, g) PROVE Len(q) \in {1, 2, 3}
  <2>1. \E a, b, c : q = <<a, b, c>> \/ q = <<b, c>> \/ q = <<c>>
    BY <1>2 DEF EditList, EditLeft
  <2> QED
    BY <2>1, Lengths
<1>3. ASSUME NEW p, NEW to, NEW t, NEW h, DeedList(q, p, to, t, h) PROVE Len(q) \in 1..4
  BY <1>3, DeedMiddle
<1> QED
  BY <1>1, <1>2, <1>3 DEF TitleList

LEMMA ClosingGoesOn ==
  ASSUME ClosingInv, NEW w \in Workers, \A v \in Workers \ {w} : job'[v] = job[v],
         \A p \in Plots : RowsOf(p) \subseteq RowsOf(p)',
         NEW r, job'[w].todo = r, Closer(r) => Head(r).id \in RowsOf(r[3].id)'
  PROVE  ClosingInv'
<1>1. ASSUME NEW v \in Workers \ {w}, NEW q, q = job[v].todo, Closer(q)
      PROVE  Head(q).id \in RowsOf(q[3].id)'
  <2>1. Head(q).id \in RowsOf(q[3].id) /\ q[3].id \in Plots
    BY <1>1, CloserTold DEF ClosingInv
  <2> QED
    BY <2>1
<1>2. ASSUME NEW v \in Workers PROVE (Closer(job[v].todo) => Head(job[v].todo).id \in RowsOf(job[v].todo[3].id))'
  <2>1. CASE v = w
    BY <2>1
  <2>2. CASE v # w
    <3>1. job'[v].todo = job[v].todo
      BY <2>2
    <3>2. Closer(job[v].todo) => Head(job[v].todo).id \in RowsOf(job[v].todo[3].id)'
      BY <1>1, <2>2
    <3> QED
      BY <3>1, <3>2 DEF RowsOf
  <2> QED
    BY <2>1, <2>2
<1> QED
  BY <1>2 DEF ClosingInv

LEMMA RowsStay ==
  ASSUME \A h \in History : file'[h] = file[h]
  PROVE  \A p : RowsOf(p)' = RowsOf(p)
BY DEF RowsOf

LEMMA ClosingStep ==
  ASSUME OfficeInv, KindInv, ClosingInv, [Next]_societyVars
  PROVE  ClosingInv'
<1>1. CASE UNCHANGED <<file, job, upset>>
  BY <1>1 DEF ClosingInv, RowsOf
<1>2. ASSUME NEW w \in Workers, Leaving(Titles, w) PROVE ClosingInv'
  <2>1. \A h \in History : file'[h] = file[h]
    BY <1>2 DEF Leaving, Titles
  <2>2. ~Closer(job'[w].todo)
    <3>1. \A t \in Transfers : ~Deals(job'[w].todo, t)
      BY <1>2, SparesDeals DEF Leaving
    <3> QED
      BY <3>1 DEF Closer, Deals, Buys
  <2> QED
    BY <1>2, <2>1, <2>2, RowsStay, ClosingGoesOn DEF Leaving
<1>3. ASSUME NEW w \in Workers, NEW q, Begin(w, q), Sequence(q),
             Closer(q) => Head(q).id \in RowsOf(q[3].id)
      PROVE  ClosingInv'
  <2>1. Turns(w, q) /\ file' = file
    BY <1>3, Beginning DEF OfficeInv
  <2>2. job'[w].todo = q /\ \A v \in Workers \ {w} : job'[v] = job[v]
    BY <2>1 DEF Turns
  <2>3. \A p : RowsOf(p)' = RowsOf(p)
    BY <2>1, RowsStay
  <2>4. Closer(q) => Head(q).id \in RowsOf(q[3].id)'
    BY <1>3, <2>1 DEF RowsOf
  <2> QED
    BY <2>2, <2>3, <2>4, ClosingGoesOn
<1>4. ASSUME NEW w \in Workers, TitleBegins(w) PROVE ClosingInv'
  <2>1. ASSUME NEW p \in Plots, NEW m, NEW h, NEW g, NEW q, EditBegins(w, p, m, h, g, q) PROVE ClosingInv'
    <3>1. Target(q) = p /\ Begin(w, q) /\ Sequence(q)
      BY <2>1, TitleTargets DEF EditBegins
    <3>2. ~Closer(q)
      BY <3>1, CloserTold, TitlesTold
    <3> QED
      BY <1>3, <3>1, <3>2
  <2>2. ASSUME NEW t \in Transfers, NEW q, StatusBegins(w, t, q) PROVE ClosingInv'
    <3>1. TransferList(q, t) /\ Begin(w, q) /\ Sequence(q)
      BY <2>2 DEF StatusBegins, TransferList
    <3>2. Len(q) = 1
      BY <3>1, TitleLengths DEF TitleList
    <3> QED
      BY <1>3, <3>1, <3>2, CloserTold
  <2>3. ASSUME NEW p \in Plots, NEW to \in Members, NEW t \in Transfers, NEW h \in History, NEW q,
               DeedBegins(w, p, to, t, h, q)
        PROVE  ClosingInv'
    <3> DEFINE b == Buying(p, to, t, h)
               c == Passing(p, to, h)
               d == Completing(t)
    <3>1. Begin(w, q) /\ Sequence(q) /\ (q = <<b, c, d>> \/ \E o \in OpenRows(p, file[t].from) : q = <<Closing(o), b, c, d>>)
      BY <2>3 DEF DeedBegins
    <3>2. c.id = p /\ \A o : Closing(o).id = o
      BY StatementIds
    <3>3. OpenRows(p, file[t].from) \subseteq RowsOf(p)
      BY NoRowStatus DEF OpenRows, RowsOf
    <3> HIDE DEF b, c, d
    <3>4. CASE q = <<b, c, d>>
      <4>1. Len(q) = 3
        BY <3>4, Lengths
      <4> QED
        BY <1>3, <3>1, <4>1, CloserTold
    <3>5. ASSUME NEW o \in OpenRows(p, file[t].from), q = <<Closing(o), b, c, d>> PROVE ClosingInv'
      <4> DEFINE a == Closing(o)
      <4>1. a.id = o /\ q = <<a, b, c, d>>
        BY <3>2, <3>5
      <4> HIDE DEF a
      <4>2. Head(q) = a /\ q[3] = c
        BY <4>1
      <4>3. Head(q).id \in RowsOf(q[3].id)
        BY <3>2, <3>3, <4>1, <4>2
      <4> QED
        BY <1>3, <3>1, <4>3
    <3> QED
      BY <3>1, <3>4, <3>5
  <2> QED
    BY <1>4, <2>1, <2>2, <2>3 DEF TitleBegins
<1>5. ASSUME NEW w \in Workers, TitleList(job[w].todo), Write(w) PROVE ClosingInv'
  <2> DEFINE q == job[w].todo
  <2>1. RequestInv /\ Sequence(q)
    BY DEF OfficeInv, RequestInv, JobRecord
  <2>2. Turns(w, Tail(q)) /\ q # <<>>
    BY <1>5, <2>1, Writing
  <2>3. job'[w].todo = Tail(q) /\ \A v \in Workers \ {w} : job'[v] = job[v]
    BY <2>2 DEF Turns
  <2>4. Len(Tail(q)) # 4
    <3>1. Len(q) \in 1..4
      BY <1>5, TitleLengths
    <3>2. Len(Tail(q)) = Len(q) - 1
      BY <2>1, <2>2 DEF Sequence
    <3>3. \A n \in 1..4 : n - 1 # 4
      OBVIOUS
    <3> QED
      BY ONLY <3>1, <3>2, <3>3
  <2>5. ASSUME NEW p \in Plots, NEW h \in RowsOf(p) PROVE h \in RowsOf(p)'
    <3>1. h \in History /\ file[h] # NoRow /\ file[h].plot = p
      BY DEF RowsOf
    <3>2. file'[h] # NoRow /\ file'[h].plot = p
      BY <1>5, <3>1, HistoryWritten
    <3> QED
      BY <3>1, <3>2 DEF RowsOf
  <2> QED
    BY <2>3, <2>4, <2>5, CloserTold, ClosingGoesOn
<1>6. ASSUME NEW w \in Workers, Die(w) PROVE ClosingInv'
  <2>1. Turns(w, <<>>) /\ file' = file
    BY <1>6, Dying DEF OfficeInv
  <2>2. job'[w].todo = <<>> /\ \A v \in Workers \ {w} : job'[v] = job[v]
    BY <2>1 DEF Turns
  <2>3. Len(<<>>) # 4 /\ \A p : RowsOf(p)' = RowsOf(p)
    BY <2>1, RowsStay
  <2> QED
    BY <2>2, <2>3, CloserTold, ClosingGoesOn
<1> QED
  BY <1>1, <1>2, <1>4, <1>5, <1>6, TitleMoves

LEMMA OwnerStep ==
  ASSUME OfficeInv, KindInv, OwnerInv, [Next]_societyVars
  PROVE  OwnerInv'
<1>0. ClosingInv /\ ClosingInv'
  BY ClosingStep DEF OwnerInv
<1> SUFFICES ASSUME NEW p \in Plots, Undisturbed(p, "owner")'
             PROVE  OwnerSound(p)'
  BY <1>0 DEF OwnerInv
<1>1. CASE UNCHANGED <<file, job, upset>>
  <2>1. OwnerSound(p)
    BY <1>1 DEF OwnerInv, Undisturbed
  <2>2. Book(p)' = Book(p)
    BY <1>1, BookKept
  <2>3. \A v \in Workers : Changing(v, p) => Changing(v, p)'
    BY <1>1, <2>2 DEF Changing, Replacing3, Removing2, Opening2, Moving1, Closing4, Buying3, Passing2
  <2> QED
    BY <1>1, <2>1, <2>2, <2>3 DEF OwnerSound
<1>2. ASSUME NEW w \in Workers, Leaving(Titles, w) PROVE OwnerSound(p)'
  <2>1. (\A h \in History : file'[h] = file[h]) /\ SameRow(p)
    BY <1>2 DEF Leaving, Titles
  <2>2. ~Changes(job[w].todo, p) /\ ~Changes(job'[w].todo, p)
    BY <1>2, SparesChanges DEF Leaving
  <2>3. PlotRow(file[p])
    BY TitlesTold DEF OfficeInv, RowInv, Typed, Titles
  <2>4. file'[p].owner = file[p].owner /\ file'[p].since = file[p].since
    BY <2>1, <2>3 DEF SameRow, PlotRow, Telling
  <2>5. OwnerSound(p)
    BY <1>2 DEF OwnerInv, Undisturbed, Leaving
  <2> QED
    BY <1>2, <2>1, <2>2, <2>4, <2>5, BookKept, PlotStays DEF Leaving
<1>3. ASSUME NEW w \in Workers, NEW q, Begin(w, q), Sequence(q), ~Changes(q, p) PROVE OwnerSound(p)'
  <2>1. Turns(w, q) /\ file' = file /\ upset \subseteq upset' /\ job[w] = Idle
    BY <1>3, Beginning DEF OfficeInv
  <2>2. job'[w].todo = q /\ \A v \in Workers \ {w} : job'[v] = job[v]
    BY <2>1 DEF Turns
  <2>3. OwnerSound(p)
    BY <2>1 DEF OwnerInv, Undisturbed
  <2>4. ~Changes(job[w].todo, p)
    BY <2>1, IdleChanges
  <2> QED
    BY <1>3, <2>1, <2>2, <2>3, <2>4, BookKept, PlotStays
<1>4. ASSUME NEW w \in Workers, NEW q, Begin(w, q), Sequence(q) PROVE OwnerSound(p)
  <2>1. upset \subseteq upset'
    BY <1>4, Beginning DEF OfficeInv
  <2> QED
    BY <2>1 DEF OwnerInv, Undisturbed
<1>5. ASSUME NEW w \in Workers, TitleBegins(w) PROVE OwnerSound(p)'
  <2>1. ASSUME NEW r \in Plots, NEW m \in Members \cup {None}, NEW h \in History, NEW g \in History, NEW q,
               EditBegins(w, r, m, h, g, q)
        PROVE  OwnerSound(p)'
    <3>1. Begin(w, q) /\ Sequence(q) /\ Changes(q, r)
      BY <2>1 DEF EditBegins, Changes
    <3>2. CASE r = p
      BY <1>4, <2>1, <3>1, <3>2, EditBeginsSound
    <3>3. CASE r # p
      BY <1>3, <3>1, <3>3, ChangesOnce
    <3> QED
      BY <3>2, <3>3
  <2>2. ASSUME NEW t \in Transfers, NEW q, StatusBegins(w, t, q) PROVE OwnerSound(p)'
    <3>1. TransferList(q, t) /\ Begin(w, q) /\ Sequence(q)
      BY <2>2 DEF StatusBegins, TransferList
    <3> QED
      BY <1>3, <3>1, ChangesOnce
  <2>3. ASSUME NEW r \in Plots, NEW to \in Members, NEW t \in Transfers, NEW h \in History, NEW q,
               DeedBegins(w, r, to, t, h, q)
        PROVE  OwnerSound(p)'
    <3>1. Begin(w, q) /\ Sequence(q) /\ Changes(q, r)
      BY <2>3 DEF DeedBegins, Changes
    <3>2. CASE r = p
      BY <1>4, <2>3, <3>1, <3>2, DeedBeginsSound
    <3>3. CASE r # p
      BY <1>3, <3>1, <3>3, ChangesOnce
    <3> QED
      BY <3>2, <3>3
  <2> QED
    BY <1>5, <2>1, <2>2, <2>3 DEF TitleBegins
<1>6. ASSUME NEW w \in Workers, TitleList(job[w].todo), Write(w) PROVE OwnerSound(p)'
  <2>1. OwnerSound(p)
    <3>1. upset' = upset
      BY <1>6, Writing DEF OfficeInv
    <3> QED
      BY <3>1 DEF OwnerInv, Undisturbed
  <2>2. CASE ~Changes(job[w].todo, p)
    BY <1>0, <1>6, <2>1, <2>2, OtherPlotWrites
  <2>3. CASE Changes(job[w].todo, p)
    <3>1. Writes(w, p)
      BY <1>6, <2>1, <2>3 DEF Writes
    <3>2. Changing(w, p)
      BY <2>1, <2>3 DEF OwnerSound
    <3> QED
      BY <3>1, <3>2, EndedWrites, OpeningWrites, MovingWrites, ClosingWrites, BuyingWrites, PassingWrites DEF Changing
  <2> QED
    BY <2>2, <2>3
<1>7. ASSUME NEW w \in Workers, Die(w) PROVE OwnerSound(p)'
  <2>1. upset \subseteq upset'
    BY <1>7, Dying DEF OfficeInv
  <2>2. OwnerSound(p)
    BY <2>1 DEF OwnerInv, Undisturbed
  <2> QED
    BY <1>7, <2>2, ChangeDies
<1> QED
  BY <1>1, <1>2, <1>5, <1>6, <1>7, TitleMoves

LEMMA OwnerInit ==
  ASSUME Init
  PROVE  OwnerInv
<1>1. job = [w \in Workers |-> Idle] /\ file = Allotted(First, Owner)
  BY DEF Init, TitleInit, RequestsInit
<1>2. \A w \in Workers : job[w].todo = <<>>
  BY <1>1, IdleJob
<1>3. ClosingInv
  <2>1. Len(<<>>) # 4
    OBVIOUS
  <2> QED
    BY <1>2, <2>1, CloserTold DEF ClosingInv
<1>4. ASSUME NEW p \in Plots PROVE OwnerSound(p)
  <2> DEFINE f == First[p]
             m == Owner[p]
             b == Book(p)
  <2>1. f \in History /\ m \in Members /\ m # None
    BY OwnersAssumption, NamesAssumption
  <2>2. file[p].owner = m /\ file[p].since = f
    <3>1. p \in Ids
      BY MainTablesApart DEF Shared
    <3>2. file[p] = [status |-> "Allotted", owner |-> Owner[p], since |-> First[p]]
      BY <1>1, <3>1 DEF Allotted
    <3> QED
      BY <3>2
  <2>3. ASSUME NEW h \in History, file[h] # NoRow
        PROVE  \E r \in Plots : h = First[r] /\ file[h] = OwnerRow(r, Owner[r], h, None)
    <3>1. h \in Ids /\ h \notin Plots
      BY MainTablesApart, TitlesTold DEF Applications
    <3> QED
      BY <1>1, <2>3, <3>1 DEF Allotted
  <2>4. file[f] = OwnerRow(p, m, f, None)
    <3>1. f \in Ids /\ f \notin Plots
      BY <2>1, TitlesTold DEF Titles
    <3>2. \E r \in Plots : f = First[r]
      OBVIOUS
    <3>3. file[f] = LET r == CHOOSE r \in Plots : f = First[r] IN OwnerRow(r, Owner[r], f, None)
      BY <1>1, <3>1, <3>2 DEF Allotted
    <3>4. (CHOOSE r \in Plots : f = First[r]) = p
      BY OwnersAssumption
    <3> QED
      BY <3>3, <3>4
  <2>5. /\ file[f].status = "open" /\ file[f].plot = p /\ file[f].member = m /\ file[f].since = f
        /\ file[f] # NoRow
    <3>1. /\ file[f].status = "open" /\ file[f].plot = p /\ file[f].member = m /\ file[f].since = f
      BY <2>4 DEF OwnerRow
    <3>2. NoRow.status = "none"
      BY NoRowStatus
    <3> QED
      BY <3>1, <3>2
  <2>6. \A r \in Plots : \A h : OwnerRow(r, Owner[r], h, None).plot = r
    BY DEF OwnerRow
  <2>7. RowsOf(p) = {f}
    <3>1. ASSUME NEW h \in RowsOf(p) PROVE h = f
      <4>1. h \in History /\ file[h] # NoRow /\ file[h].plot = p
        BY <3>1 DEF RowsOf
      <4>2. PICK r \in Plots : h = First[r] /\ file[h] = OwnerRow(r, Owner[r], h, None)
        BY <2>3, <4>1
      <4> QED
        BY <2>6, <4>1, <4>2
    <3>2. f \in RowsOf(p)
      BY <2>1, <2>5 DEF RowsOf
    <3> QED
      BY <3>1, <3>2
  <2>8. DOMAIN b = {f} /\ b[f] = file[f]
    BY <2>7 DEF Book
  <2> HIDE DEF f, m, b
  <2>9. Begun(b)
    BY <2>5, <2>8 DEF Begun
  <2>10. OnRecord(b, m, f)
    BY <2>1, <2>5, <2>8 DEF OnRecord, Current
  <2>11. \A w \in Workers : ~Changes(job[w].todo, p)
    BY <1>2, IdleChanges
  <2> QED
    BY <2>2, <2>9, <2>10, <2>11 DEF OwnerSound, b
<1> QED
  BY <1>3, <1>4 DEF OwnerInv

\* An interval is shown as open where a row began it and no row closes it.
LEMMA Shown ==
  ASSUME NEW p, Begun(Book(p))
  PROVE  {i \in DOMAIN getHistory(p) : getHistory(p)[i] = "open"} = {Interval(k) : k \in {j \in RowsOf(p) : Current(Book(p), j)}}
<1> DEFINE b == Book(p)
           R == RowsOf(p)
           I == {Interval(h) : h \in R}
           ended(i) == \E h \in R : Interval(h) = i /\ file[h].status = "closed"
<1>1. DOMAIN b = R /\ \A h \in R : b[h] = file[h]
  BY DEF Book
<1>2. \A h \in R : Interval(h) = <<file[h].member, file[h].since>>
  BY DEF Interval
<1>3. {i \in DOMAIN getHistory(p) : getHistory(p)[i] = "open"} = {i \in I : ~ended(i)}
  <2>1. getHistory(p) = [i \in I |-> IF ended(i) THEN "closed" ELSE "open"]
    BY DEF getHistory
  <2> HIDE DEF I, ended
  <2> QED
    BY <2>1
<1>4. ASSUME NEW h \in R
      PROVE  LET s == file[h].since IN
             s \in R /\ Interval(s) = Interval(h) /\ file[s].since = s /\ (~ended(Interval(h)) => Current(b, s))
  <2> DEFINE s == file[h].since
  <2>1. s \in R /\ file[s].member = file[h].member /\ file[s].since = s
    BY <1>1 DEF Begun
  <2>2. Interval(s) = Interval(h)
    BY <1>2, <2>1
  <2>3. ASSUME ~ended(Interval(h)) PROVE Current(b, s)
    <3>1. ASSUME NEW k \in R, file[k].since = s PROVE k = s /\ file[k].status = "open"
      <4>1. file[k].member = file[s].member
        BY <1>1, <3>1 DEF Begun
      <4>2. Interval(k) = Interval(h)
        BY <1>2, <2>1, <3>1, <4>1
      <4>3. file[k].status # "closed"
        BY <2>3, <4>2
      <4> QED
        BY <1>1, <3>1, <4>3 DEF Begun
    <3> QED
      BY <1>1, <2>1, <3>1 DEF Current
  <2> QED
    BY <2>1, <2>2, <2>3
<1>5. ASSUME NEW k \in R, Current(b, k) PROVE ~ended(Interval(k))
  <2>1. file[k].since = k
    BY <1>1, <1>5 DEF Current, Begun
  <2>2. ASSUME NEW h \in R, Interval(h) = Interval(k) PROVE h = k
    <3>1. file[h].since = k
      BY <1>2, <2>1, <2>2
    <3> QED
      BY <1>1, <1>5, <3>1 DEF Current
  <2> QED
    BY <1>1, <1>5, <2>2 DEF Current
<1>6. ASSUME NEW i \in I, ~ended(i) PROVE \E k \in R : Current(b, k) /\ i = Interval(k)
  <2>1. PICK h \in R : i = Interval(h)
    OBVIOUS
  <2> QED
    BY <1>4, <1>6, <2>1
<1> HIDE DEF ended, b
<1>7. {i \in I : ~ended(i)} = {Interval(k) : k \in {j \in R : Current(b, j)}}
  BY <1>5, <1>6
<1> QED
  BY <1>3, <1>7 DEF b

LEMMA OwnerShown ==
  ASSUME OfficeInv, OwnerInv
  PROVE  OwnerOnRecord
<1> SUFFICES ASSUME NEW p \in Plots, OwnerSettled(p)
             PROVE  LET shown == getHistory(p)
                        own == <<file[p].owner, file[p].since>>
                        open == {i \in DOMAIN shown : shown[i] = "open"}
                        openRows == {h \in RowsOf(p) : file[h].status = "open"} IN
                    /\ file[p].owner # None => own \in open
                    /\ \A i \in open \ {own} : \E j \in DOMAIN shown : j[1] = i[1] /\ j # i
                    /\ \/ \E h \in RowsOf(p) : file[h].by = "hand"
                       \/ {Interval(h) : h \in openRows} = {own} /\ Cardinality(openRows) = 1
  BY DEF OwnerOnRecord
<1> DEFINE b == Book(p)
           R == RowsOf(p)
           m == file[p].owner
           s == file[p].since
           own == <<m, s>>
           open == {i \in DOMAIN getHistory(p) : getHistory(p)[i] = "open"}
           openRows == {h \in R : file[h].status = "open"}
<1>1. OwnerSound(p)
  BY DEF OwnerInv, OwnerSettled
<1>2. ASSUME NEW w \in Workers PROVE ~Changes(job[w].todo, p)
  <2>1. ASSUME Changes(job[w].todo, p) PROVE FALSE
    <3>1. PICK x \in Left(w) : x.id = p /\ x.op = "update" /\ "owner" \in DOMAIN x.patch
      BY <2>1, ChangesTold DEF Left
    <3>2. <<p, "owner">> \in Pending(w)
      BY <3>1, PendingColumns
    <3> QED
      BY <3>2 DEF OwnerSettled, AtRest
  <2> QED
    BY <2>1
<1>3. OnRecord(b, m, s) /\ Begun(b)
  BY <1>1, <1>2 DEF OwnerSound
<1>4. DOMAIN b = R /\ \A h \in R : b[h] = file[h] /\ Interval(h) = <<file[h].member, file[h].since>>
  BY DEF Book, Interval
<1>5. open = {Interval(k) : k \in {j \in R : Current(b, j)}}
  BY <1>3, Shown
<1>6. DOMAIN getHistory(p) = {Interval(h) : h \in R}
  BY DEF getHistory
<1> HIDE DEF open, b, R, m, s
<1>7. \A k \in R : Current(b, k) => file[k].since = k
  BY <1>3, <1>4 DEF Current, Begun
<1>8. m # None => s \in R /\ Current(b, s) /\ Interval(s) = own
  BY <1>3, <1>4, <1>7 DEF OnRecord, Current
<1>9. m # None => own \in open
  BY <1>5, <1>8
<1>10. ASSUME NEW i \in open \ {own} PROVE \E j \in DOMAIN getHistory(p) : j[1] = i[1] /\ j # i
  <2>1. PICK k \in R : Current(b, k) /\ i = Interval(k)
    BY <1>5, <1>10
  <2>2. m = None \/ k # s
    BY <1>8, <1>10, <2>1
  <2>3. PICK h \in R : file[h].member = file[k].member /\ file[h].since # k
    BY <1>3, <1>4, <2>1, <2>2 DEF OnRecord, Another
  <2>4. Interval(h)[1] = i[1] /\ Interval(h) # i
    BY <1>4, <1>7, <2>1, <2>3
  <2> QED
    BY <1>6, <2>3, <2>4
<1>11. CASE ByHand(b)
  <2>1. \E h \in R : file[h].by = "hand"
    BY <1>4, <1>11 DEF ByHand
  <2> QED
    BY <1>9, <1>10, <2>1 DEF open, R, m, s
<1>12. CASE ~ByHand(b)
  <2>1. m # None /\ \A k \in R : file[k].status = "open" => k = s
    BY <1>3, <1>4, <1>12 DEF OnRecord
  <2>2. openRows = {s}
    BY <1>4, <1>8, <2>1 DEF Current
  <2>3. {Interval(h) : h \in openRows} = {own} /\ Cardinality(openRows) = 1
    <3>1. Interval(s) = own
      BY <1>8, <2>1
    <3>2. {Interval(h) : h \in {s}} = {Interval(s)}
      OBVIOUS
    <3>3. Cardinality({s}) = 1
      BY FS_Singleton
    <3> HIDE DEF openRows, own
    <3> QED
      BY <2>2, <3>1, <3>2, <3>3
  <2> QED
    BY <1>9, <1>10, <2>3 DEF open, R, m, s
<1> QED
  BY <1>11, <1>12

\* The history of a plot, as it is shown (properties/service.js:185), has its owner's
\* interval open, and another only of a member who had the plot twice, although
\* edits (properties/service.js:161) and completed transfers (transfers/service.js)
\* keep the history differently: unless two requests were to change the owner at
\* once, or one left him unwritten, and but while one is about to.
THEOREM OwnersStayOnRecord == Spec => []OwnerOnRecord
<1>1. Spec => []OwnerInv
  BY OwnerInit, OwnerStep, OfficeSound, KindsSound, PTL DEF Spec
<1> QED
  BY <1>1, OwnerShown, OfficeSound, PTL

-----------------------------------------------------------------------------
(* Versions of documents                                                   *)

DocumentRows == {d \in Documents : file[d] # NoRow}
Shelf == [d \in DocumentRows |-> [subject |-> file[d].subject, version |-> file[d].version, by |-> file[d].by]]

\* Documents of one subject; one the next version of the other; a later one is there.
Alike(sh, d, e)     == d \in DOMAIN sh /\ e \in DOMAIN sh /\ sh[d].subject = sh[e].subject
Follows(sh, e, d)   == Alike(sh, e, d) /\ sh[e].version = sh[d].version + 1
Superseded(sh, d)   == \E e \in DOMAIN sh : Alike(sh, d, e) /\ sh[d].version < sh[e].version
Filed(sh, s, n)     == \E e \in DOMAIN sh : sh[e].subject = s /\ sh[e].version = n

\* A mark names the next version, and no version is missing before the last one.
InOrder(sh) ==
  \A d \in DOMAIN sh :
    /\ sh[d].version \in 1..MaxVersion
    /\ sh[d].by # None => Follows(sh, sh[d].by, d)
    /\ \A n \in 1..sh[d].version : Filed(sh, sh[d].subject, n)

\* What is left of the upload of e after its insert, which is to mark d.
Superseding(q, d, e) == q = <<Linking(e), Replacing(d, e)>> \/ q = <<Replacing(d, e)>>

\* What is left of an upload, as it stands to the documents there are.
Uploading(q, sh) ==
  \/ \E d \in Documents, s \in Subjects : q = <<Bringing(d, s, 1), Linking(d)>>
  \/ \E d \in Documents, s \in Subjects, n \in 1..MaxVersion, last \in DOMAIN sh :
       /\ sh[last].subject = s /\ n = sh[last].version + 1
       /\ q = <<Bringing(d, s, n), Linking(d), Replacing(last, d)>>
  \/ \E d \in Documents, last \in DOMAIN sh : Superseding(q, last, d) /\ Follows(sh, d, last)

DocumentList(q) ==
  \E d \in Documents, s \in Subjects, n \in 1..MaxVersion : \E last : UploadList(q, d, s, n, last)

ShelfInv ==
  /\ InOrder(Shelf)
  /\ \A w \in Workers : DocumentList(job[w].todo) => Uploading(job[w].todo, Shelf)
  /\ \A w \in Workers : \A d, e \in Documents : Superseding(job[w].todo, d, e) => job[w].wrote

\* No two requests were to write a version at once.
NumberedOnce(s) == \A n \in 1..MaxVersion : Undisturbed(<<"document", s, n>>, "key")

\* A document with a later version is marked, or a request is about to mark it.
Marked(d, q) == \E e \in Documents : Superseding(q, d, e)
MarkInv ==
  \A d \in DocumentRows :
    NumberedOnce(Shelf[d].subject) /\ Superseded(Shelf, d) /\ Shelf[d].by = None /\ Undisturbed(d, "by")
      => \E w \in Workers : Marked(d, job[w].todo)

LEMMA DocumentsTold ==
  /\ Documents \subseteq Told /\ Documents \cap Titles = {} /\ Documents \cap Cases = {}
  /\ Documents \subseteq Ids /\ Documents \subseteq Shared /\ Documents \subseteq Founded
  /\ Documents \cap (History \cup Transfers) = {}
BY MainTablesApart DEF Told, Titles, Cases, Shared, Applications, Founded

\* Handlers that upload nothing leave the documents alone, as far as these go.
LEMMA DocumentMoves ==
  ASSUME OfficeInv, KindInv, [Next]_societyVars
  PROVE  \/ UNCHANGED <<file, job, upset>>
         \/ \E w \in Workers :
              \/ Leaving(Documents, w)
              \/ \E d \in Documents, s \in Subjects : UploadDocument(w, d, s)
              \/ DocumentList(job[w].todo) /\ (Write(w) \/ Die(w))
<1>1. ASSUME NEW w \in Workers, Blandly(w) PROVE Leaving(Documents, w)
  BY <1>1, BlandlyLeaves, DocumentsTold
<1>2. ASSUME NEW w \in Workers, NEW q, Begin(w, q), Sequence(q), Sparing(Documents, q) PROVE Leaving(Documents, w)
  BY <1>2, BeginLeaves, DocumentsTold
<1>3. ASSUME NEW w \in Workers, Threading(w) PROVE Leaving(Documents, w)
  <2>1. PICK x : ThreadList(<<x>>, x) /\ Begin(w, <<x>>) /\ Sequence(<<x>>)
    BY <1>3, ThreadBegins
  <2>2. Sparing(Documents, <<x>>)
    BY <2>1, ListsSpare, DocumentsTold
  <2> QED
    BY <1>2, <2>1, <2>2
<1>4. ASSUME NEW w \in Workers, Owning(w) PROVE Leaving(Documents, w)
  <2>1. PICK p \in Plots, m \in Members \cup {None}, h \in History, g \in History :
          \E q : EditBegins(w, p, m, h, g, q)
    BY <1>4, EditDoes
  <2>2. PICK q : EditBegins(w, p, m, h, g, q)
    BY <2>1
  <2> QED
    BY <1>2, <2>2, ListsSpare, DocumentsTold DEF EditBegins
<1>5. ASSUME NEW w \in Workers, TransferSteps(w) PROVE Leaving(Documents, w)
  <2>1. ASSUME NEW t \in Transfers, NEW q, StatusBegins(w, t, q) PROVE Leaving(Documents, w)
    <3>1. TransferList(q, t)
      BY <2>1 DEF StatusBegins, TransferList
    <3> QED
      BY <1>2, <2>1, <3>1, ListsSpare, DocumentsTold DEF StatusBegins
  <2>2. ASSUME NEW p \in Plots, NEW to \in Members, NEW t \in Transfers, NEW h \in History, NEW q,
               DeedBegins(w, p, to, t, h, q)
        PROVE  Leaving(Documents, w)
    BY <1>2, <2>2, ListsSpare, DocumentsTold DEF DeedBegins
  <2> QED
    BY <1>5, <2>1, <2>2, TransferDoes
<1>6. ASSUME NEW w \in Workers, Write(w) \/ Die(w)
      PROVE  Leaving(Documents, w) \/ DocumentList(job[w].todo)
  <2>1. Sparing(Documents, job[w].todo) \/ DocumentList(job[w].todo)
    <3> DEFINE q == job[w].todo
    <3>1. Kind(q)
      BY DEF KindInv
    <3> HIDE DEF q
    <3>2. /\ Calm(q) => Sparing(Documents, q)
          /\ \A x : ThreadList(q, x) => Sparing(Documents, q)
          /\ \A p \in Plots, g \in History : \A m : EditList(q, p, m, g) => Sparing(Documents, q)
          /\ \A p \in Plots, t \in Transfers, h \in History : \A m : DeedList(q, p, m, t, h) => Sparing(Documents, q)
          /\ \A t \in Transfers : TransferList(q, t) => Sparing(Documents, q)
      BY ListsSpare, DocumentsTold
    <3>3. \/ Calm(q)
          \/ \E x : ThreadList(q, x)
          \/ DocumentList(q)
          \/ \E p \in Plots, g \in History : \E m : EditList(q, p, m, g)
          \/ \E p \in Plots, t \in Transfers, h \in History : \E m : DeedList(q, p, m, t, h)
          \/ \E t \in Transfers : TransferList(q, t)
      BY <3>1 DEF Kind, DocumentList
    <3>4. Sparing(Documents, q) \/ DocumentList(q)
      BY <3>2, <3>3
    <3> QED
      BY <3>4 DEF q
  <2> QED
    BY <1>6, <2>1, WriteLeaves, DieLeaves, DocumentsTold
<1>7. \/ UNCHANGED <<file, job, upset>>
      \/ \E w \in Workers :
              \/ Blandly(w) \/ Threading(w) \/ Owning(w) \/ TransferSteps(w) \/ Write(w) \/ Die(w)
              \/ \E d \in Documents, s \in Subjects : UploadDocument(w, d, s)
  BY Splits
<1> QED
  BY <1>1, <1>3, <1>4, <1>5, <1>6, <1>7

\* An upload does not spare the documents.
LEMMA UploadsWrite ==
  ASSUME NEW q, Sparing(Documents, q)
  PROVE  ~DocumentList(q) /\ \A d, e \in Documents : ~Superseding(q, d, e)
<1>1. ASSUME NEW d \in Documents, NEW s, NEW n PROVE ~Spares(Documents, Bringing(d, s, n))
  BY WriteFields DEF Bringing, Spares
<1>2. ASSUME NEW d \in Documents, NEW e PROVE ~Spares(Documents, Replacing(d, e))
  <2> DEFINE x == Replacing(d, e)
  <2>1. x.id = d /\ x.patch = [by |-> e]
    BY WriteFields DEF Replacing
  <2>2. "by" \in DOMAIN x.patch /\ "by" \in Telling
    BY <2>1 DEF Telling
  <2> QED
    BY <2>1, <2>2 DEF Spares
<1>3. \A d, e \in Documents : ~Superseding(q, d, e)
  <2> SUFFICES ASSUME NEW d \in Documents, NEW e \in Documents, Superseding(q, d, e) PROVE FALSE
    OBVIOUS
  <2>1. Replacing(d, e) \in ToSet(q)
    BY Tuple1, Tuple2 DEF Superseding
  <2> QED
    BY <1>2, <2>1 DEF Sparing
<1>4. ~DocumentList(q)
  <2> SUFFICES ASSUME NEW d \in Documents, NEW s \in Subjects, NEW n \in 1..MaxVersion, NEW last, UploadList(q, d, s, n, last)
               PROVE  FALSE
    BY DEF DocumentList
  <2>1. Bringing(d, s, n) \in ToSet(q) \/ (last \in Documents /\ Superseding(q, last, d))
    BY Tuple2, Tuple3 DEF UploadList, Superseding
  <2> QED
    BY <1>1, <1>3, <2>1 DEF Sparing
<1> QED
  BY <1>3, <1>4

\* What the shelf says.
LEMMA ShelfIs ==
  /\ DOMAIN Shelf = DocumentRows /\ DocumentRows \subseteq Documents
  /\ \A d \in DocumentRows : /\ Shelf[d].subject = file[d].subject /\ Shelf[d].version = file[d].version
                             /\ Shelf[d].by = file[d].by
BY DEF Shelf, DocumentRows

LEMMA ShelfTyped ==
  ASSUME RowInv, NEW d \in DocumentRows
  PROVE  /\ d \in Documents /\ d \in Ids /\ DocRow(file[d]) /\ file[d] # NoRow
         /\ Shelf[d].subject \in Subjects /\ Shelf[d].version \in 1..MaxVersion /\ Shelf[d].by \in Documents \cup {None}
<1>1. d \in Documents /\ d \in Ids /\ file[d] # NoRow
  BY DocumentsTold DEF DocumentRows
<1>2. DocRow(file[d])
  BY <1>1 DEF RowInv, Typed
<1> QED
  BY <1>1, <1>2, ShelfIs DEF DocRow

LEMMA ShelfKept ==
  ASSUME RowInv, RowInv', \A d \in Documents : SameRow(d)
  PROVE  Shelf' = Shelf /\ DocumentRows' = DocumentRows
<1>1. DocumentRows' = DocumentRows
  BY DEF DocumentRows, SameRow
<1>2. ASSUME NEW d \in DocumentRows
      PROVE  file'[d].subject = file[d].subject /\ file'[d].version = file[d].version /\ file'[d].by = file[d].by
  <2>1. SameRow(d) /\ DocRow(file[d])
    BY ShelfTyped
  <2> QED
    BY <2>1 DEF SameRow, DocRow, Telling
<1> QED
  BY <1>1, <1>2 DEF Shelf

\* A document of version n is added; a document is marked.
Adding(sh, g, s, n, sh2) ==
  /\ g \notin DOMAIN sh /\ DOMAIN sh2 = DOMAIN sh \cup {g}
  /\ sh2[g].subject = s /\ sh2[g].version = n /\ sh2[g].by = None
  /\ \A d \in DOMAIN sh : sh2[d] = sh[d]

Replaces(sh, last, e, sh2) ==
  /\ last \in DOMAIN sh /\ DOMAIN sh2 = DOMAIN sh /\ sh2[last].by = e
  /\ \A d \in DOMAIN sh : sh2[d].subject = sh[d].subject /\ sh2[d].version = sh[d].version
  /\ \A d \in DOMAIN sh : d # last => sh2[d].by = sh[d].by

\* What is there stays there.
Extends(sh, sh2) ==
  /\ DOMAIN sh \subseteq DOMAIN sh2
  /\ \A d \in DOMAIN sh : sh2[d].subject = sh[d].subject /\ sh2[d].version = sh[d].version

LEMMA AddingExtends ==
  ASSUME NEW sh, NEW g, NEW s, NEW n, NEW sh2, Adding(sh, g, s, n, sh2)
  PROVE  Extends(sh, sh2)
BY DEF Adding, Extends

LEMMA ReplacesExtends ==
  ASSUME NEW sh, NEW g, NEW e, NEW sh2, Replaces(sh, g, e, sh2)
  PROVE  Extends(sh, sh2)
BY DEF Replaces, Extends

LEMMA FollowsStays ==
  ASSUME NEW sh, NEW sh2, Extends(sh, sh2), NEW e, NEW d, Follows(sh, e, d)
  PROVE  Follows(sh2, e, d)
BY DEF Extends, Follows, Alike

LEMMA UploadingStays ==
  ASSUME NEW sh, NEW sh2, Extends(sh, sh2), NEW q, Uploading(q, sh)
  PROVE  Uploading(q, sh2)
<1>1. CASE \E d \in Documents, s \in Subjects : q = <<Bringing(d, s, 1), Linking(d)>>
  BY <1>1 DEF Uploading
<1>2. ASSUME NEW d \in Documents, NEW s \in Subjects, NEW n \in 1..MaxVersion, NEW last \in DOMAIN sh,
             sh[last].subject = s, n = sh[last].version + 1,
             q = <<Bringing(d, s, n), Linking(d), Replacing(last, d)>>
      PROVE  Uploading(q, sh2)
  <2>1. last \in DOMAIN sh2 /\ sh2[last].subject = s /\ n = sh2[last].version + 1
    BY <1>2 DEF Extends
  <2> QED
    BY <1>2, <2>1 DEF Uploading
<1>3. ASSUME NEW d \in Documents, NEW last \in DOMAIN sh, Superseding(q, last, d), Follows(sh, d, last)
      PROVE  Uploading(q, sh2)
  <2>1. last \in DOMAIN sh2 /\ Follows(sh2, d, last)
    BY <1>3, FollowsStays DEF Extends
  <2> QED
    BY <1>3, <2>1 DEF Uploading
<1> QED
  BY <1>1, <1>2, <1>3 DEF Uploading

LEMMA OrderAdds ==
  ASSUME NEW sh, InOrder(sh), NEW g, NEW s, NEW n \in 1..MaxVersion, NEW sh2, Adding(sh, g, s, n, sh2),
         n = 1 \/ \E last \in DOMAIN sh : sh[last].subject = s /\ n = sh[last].version + 1
  PROVE  InOrder(sh2)
<1>0. MaxVersion \in Nat
  BY RecordsAssumption
<1>1. \A t, k : Filed(sh, t, k) => Filed(sh2, t, k)
  BY DEF Filed, Adding
<1>2. ASSUME NEW d \in DOMAIN sh
      PROVE  /\ sh2[d].version \in 1..MaxVersion /\ (sh2[d].by # None => Follows(sh2, sh2[d].by, d))
             /\ \A k \in 1..sh2[d].version : Filed(sh2, sh2[d].subject, k)
  <2>1. sh2[d] = sh[d]
    BY DEF Adding
  <2>2. sh[d].by # None => Follows(sh2, sh[d].by, d)
    BY AddingExtends, FollowsStays DEF InOrder
  <2> QED
    BY <1>1, <2>1, <2>2 DEF InOrder
<1>3. ASSUME NEW k \in 1..n PROVE Filed(sh2, s, k)
  <2>1. CASE k = n
    BY <2>1 DEF Filed, Adding
  <2>2. CASE k # n
    <3>1. n # 1 /\ k \in 1..(n - 1)
      BY <1>0, <2>2
    <3>2. PICK last \in DOMAIN sh : sh[last].subject = s /\ n = sh[last].version + 1
      BY <3>1
    <3>3. sh[last].version \in 1..MaxVersion
      BY DEF InOrder
    <3>4. k \in 1..sh[last].version
      BY <1>0, <3>1, <3>2, <3>3
    <3>5. Filed(sh, s, k)
      BY <3>2, <3>4 DEF InOrder
    <3> QED
      BY <1>1, <3>5
  <2> QED
    BY <2>1, <2>2
<1>4. g \in DOMAIN sh2 /\ sh2[g].version = n /\ sh2[g].by = None /\ sh2[g].subject = s
  BY DEF Adding
<1>5. \A d \in DOMAIN sh2 : d \in DOMAIN sh \/ d = g
  BY DEF Adding
<1>6. /\ sh2[g].version \in 1..MaxVersion /\ (sh2[g].by # None => Follows(sh2, sh2[g].by, g))
      /\ \A k \in 1..sh2[g].version : Filed(sh2, sh2[g].subject, k)
  BY <1>3, <1>4
<1> QED
  BY <1>2, <1>5, <1>6 DEF InOrder

LEMMA OrderMarks ==
  ASSUME NEW sh, InOrder(sh), NEW last, NEW e, NEW sh2, Replaces(sh, last, e, sh2), Follows(sh, e, last)
  PROVE  InOrder(sh2)
<1>1. \A t, k : Filed(sh, t, k) => Filed(sh2, t, k)
  BY DEF Filed, Replaces
<1>2. ASSUME NEW d \in DOMAIN sh
      PROVE  /\ sh2[d].version \in 1..MaxVersion /\ (sh2[d].by # None => Follows(sh2, sh2[d].by, d))
             /\ \A k \in 1..sh2[d].version : Filed(sh2, sh2[d].subject, k)
  <2>1. sh2[d].version = sh[d].version /\ sh2[d].subject = sh[d].subject
    BY DEF Replaces
  <2>2. sh2[d].by # None => Follows(sh, sh2[d].by, d)
    BY DEF Replaces, InOrder
  <2>3. sh2[d].by # None => Follows(sh2, sh2[d].by, d)
    BY <2>2, ReplacesExtends, FollowsStays
  <2> QED
    BY <1>1, <2>1, <2>3 DEF InOrder
<1> QED
  BY <1>2 DEF InOrder, Replaces

\* A document with no successor before a new one is added has the version before it.
LEMMA Overtaken ==
  ASSUME NEW sh, InOrder(sh), NEW g, NEW s, NEW n, NEW sh2, Adding(sh, g, s, n, sh2),
         NEW d \in DOMAIN sh, Superseded(sh2, d), ~Superseded(sh, d)
  PROVE  sh[d].subject = s /\ sh[d].version < n
<1>1. PICK e \in DOMAIN sh2 : Alike(sh2, d, e) /\ sh2[d].version < sh2[e].version
  BY DEF Superseded
<1>2. CASE e = g
  BY <1>1, <1>2 DEF Alike, Adding
<1>3. CASE e # g
  <2>1. e \in DOMAIN sh /\ sh2[e] = sh[e] /\ sh2[d] = sh[d]
    BY <1>3 DEF Adding
  <2> QED
    BY <1>1, <2>1 DEF Alike, Superseded
<1> QED
  BY <1>2, <1>3

\* A version no document has is not yet superseded when it is added.
LEMMA Foremost ==
  ASSUME NEW sh, InOrder(sh), NEW g, NEW s, NEW n \in Nat \ {0}, NEW sh2, Adding(sh, g, s, n, sh2), ~Filed(sh, s, n)
  PROVE  ~Superseded(sh2, g) /\ \A d \in DOMAIN sh : sh[d].subject = s => sh[d].version < n
<1>0. MaxVersion \in Nat
  BY RecordsAssumption
<1>1. ASSUME NEW d \in DOMAIN sh, sh[d].subject = s PROVE sh[d].version < n
  <2>1. sh[d].version \in 1..MaxVersion /\ \A k \in 1..sh[d].version : Filed(sh, s, k)
    BY <1>1 DEF InOrder
  <2>2. n \notin 1..sh[d].version
    BY <2>1
  <2> QED
    BY <1>0, <2>1, <2>2
<1>2. ASSUME NEW e \in DOMAIN sh2, Alike(sh2, g, e), sh2[g].version < sh2[e].version PROVE FALSE
  <2>1. e \in DOMAIN sh
    BY <1>2 DEF Adding
  <2>2. sh[e].subject = s /\ n < sh[e].version /\ sh[e].version \in 1..MaxVersion
    BY <1>2, <2>1 DEF Adding, Alike, InOrder
  <2>3. sh[e].version < n
    BY <1>1, <2>1, <2>2
  <2> QED
    BY <1>0, <2>2, <2>3
<1> QED
  BY <1>1, <1>2 DEF Superseded

\* What the statements of an upload do to the documents.
LEMMA Brings ==
  ASSUME OfficeInv, NEW w \in Workers, Write(w), NEW d \in Documents, NEW s \in Subjects, NEW n \in 1..MaxVersion,
         Head(job[w].todo) = Bringing(d, s, n)
  PROVE  Adding(Shelf, d, s, n, Shelf') /\ DocumentRows' = DocumentRows \cup {d} /\ d \notin DocumentRows
<1> DEFINE q == job[w].todo
           x == Head(q)
           r == DocumentRow(s, n)
<1>1. RequestInv /\ RowInv /\ FreshInv /\ Sequence(q)
  BY DEF OfficeInv, RequestInv, JobRecord
<1>2. /\ q # <<>> /\ x \in Left(w)
      /\ \A id \in Ids : file'[id] = IF id = x.id THEN Result(x, file[id]) ELSE file[id]
  BY <1>1, Writing
<1>3. x = q[1] /\ 1 \in DOMAIN q
  <2>1. 1 \in DOMAIN q
    BY <1>1, <1>2 DEF Sequence
  <2> QED
    BY <1>1, <1>2, <2>1, Behead
<1>4. x.op = "insert" /\ x.id = d /\ x.patch = r
  BY WriteFields DEF Bringing
<1>5. r.subject = s /\ r.version = n /\ r.by = None /\ "subject" \in DOMAIN r
  BY DEF DocumentRow
<1> HIDE DEF x, q, r
<1>6. file[d] = NoRow
  <2>1. Founds(x)
    BY <1>4, DocumentsTold DEF Founds
  <2> QED
    BY <1>1, <1>3, <1>4, <2>1 DEF FreshInv, q
<1>7. file'[d] = r /\ r # NoRow
  <2>1. file'[d] = r
    BY <1>2, <1>4, DocumentsTold DEF Result
  <2>2. r # NoRow
    BY <1>5, WriteFields DEF Telling
  <2> QED
    BY <2>1, <2>2
<1>8. \A e \in Documents \ {d} : file'[e] = file[e]
  BY <1>2, <1>4, DocumentsTold
<1>9. DocumentRows' = DocumentRows \cup {d} /\ d \notin DocumentRows
  BY <1>6, <1>7, <1>8 DEF DocumentRows
<1>10. /\ DOMAIN Shelf = DocumentRows /\ DOMAIN Shelf' = DocumentRows'
       /\ \A e \in DocumentRows \ {d} : Shelf'[e] = Shelf[e]
       /\ Shelf'[d] = [subject |-> file'[d].subject, version |-> file'[d].version, by |-> file'[d].by]
  BY <1>8, <1>9 DEF Shelf, DocumentRows
<1> QED
  BY <1>5, <1>7, <1>9, <1>10 DEF Adding

LEMMA Links ==
  ASSUME OfficeInv, OfficeInv', NEW w \in Workers, Write(w), NEW d \in Documents, Head(job[w].todo) = Linking(d)
  PROVE  Shelf' = Shelf /\ DocumentRows' = DocumentRows
<1> DEFINE q == job[w].todo
           x == Head(q)
           p == [url |-> TRUE]
<1>1. RequestInv /\ RowInv /\ RowInv'
  BY DEF OfficeInv
<1>2. \A id \in Ids : file'[id] = IF id = x.id THEN Result(x, file[id]) ELSE file[id]
  BY <1>1, Writing
<1>3. x.op = "update" /\ x.id = d /\ x.patch = p
  BY WriteFields DEF Linking
<1>4. \A c \in Telling : c \notin DOMAIN p
  BY DEF Telling
<1> HIDE DEF x, q, p
<1>5. ASSUME NEW e \in Documents PROVE SameRow(e)
  <2>1. CASE e # d
    BY <1>2, <1>3, <2>1, DocumentsTold DEF SameRow
  <2>2. CASE e = d /\ file[d] = NoRow
    BY <1>2, <1>3, <2>2, DocumentsTold DEF SameRow, Result
  <2>3. CASE e = d /\ file[d] # NoRow
    <3>1. file'[d] = Over(p, file[d])
      BY <1>2, <1>3, <2>3, DocumentsTold DEF Result
    <3> QED
      BY <1>1, <1>4, <2>3, <3>1, StaysThere, DocumentsTold DEF SameRow
  <2> QED
    BY <2>1, <2>2, <2>3
<1> QED
  BY <1>1, <1>5, ShelfKept

LEMMA ReplacesShelf ==
  ASSUME OfficeInv, NEW w \in Workers, Write(w), NEW e \in Documents, NEW last \in DocumentRows,
         Head(job[w].todo) = Replacing(last, e)
  PROVE  Replaces(Shelf, last, e, Shelf') /\ DocumentRows' = DocumentRows
<1> DEFINE q == job[w].todo
           x == Head(q)
           p == [by |-> e]
<1>1. RequestInv /\ RowInv
  BY DEF OfficeInv
<1>2. \A id \in Ids : file'[id] = IF id = x.id THEN Result(x, file[id]) ELSE file[id]
  BY <1>1, Writing
<1>3. x.op = "update" /\ x.id = last /\ x.patch = p
  BY WriteFields DEF Replacing
<1>4. DOMAIN p = {"by"} /\ p.by = e
  OBVIOUS
<1>5. last \in Documents /\ last \in Ids /\ DocRow(file[last]) /\ file[last] # NoRow
  BY <1>1, ShelfTyped
<1> HIDE DEF x, q, p
<1>6. file'[last] = Over(p, file[last])
  BY <1>2, <1>3, <1>5 DEF Result
<1>7. {"subject", "version", "by"} \subseteq DOMAIN file[last]
  BY <1>5 DEF DocRow
<1>8. /\ file'[last].by = e /\ file'[last].subject = file[last].subject /\ file'[last].version = file[last].version
      /\ "by" \in DOMAIN file'[last]
  BY <1>4, <1>6, <1>7, OverColumns
<1>9. file'[last] # NoRow
  BY <1>8, WriteFields DEF Telling
<1>10. \A d \in Documents \ {last} : file'[d] = file[d]
  BY <1>2, <1>3, DocumentsTold
<1>11. DocumentRows' = DocumentRows
  BY <1>5, <1>9, <1>10 DEF DocumentRows
<1>12. /\ DOMAIN Shelf = DocumentRows /\ DOMAIN Shelf' = DocumentRows
       /\ \A d \in DocumentRows : /\ Shelf[d].subject = file[d].subject /\ Shelf[d].version = file[d].version
                                  /\ Shelf[d].by = file[d].by
       /\ \A d \in DocumentRows : /\ Shelf'[d].subject = file'[d].subject /\ Shelf'[d].version = file'[d].version
                                  /\ Shelf'[d].by = file'[d].by
  BY <1>11 DEF Shelf
<1>13. \A d \in DocumentRows \ {last} : file'[d] = file[d]
  BY <1>10 DEF DocumentRows
<1> QED
  BY <1>8, <1>11, <1>12, <1>13 DEF Replaces

\* A document that stays as it was, but for its links, and whose request is not the one
\* that moves.
LEMMA MarkStays ==
  ASSUME MarkInv, NEW w \in Workers, upset \subseteq upset', \A v \in Workers \ {w} : job'[v] = job[v],
         NEW d \in DocumentRows, Superseded(Shelf, d), Shelf[d].by = None, NEW s, Shelf[d].subject = s,
         NumberedOnce(s)', Undisturbed(d, "by")',
         \A e \in Documents : Superseding(job[w].todo, d, e) => Superseding(job'[w].todo, d, e)
  PROVE  \E v \in Workers : Marked(d, job'[v].todo)
<1>2. Undisturbed(d, "by")
  BY DEF Undisturbed
<1>3. NumberedOnce(s)
  BY DEF Undisturbed, NumberedOnce
<1>4. PICK v \in Workers : Marked(d, job[v].todo)
  BY <1>2, <1>3 DEF MarkInv
<1>5. PICK e \in Documents : Superseding(job[v].todo, d, e)
  BY <1>4 DEF Marked
<1>6. Superseding(job'[v].todo, d, e)
  BY <1>5
<1> QED
  BY <1>6 DEF Marked

\* A step that leaves the documents.
LEMMA ShelfStays ==
  ASSUME ShelfInv, MarkInv, Shelf' = Shelf, DocumentRows' = DocumentRows, upset \subseteq upset',
         NEW w \in Workers, \A v \in Workers \ {w} : job'[v] = job[v], NEW r, job'[w].todo = r,
         DocumentList(r) => Uploading(r, Shelf),
         \A d, e \in Documents : Superseding(r, d, e) => job'[w].wrote,
         \A d, e \in Documents : Superseding(job[w].todo, d, e) => Superseding(r, d, e) \/ ~Undisturbed(d, "by")'
  PROVE  ShelfInv' /\ MarkInv'
<1> DEFINE sh == Shelf
<1>1. InOrder(Shelf')
  BY DEF ShelfInv
<1>2. ASSUME NEW v \in Workers PROVE DocumentList(job'[v].todo) => Uploading(job'[v].todo, Shelf')
  BY DEF ShelfInv
<1>3. ASSUME NEW v \in Workers, NEW d \in Documents, NEW e \in Documents, Superseding(job'[v].todo, d, e) PROVE job'[v].wrote
  <2>1. CASE v = w
    BY <1>3, <2>1
  <2>2. CASE v # w
    BY <1>3, <2>2 DEF ShelfInv
  <2> QED
    BY <2>1, <2>2
<1>4. ShelfInv'
  BY <1>1, <1>2, <1>3 DEF ShelfInv
<1>5. ASSUME NEW d \in DocumentRows, NEW s, Shelf[d].subject = s, NumberedOnce(s)', Superseded(Shelf, d),
             Shelf[d].by = None, Undisturbed(d, "by")'
      PROVE  \E v \in Workers : Marked(d, job'[v].todo)
  <2>1. d \in Documents
    BY ShelfIs
  <2>2. \A e \in Documents : Superseding(job[w].todo, d, e) => Superseding(job'[w].todo, d, e)
    BY <1>5, <2>1
  <2> QED
    BY <1>5, <2>2, MarkStays
<1>6. MarkInv'
  <2> SUFFICES ASSUME NEW d \in DocumentRows', NumberedOnce(Shelf[d].subject)', Superseded(Shelf', d),
                      Shelf'[d].by = None, Undisturbed(d, "by")'
               PROVE  \E v \in Workers : Marked(d, job'[v].todo)
    BY DEF MarkInv
  <2>1. PICK s : s = Shelf[d].subject
    OBVIOUS
  <2>2. NumberedOnce(s)'
    BY <2>1 DEF NumberedOnce
  <2> QED
    BY <1>5, <2>1, <2>2
<1> QED
  BY <1>4, <1>6

\* Versions of which no two requests wrote one have one document each.
LEMMA Keys ==
  ASSUME OfficeInv, NEW s \in Subjects, NEW e \in DocumentRows, Shelf[e].subject = s, NEW n, Shelf[e].version = n
  PROVE  /\ e \in Ids /\ "key" \in DOMAIN file[e] /\ file[e].key = <<"document", s, n>> /\ n \in 1..MaxVersion
         /\ e \in Holders(<<"document", s, n>>)
<1>1. RowInv
  BY DEF OfficeInv
<1>2. e \in Ids /\ DocRow(file[e]) /\ Shelf[e].subject = file[e].subject /\ Shelf[e].version = file[e].version
  BY <1>1, ShelfTyped, ShelfIs
<1>3. "key" \in DOMAIN file[e] /\ file[e].key = <<"document", s, n>> /\ n \in 1..MaxVersion
  BY <1>2 DEF DocRow
<1> QED
  BY <1>2, <1>3 DEF Holders

LEMMA Twins ==
  ASSUME OfficeInv, NEW s \in Subjects, NumberedOnce(s), NEW d \in DocumentRows, NEW e \in DocumentRows,
         Shelf[d].subject = s, Shelf[e].subject = s, Shelf[d].version = Shelf[e].version
  PROVE  d = e
<1> DEFINE n == Shelf[d].version
<1>1. /\ d \in Ids /\ "key" \in DOMAIN file[d] /\ file[d].key = <<"document", s, n>>
      /\ e \in Ids /\ "key" \in DOMAIN file[e] /\ file[e].key = <<"document", s, n>>
      /\ n \in 1..MaxVersion
  BY Keys
<1>2. Undisturbed(<<"document", s, n>>, "key")
  BY <1>1 DEF NumberedOnce
<1>3. OneHolder
  BY DEF OfficeInv, KeyInv
<1> HIDE DEF n
<1> QED
  BY <1>1, <1>2, <1>3 DEF OneHolder

LEMMA NotFiled ==
  ASSUME OfficeInv, NEW w \in Workers, NEW d \in Documents \ DocumentRows, NEW s \in Subjects, NEW n \in 1..MaxVersion,
         Bringing(d, s, n) \in Left(w), NumberedOnce(s)
  PROVE  ~Filed(Shelf, s, n)
<1> DEFINE x == Bringing(d, s, n)
           k == <<"document", s, n>>
<1>1. x.id = d /\ Keyed(x) /\ x.patch.key = k
  BY WriteFields DEF Bringing, DocumentRow, Keyed
<1> HIDE DEF x
<1>2. \A i \in Holders(k) : i = d \/ ~Undisturbed(k, "key")
  BY <1>1 DEF OfficeInv, KeyInv, FreeKey, x
<1>3. Undisturbed(k, "key")
  BY DEF NumberedOnce
<1>4. ASSUME NEW e \in DOMAIN Shelf, Shelf[e].subject = s, Shelf[e].version = n PROVE FALSE
  <2>1. e \in DocumentRows
    BY ShelfIs
  <2>2. e \in Holders(k)
    BY <1>4, <2>1, Keys
  <2> QED
    BY <1>2, <1>3, <2>1, <2>2
<1> QED
  BY <1>4 DEF Filed

LEMMA NoMarks ==
         /\ \A d, e : ~Superseding(<<>>, d, e)
         /\ \A d \in Documents, x, y \in Documents : ~Superseding(<<Linking(d)>>, x, y)
         /\ \A d \in Documents : ~DocumentList(<<Linking(d)>>)
         /\ ~DocumentList(<<>>)
<1>1. \A d \in Documents : Sparing(Documents, <<Linking(d)>>) /\ Sparing(Documents, <<>>)
  BY LinkingCalm, ListsSpare, DocumentsTold
<1>2. Sparing(Documents, <<>>)
  BY ListsSpare, DocumentsTold
<1>3. \A d, e : ~Superseding(<<>>, d, e)
  BY Tails DEF Superseding
<1> QED
  BY <1>1, <1>2, <1>3, UploadsWrite

\* The insert of a document.
LEMMA BringSound ==
  ASSUME OfficeInv, ShelfInv, MarkInv, NEW w \in Workers, Write(w),
         NEW d \in Documents, NEW s \in Subjects, NEW n \in 1..MaxVersion,
         Head(job[w].todo) = Bringing(d, s, n), NEW r, Tail(job[w].todo) = r,
         \A x, e \in Documents : ~Superseding(job[w].todo, x, e),
         \/ n = 1 /\ r = <<Linking(d)>>
         \/ \E last \in DocumentRows :
              Shelf[last].subject = s /\ n = Shelf[last].version + 1 /\ r = <<Linking(d), Replacing(last, d)>>
  PROVE  ShelfInv' /\ MarkInv'
<1>0. RequestInv /\ RowInv /\ MaxVersion \in Nat
  BY RecordsAssumption DEF OfficeInv
<1>1. /\ Turns(w, r) /\ upset' = upset /\ Bringing(d, s, n) \in Left(w)
      /\ r # <<>> => job'[w].wrote
  BY <1>0, Writing
<1>2. job'[w].todo = r /\ \A v \in Workers \ {w} : job'[v] = job[v]
  BY <1>1 DEF Turns
<1>3. Adding(Shelf, d, s, n, Shelf') /\ DocumentRows' = DocumentRows \cup {d} /\ d \notin DocumentRows
  BY Brings
<1>4. InOrder(Shelf) /\ DOMAIN Shelf = DocumentRows /\ DocumentRows \subseteq Documents
  BY ShelfIs DEF ShelfInv
<1>5. InOrder(Shelf')
  BY <1>3, <1>4, OrderAdds
<1>6. Extends(Shelf, Shelf')
  BY <1>3, AddingExtends
<1>7. r # <<>>
  <2>1. (\E a : r = <<a>>) \/ \E a, b : r = <<a, b>>
    OBVIOUS
  <2>2. \A a, b : <<a>> # <<>> /\ <<a, b>> # <<>>
    BY Tails
  <2> QED
    BY ONLY <2>1, <2>2
<1>8. DocumentList(r) => Uploading(r, Shelf')
  <2>1. CASE r = <<Linking(d)>>
    BY <2>1, NoMarks
  <2>2. ASSUME NEW last \in DocumentRows, Shelf[last].subject = s, n = Shelf[last].version + 1,
               r = <<Linking(d), Replacing(last, d)>>
        PROVE  Uploading(r, Shelf')
    <3>1. last \in DOMAIN Shelf' /\ Follows(Shelf', d, last)
      BY <1>3, <1>4, <2>2 DEF Adding, Follows, Alike
    <3>2. Superseding(r, last, d)
      BY <2>2 DEF Superseding
    <3> QED
      BY <3>1, <3>2 DEF Uploading
  <2> QED
    BY <2>1, <2>2
<1>9. ASSUME NEW v \in Workers PROVE DocumentList(job'[v].todo) => Uploading(job'[v].todo, Shelf')
  <2>1. CASE v = w
    BY <1>2, <1>8, <2>1
  <2>2. CASE v # w
    <3>1. job'[v] = job[v]
      BY <1>2, <2>2
    <3>2. DocumentList(job[v].todo) => Uploading(job[v].todo, Shelf)
      BY DEF ShelfInv
    <3> QED
      BY <1>6, <3>1, <3>2, UploadingStays
  <2> QED
    BY <2>1, <2>2
<1>10. ASSUME NEW v \in Workers, NEW x \in Documents, NEW e \in Documents, Superseding(job'[v].todo, x, e) PROVE job'[v].wrote
  <2>1. CASE v = w
    BY <1>1, <1>7, <2>1
  <2>2. CASE v # w
    BY <1>2, <1>10, <2>2 DEF ShelfInv
  <2> QED
    BY <2>1, <2>2
<1>11. ShelfInv'
  BY <1>5, <1>9, <1>10 DEF ShelfInv
<1>12. ASSUME NEW x \in DocumentRows', NEW t, Shelf'[x].subject = t, NumberedOnce(t)', Superseded(Shelf', x),
              Shelf'[x].by = None, Undisturbed(x, "by")'
       PROVE  \E v \in Workers : Marked(x, job'[v].todo)
  <2>1. NumberedOnce(t)
    BY <1>1, <1>12 DEF NumberedOnce, Undisturbed
  <2>2. ASSUME t = s PROVE ~Superseded(Shelf', d) /\ \A y \in DocumentRows : Shelf[y].subject = s => Shelf[y].version < n
    <3>1. ~Filed(Shelf, s, n)
      BY <1>1, <1>3, <2>1, <2>2, NotFiled
    <3>2. n \in Nat \ {0}
      BY <1>0
    <3> QED
      BY <1>3, <1>4, <3>1, <3>2, Foremost
  <2>3. x # d
    <3>1. x = d => t = s
      BY <1>3, <1>12 DEF Adding
    <3> QED
      BY <1>12, <2>2, <3>1
  <2>4. x \in DocumentRows /\ Shelf'[x] = Shelf[x] /\ x \in Documents
    BY <1>3, <1>4, <2>3 DEF Adding
  <2>5. CASE Superseded(Shelf, x)
    <3>1. \A e \in Documents : ~Superseding(job[w].todo, x, e)
      BY <2>4
    <3> QED
      BY <1>1, <1>2, <1>12, <2>4, <2>5, <3>1, MarkStays
  <2>6. CASE ~Superseded(Shelf, x)
    <3>1. t = s /\ Shelf[x].version < n
      BY <1>3, <1>4, <1>12, <2>4, <2>6, Overtaken
    <3>2. Shelf[x].version \in 1..MaxVersion
      BY <1>4, <2>4 DEF InOrder
    <3>3. n # 1
      BY <1>0, <3>1, <3>2
    <3>4. PICK last \in DocumentRows :
            Shelf[last].subject = s /\ n = Shelf[last].version + 1 /\ r = <<Linking(d), Replacing(last, d)>>
      BY <3>3
    <3>5. Shelf[last].version \in 1..MaxVersion
      BY <1>4 DEF InOrder
    <3>6. ~(Shelf[x].version < Shelf[last].version)
      BY <1>4, <1>12, <2>4, <2>6, <3>1, <3>4 DEF Superseded, Alike
    <3>7. Shelf[x].version = Shelf[last].version
      BY <1>0, <3>1, <3>2, <3>4, <3>5, <3>6
    <3>8. x = last
      BY <1>12, <2>1, <2>4, <3>1, <3>4, <3>7, Twins
    <3>9. Superseding(job'[w].todo, x, d)
      BY <1>2, <3>4, <3>8 DEF Superseding
    <3> QED
      BY <3>9 DEF Marked
  <2> QED
    BY <2>5, <2>6
<1>13. MarkInv'
  <2> SUFFICES ASSUME NEW x \in DocumentRows', NumberedOnce(Shelf[x].subject)', Superseded(Shelf', x),
                      Shelf'[x].by = None, Undisturbed(x, "by")'
               PROVE  \E v \in Workers : Marked(x, job'[v].todo)
    BY DEF MarkInv
  <2>1. PICK t : t = Shelf'[x].subject
    OBVIOUS
  <2>2. NumberedOnce(t)'
    BY <2>1 DEF NumberedOnce
  <2> QED
    BY <1>12, <2>1, <2>2
<1> QED
  BY <1>11, <1>13

\* The mark of the version before.
LEMMA ReplaceSound ==
  ASSUME OfficeInv, ShelfInv, MarkInv, NEW w \in Workers, Write(w), NEW d \in Documents, NEW last \in DocumentRows,
         job[w].todo = <<Replacing(last, d)>>, Follows(Shelf, d, last)
  PROVE  ShelfInv' /\ MarkInv'
<1> DEFINE a == Replacing(last, d)
<1>0. RequestInv /\ RowInv /\ Head(job[w].todo) = a /\ Tail(job[w].todo) = <<>>
  BY Tails DEF OfficeInv
<1>1. Turns(w, <<>>) /\ upset' = upset
  BY <1>0, Writing
<1>2. job'[w].todo = <<>> /\ \A v \in Workers \ {w} : job'[v] = job[v]
  BY <1>1 DEF Turns
<1>3. Replaces(Shelf, last, d, Shelf') /\ DocumentRows' = DocumentRows
  BY <1>0, ReplacesShelf
<1>4. InOrder(Shelf) /\ DOMAIN Shelf = DocumentRows /\ DocumentRows \subseteq Documents
  BY ShelfIs DEF ShelfInv
<1>5. InOrder(Shelf') /\ Extends(Shelf, Shelf')
  BY <1>3, <1>4, OrderMarks, ReplacesExtends
<1>6. ASSUME NEW v \in Workers PROVE DocumentList(job'[v].todo) => Uploading(job'[v].todo, Shelf')
  <2>1. CASE v = w
    BY <1>2, <2>1, NoMarks
  <2>2. CASE v # w
    <3>1. job'[v] = job[v]
      BY <1>2, <2>2
    <3>2. DocumentList(job[v].todo) => Uploading(job[v].todo, Shelf)
      BY DEF ShelfInv
    <3> QED
      BY <1>5, <3>1, <3>2, UploadingStays
  <2> QED
    BY <2>1, <2>2
<1>7. ASSUME NEW v \in Workers, NEW x \in Documents, NEW e \in Documents, Superseding(job'[v].todo, x, e) PROVE job'[v].wrote
  <2>1. CASE v = w
    BY <1>2, <1>7, <2>1, NoMarks
  <2>2. CASE v # w
    BY <1>2, <1>7, <2>2 DEF ShelfInv
  <2> QED
    BY <2>1, <2>2
<1>8. ShelfInv'
  BY <1>5, <1>6, <1>7 DEF ShelfInv
<1>9. ASSUME NEW x, NEW e, Superseding(job[w].todo, x, e) PROVE x = last
  <2> DEFINE b == Replacing(x, e)
             c == Linking(e)
  <2>1. a.id = last /\ b.id = x
    BY WriteFields DEF Replacing
  <2>2. <<a>> = <<c, b>> \/ <<a>> = <<b>>
    BY <1>9 DEF Superseding
  <2> HIDE DEF a, b, c
  <2>3. Len(<<a>>) = 1 /\ Len(<<c, b>>) = 2 /\ Head(<<a>>) = a /\ Head(<<b>>) = b
    BY Lengths, Tails
  <2>4. a = b
    BY ONLY <2>2, <2>3
  <2> QED
    BY <2>1, <2>4
<1>10. ASSUME NEW x \in DocumentRows, NEW t, Shelf'[x].subject = t, NumberedOnce(t)', Superseded(Shelf', x),
              Shelf'[x].by = None, Undisturbed(x, "by")'
       PROVE  \E v \in Workers : Marked(x, job'[v].todo)
  <2>1. x # last
    BY <1>3, <1>10, NamesAssumption DEF Replaces
  <2>2. Superseded(Shelf, x) /\ Shelf[x].subject = t /\ Shelf[x].by = None
    BY <1>3, <1>4, <1>10, <2>1 DEF Replaces, Superseded, Alike
  <2>3. \A e \in Documents : ~Superseding(job[w].todo, x, e)
    BY <1>9, <2>1
  <2> QED
    BY <1>1, <1>2, <1>10, <2>2, <2>3, MarkStays
<1>11. MarkInv'
  <2> SUFFICES ASSUME NEW x \in DocumentRows', NumberedOnce(Shelf[x].subject)', Superseded(Shelf', x),
                      Shelf'[x].by = None, Undisturbed(x, "by")'
               PROVE  \E v \in Workers : Marked(x, job'[v].todo)
    BY DEF MarkInv
  <2>1. PICK t : t = Shelf'[x].subject
    OBVIOUS
  <2>2. NumberedOnce(t)'
    BY <2>1 DEF NumberedOnce
  <2> QED
    BY <1>3, <1>10, <2>1, <2>2
<1> QED
  BY <1>8, <1>11

\* A list that begins with an insert marks nothing yet.
LEMMA BringsFirst ==
  ASSUME NEW d, NEW s, NEW n, NEW q, Head(q) = Bringing(d, s, n)
  PROVE  \A x, e : ~Superseding(q, x, e)
<1>1. Bringing(d, s, n).op = "insert"
  BY WriteFields DEF Bringing
<1>2. \A x, e : Linking(e).op = "update" /\ Replacing(x, e).op = "update"
  BY WriteFields DEF Linking, Replacing
<1>3. \A a, b : Head(<<a, b>>) = a /\ Head(<<a>>) = a
  BY Tails
<1>4. \A x, e : Superseding(q, x, e) => Head(q) = Linking(e) \/ Head(q) = Replacing(x, e)
  BY ONLY <1>3 DEF Superseding
<1> QED
  BY <1>1, <1>2, <1>4

LEMMA UploadBeginsSound ==
  ASSUME OfficeInv, ShelfInv, MarkInv, NEW w \in Workers, NEW d \in Documents, NEW s \in Subjects,
         UploadDocument(w, d, s)
  PROVE  ShelfInv' /\ MarkInv'
<1>1. PICK n \in 1..MaxVersion : \E last, q : UploadBegins(w, d, s, n, last, q)
  BY UploadDoes
<1>2. PICK last, q : UploadBegins(w, d, s, n, last, q)
  BY <1>1
<1>3. Turns(w, q) /\ job[w] = Idle /\ file' = file /\ upset \subseteq upset'
  BY <1>2, Beginning DEF UploadBegins, OfficeInv
<1>4. Shelf' = Shelf /\ DocumentRows' = DocumentRows
  BY <1>3 DEF Shelf, DocumentRows
<1>5. Uploading(q, Shelf) /\ \A x, e : ~Superseding(q, x, e)
  <2>1. CASE n = 1 /\ q = <<Bringing(d, s, n), Linking(d)>>
    <3>1. Uploading(q, Shelf)
      BY <2>1 DEF Uploading
    <3>2. Head(q) = Bringing(d, s, n)
      BY <2>1, Tails
    <3> QED
      BY <3>1, <3>2, BringsFirst
  <2>2. CASE /\ last \in Latest(s) /\ n = file[last].version + 1
             /\ q = <<Bringing(d, s, n), Linking(d), Replacing(last, d)>>
    <3>1. last \in Documents /\ file[last] # NoRow /\ file[last].subject = s
      BY <2>2 DEF Latest, Versions
    <3>2. last \in DOMAIN Shelf /\ Shelf[last].subject = s /\ n = Shelf[last].version + 1
      BY <2>2, <3>1 DEF Shelf, DocumentRows
    <3>3. Uploading(q, Shelf)
      BY <2>2, <3>2 DEF Uploading
    <3>4. Head(q) = Bringing(d, s, n)
      BY <2>2, Tails
    <3> QED
      BY <3>3, <3>4, BringsFirst
  <2> QED
    BY <1>2, <2>1, <2>2 DEF UploadBegins
<1>6. \A x, e : ~Superseding(job[w].todo, x, e)
  BY <1>3, IdleJob, NoMarks
<1>7. job'[w].todo = q /\ \A v \in Workers \ {w} : job'[v] = job[v]
  BY <1>3 DEF Turns
<1> QED
  BY <1>3, <1>4, <1>5, <1>6, <1>7, ShelfStays

LEMMA UploadWrites ==
  ASSUME OfficeInv, OfficeInv', ShelfInv, MarkInv, NEW w \in Workers, DocumentList(job[w].todo), Write(w)
  PROVE  ShelfInv' /\ MarkInv'
<1> DEFINE q == job[w].todo
<1>1. Uploading(q, Shelf)
  BY DEF ShelfInv
<1>2. DOMAIN Shelf = DocumentRows /\ DocumentRows \subseteq Documents /\ RequestInv
  BY ShelfIs DEF OfficeInv
<1>3. ASSUME NEW d \in Documents, NEW s \in Subjects, q = <<Bringing(d, s, 1), Linking(d)>>
      PROVE  ShelfInv' /\ MarkInv'
  <2>1. Head(q) = Bringing(d, s, 1) /\ Tail(q) = <<Linking(d)>>
    BY <1>3, Tails
  <2>2. \A x, e \in Documents : ~Superseding(q, x, e)
    BY <2>1, BringsFirst
  <2>3. 1 \in 1..MaxVersion
    BY RecordsAssumption
  <2> QED
    BY <2>1, <2>2, <2>3, BringSound
<1>4. ASSUME NEW d \in Documents, NEW s \in Subjects, NEW n \in 1..MaxVersion, NEW last \in DocumentRows,
             Shelf[last].subject = s, n = Shelf[last].version + 1,
             q = <<Bringing(d, s, n), Linking(d), Replacing(last, d)>>
      PROVE  ShelfInv' /\ MarkInv'
  <2>1. Head(q) = Bringing(d, s, n) /\ Tail(q) = <<Linking(d), Replacing(last, d)>>
    BY <1>4, Tails
  <2>2. \A x, e \in Documents : ~Superseding(q, x, e)
    BY <2>1, BringsFirst
  <2> QED
    BY <1>4, <2>1, <2>2, BringSound
<1>5. ASSUME NEW d \in Documents, NEW last \in DocumentRows, q = <<Linking(d), Replacing(last, d)>>, Follows(Shelf, d, last)
      PROVE  ShelfInv' /\ MarkInv'
  <2> DEFINE a == Linking(d)
             b == Replacing(last, d)
             r == <<b>>
  <2>1. Head(q) = a /\ Tail(q) = r /\ r # <<>>
    <3> HIDE DEF a, b
    <3> QED
      BY <1>5, Tails DEF a, b
  <2>2. Turns(w, r) /\ job'[w].wrote /\ upset' = upset
    BY <1>2, <2>1, Writing
  <2>3. Shelf' = Shelf /\ DocumentRows' = DocumentRows
    BY <2>1, Links
  <2>4. Uploading(r, Shelf)
    BY <1>2, <1>5 DEF Uploading, Superseding
  <2>5. ASSUME NEW x \in Documents, NEW e \in Documents, Superseding(q, x, e) PROVE Superseding(r, x, e)
    <3>1. q = <<Linking(e), Replacing(x, e)>> \/ q = <<Replacing(x, e)>>
      BY <2>5 DEF Superseding
    <3>2. \A g, h : Len(<<g>>) = 1 /\ Len(<<g, h>>) = 2 /\ Tail(<<g, h>>) = <<h>>
      BY Lengths, Tails
    <3>3. Len(q) = 2
      BY <1>5, <3>2
    <3>4. Tail(q) = <<Replacing(x, e)>>
      <4> DEFINE g == Linking(e)
                 h == Replacing(x, e)
      <4>1. q = <<g, h>> \/ q = <<h>>
        BY <3>1
      <4> HIDE DEF q, g, h
      <4>2. Len(<<h>>) = 1 /\ Tail(<<g, h>>) = <<h>>
        BY <3>2
      <4>3. q # <<h>>
        BY <3>3, <4>2
      <4>4. q = <<g, h>>
        BY <4>1, <4>3
      <4>5. Tail(q) = <<h>>
        BY <4>2, <4>4
      <4> QED
        BY <4>5 DEF h
    <3> HIDE DEF q, r
    <3> QED
      BY <2>1, <3>4 DEF Superseding
  <2>6. job'[w].todo = r /\ \A v \in Workers \ {w} : job'[v] = job[v]
    BY <2>2 DEF Turns
  <2> HIDE DEF r, q
  <2> QED
    BY <2>2, <2>3, <2>4, <2>5, <2>6, ShelfStays DEF q
<1>6. ASSUME NEW d \in Documents, NEW last \in DocumentRows, q = <<Replacing(last, d)>>, Follows(Shelf, d, last)
      PROVE  ShelfInv' /\ MarkInv'
  BY <1>6, ReplaceSound
<1> QED
  <2>1. \/ \E d \in Documents, s \in Subjects : q = <<Bringing(d, s, 1), Linking(d)>>
        \/ \E d \in Documents, s \in Subjects, n \in 1..MaxVersion, last \in DocumentRows :
             /\ Shelf[last].subject = s /\ n = Shelf[last].version + 1
             /\ q = <<Bringing(d, s, n), Linking(d), Replacing(last, d)>>
        \/ \E d \in Documents, last \in DocumentRows : Superseding(q, last, d) /\ Follows(Shelf, d, last)
    BY <1>1, <1>2 DEF Uploading
  <2> HIDE DEF q
  <2>2. ASSUME NEW d \in Documents, NEW last \in DocumentRows, Superseding(q, last, d), Follows(Shelf, d, last)
        PROVE  ShelfInv' /\ MarkInv'
    BY <1>5, <1>6, <2>2 DEF Superseding
  <2> QED
    BY <1>3, <1>4, <2>1, <2>2

\* The document keeps the mark it has; the request that was to mark it has upset it.
LEMMA UploadDies ==
  ASSUME OfficeInv, ShelfInv, MarkInv, NEW w \in Workers, Die(w)
  PROVE  ShelfInv' /\ MarkInv'
<1>1. /\ Turns(w, <<>>) /\ file' = file /\ upset \subseteq upset'
      /\ job[w].wrote => Pending(w) \subseteq upset'
  BY Dying DEF OfficeInv
<1>2. Shelf' = Shelf /\ DocumentRows' = DocumentRows
  BY <1>1 DEF Shelf, DocumentRows
<1>3. ASSUME NEW d \in Documents, NEW e \in Documents, Superseding(job[w].todo, d, e) PROVE ~Undisturbed(d, "by")'
  <2> DEFINE x == Replacing(d, e)
  <2>1. job[w].wrote
    BY <1>3 DEF ShelfInv
  <2>2. x \in Left(w)
    BY <1>3, Tuple1, Tuple2 DEF Superseding, Left
  <2>3. x.op # "check" /\ x.id = d /\ x.patch = [by |-> e]
    BY WriteFields DEF Replacing
  <2>4. "by" \in DOMAIN x.patch
    BY <2>3
  <2> HIDE DEF x
  <2>5. <<d, "by">> \in Pending(w)
    BY <2>2, <2>3, <2>4, PendingColumns
  <2> QED
    BY <1>1, <2>1, <2>5 DEF Undisturbed
<1>4. job'[w].todo = <<>> /\ \A v \in Workers \ {w} : job'[v] = job[v]
  BY <1>1 DEF Turns
<1> QED
  BY <1>1, <1>2, <1>3, <1>4, NoMarks, ShelfStays

LEMMA DocumentStep ==
  ASSUME OfficeInv, OfficeInv', KindInv, ShelfInv, MarkInv, [Next]_societyVars
  PROVE  ShelfInv' /\ MarkInv'
<1>1. CASE UNCHANGED <<file, job, upset>>
  BY <1>1 DEF ShelfInv, MarkInv, Shelf, DocumentRows, NumberedOnce, Undisturbed, Superseded, Marked
<1>2. ASSUME NEW w \in Workers, Leaving(Documents, w) PROVE ShelfInv' /\ MarkInv'
  <2>1. Shelf' = Shelf /\ DocumentRows' = DocumentRows
    BY <1>2, ShelfKept DEF Leaving, OfficeInv
  <2>2. PICK r : r = job'[w].todo
    OBVIOUS
  <2>3. /\ ~DocumentList(r) /\ \A d, e \in Documents : ~Superseding(r, d, e)
        /\ \A d, e \in Documents : ~Superseding(job[w].todo, d, e)
    BY <1>2, <2>2, UploadsWrite DEF Leaving
  <2>4. upset \subseteq upset' /\ \A v \in Workers \ {w} : job'[v] = job[v]
    BY <1>2 DEF Leaving
  <2> QED
    BY <2>1, <2>2, <2>3, <2>4, ShelfStays
<1>3. ASSUME NEW w \in Workers, NEW d \in Documents, NEW s \in Subjects, UploadDocument(w, d, s)
      PROVE  ShelfInv' /\ MarkInv'
  BY <1>3, UploadBeginsSound
<1>4. ASSUME NEW w \in Workers, DocumentList(job[w].todo), Write(w) PROVE ShelfInv' /\ MarkInv'
  BY <1>4, UploadWrites
<1>5. ASSUME NEW w \in Workers, Die(w) PROVE ShelfInv' /\ MarkInv'
  BY <1>5, UploadDies
<1>6. \/ UNCHANGED <<file, job, upset>>
      \/ \E w \in Workers :
           \/ Leaving(Documents, w)
           \/ \E d \in Documents, s \in Subjects : UploadDocument(w, d, s)
           \/ DocumentList(job[w].todo) /\ (Write(w) \/ Die(w))
  BY DocumentMoves
<1> QED
  BY <1>1, <1>2, <1>3, <1>4, <1>5, <1>6

LEMMA DocumentInit ==
  ASSUME Init
  PROVE  ShelfInv /\ MarkInv
<1>1. job = [w \in Workers |-> Idle] /\ file = Allotted(First, Owner)
  BY DEF Init, TitleInit, RequestsInit
<1>2. ASSUME NEW d \in Documents PROVE file[d] = NoRow
  <2>1. d \in Ids /\ d \notin Plots /\ \A p \in Plots : d # First[p]
    BY MainTablesApart, OwnersAssumption DEF Shared
  <2> QED
    BY <1>1, <2>1 DEF Allotted
<1>3. DocumentRows = {}
  BY <1>2 DEF DocumentRows
<1>4. DOMAIN Shelf = {}
  BY <1>3, ShelfIs
<1>5. ASSUME NEW w \in Workers PROVE ~DocumentList(job[w].todo) /\ \A d, e : ~Superseding(job[w].todo, d, e)
  BY <1>1, IdleJob, NoMarks
<1> QED
  BY <1>3, <1>4, <1>5 DEF ShelfInv, MarkInv, InOrder

\* A settled subject: the last version is the one without a mark.
LEMMA CurrentShown ==
  ASSUME OfficeInv, ShelfInv, MarkInv
  PROVE  OneCurrentVersion
<1> SUFFICES ASSUME NEW s \in Subjects, Versions(s) # {}, DocumentsSettled(s)
             PROVE  /\ {d \in Versions(s) : file[d].by = None} = Latest(s)
                    /\ Cardinality(Latest(s)) = 1
                    /\ \A d \in Versions(s) \ Latest(s) : file[file[d].by].version = file[d].version + 1
  BY DEF OneCurrentVersion
<1>0. RowInv /\ LatestInv /\ MaxVersion \in Nat /\ InOrder(Shelf)
  BY RecordsAssumption DEF OfficeInv, ShelfInv
<1>1. NumberedOnce(s)
  <2>1. \A n \in 1..MaxVersion : n \in 1..(MaxVersion + 1)
    BY <1>0
  <2> QED
    BY <2>1 DEF NumberedOnce, DocumentsSettled, Undisturbed
<1>2. DOMAIN Shelf = DocumentRows /\ DocumentRows \subseteq Documents
  BY ShelfIs
<1>3. ASSUME NEW d \in Versions(s)
      PROVE  /\ d \in DocumentRows /\ Shelf[d].subject = s /\ Shelf[d].version = file[d].version
             /\ Shelf[d].by = file[d].by /\ file[d].version \in 1..MaxVersion
  <2>1. d \in DocumentRows /\ file[d].subject = s
    BY DEF Versions, DocumentRows
  <2> QED
    BY <1>0, <2>1, ShelfIs, ShelfTyped
<1>4. ASSUME NEW d \in DocumentRows, Shelf[d].subject = s PROVE d \in Versions(s)
  BY <1>4, ShelfIs DEF Versions, DocumentRows
<1>5. ASSUME NEW d \in Versions(s) PROVE d \in Latest(s) <=> ~Superseded(Shelf, d)
  <2>1. \A e \in Versions(s) : ~(file[e].version <= file[d].version) <=> file[d].version < file[e].version
    BY <1>0, <1>3
  <2>2. Superseded(Shelf, d) <=> \E e \in Versions(s) : file[d].version < file[e].version
    BY <1>2, <1>3, <1>4 DEF Superseded, Alike
  <2> QED
    BY <2>1, <2>2 DEF Latest
<1>6. ASSUME NEW d \in Versions(s), Superseded(Shelf, d), file[d].by = None PROVE FALSE
  <2>1. Undisturbed(d, "by") /\ Quiet(d)
    BY DEF DocumentsSettled
  <2>2. PICK w \in Workers : Marked(d, job[w].todo)
    BY <1>1, <1>3, <1>6, <2>1 DEF MarkInv
  <2>3. PICK e \in Documents : Superseding(job[w].todo, d, e)
    BY <2>2 DEF Marked
  <2>4. Replacing(d, e) \in Left(w)
    BY <2>3, Tuple1, Tuple2 DEF Superseding, Left
  <2>5. PICK k \in DOMAIN job[w].todo : job[w].todo[k] = Replacing(d, e)
    BY <2>4 DEF Left, ToSet
  <2>6. Replacing(d, e).id = d
    BY WriteFields DEF Replacing
  <2> QED
    BY <2>1, <2>5, <2>6 DEF Quiet
<1>7. ASSUME NEW d \in Versions(s), file[d].by # None PROVE Superseded(Shelf, d) /\ file[file[d].by].version = file[d].version + 1
  <2> DEFINE e == file[d].by
  <2>1. Follows(Shelf, e, d)
    BY <1>0, <1>2, <1>3, <1>7 DEF InOrder
  <2>2. e \in DocumentRows /\ Shelf[e].subject = s /\ Shelf[e].version = Shelf[d].version + 1
    BY <1>2, <1>3, <2>1 DEF Follows, Alike
  <2> HIDE DEF e
  <2>3. e \in Versions(s)
    BY <1>4, <2>2
  <2>4. file[e].version = file[d].version + 1
    BY <1>3, <2>2, <2>3
  <2>5. Shelf[d].version \in Nat
    BY <1>0, <1>3
  <2>6. Superseded(Shelf, d)
    BY <1>2, <1>3, <2>2, <2>5 DEF Superseded, Alike
  <2> QED
    BY <2>4, <2>6 DEF e
<1>8. {d \in Versions(s) : file[d].by = None} = Latest(s)
  <2>1. Latest(s) \subseteq Versions(s)
    BY DEF Latest
  <2> QED
    BY <1>5, <1>6, <1>7, <2>1
<1>9. \A d \in Versions(s) \ Latest(s) : file[file[d].by].version = file[d].version + 1
  BY <1>7, <1>8
<1>10. PICK l \in Latest(s) : TRUE
  BY <1>0 DEF LatestInv
<1>11. ASSUME NEW d \in Latest(s) PROVE d = l
  <2>1. d \in Versions(s) /\ l \in Versions(s) /\ file[d].version <= file[l].version /\ file[l].version <= file[d].version
    BY DEF Latest
  <2>2. file[d].version = file[l].version
    BY <1>0, <1>3, <2>1
  <2> QED
    BY <1>1, <1>3, <2>1, <2>2, Twins
<1>12. Latest(s) = {l}
  BY <1>10, <1>11
<1>13. Cardinality(Latest(s)) = 1
  BY <1>12, FS_Singleton
<1> QED
  BY <1>8, <1>9, <1>13

\* One version of a document is current, and every other names its successor, for any
\* documents and requests (documents/service.js, upload): unless two uploads were to
\* write one version at once, or one left its predecessor unmarked, and but while one
\* is about to mark it.
THEOREM VersionsStayCurrent == Spec => []OneCurrentVersion
<1>1. Spec => [](ShelfInv /\ MarkInv)
  BY DocumentInit, DocumentStep, OfficeSound, KindsSound, PTL DEF Spec
<1> QED
  BY <1>1, CurrentShown, OfficeSound, PTL
====
