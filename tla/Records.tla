------------------------------- MODULE Records -------------------------------
(***************************************************************************)
(* The registers other modules write to: documents, notices and            *)
(* notifications, invoices, members, and the two-step spending of expenses *)
(* and refunds (documents, notices, notifications, invoices, members,      *)
(* expenses, payments/service.js).                                         *)
(***************************************************************************)
EXTENDS Requests, SequencesExt

CONSTANTS Documents, Notices, Notifications, Invoices, Spendings, Persons,
          Subjects,    \* what documents are about
          Users, Cnics,
          MaxVersion   \* bound: versions of a document

ASSUME RecordsAssumption ==
  IsFiniteSet(Users) /\ IsFiniteSet(Notifications) /\ MaxVersion \in Nat \ {0}

-----------------------------------------------------------------------------
(* Documents                                                               *)

Versions(s) == {d \in Documents : file[d] # NoRow /\ file[d].subject = s}
Latest(s) == {d \in Versions(s) : \A o \in Versions(s) : file[o].version <= file[d].version}

DocumentRow(s, version) ==
  [status |-> "Pending", subject |-> s, version |-> version, by |-> None, url |-> FALSE,
   key |-> <<"document", s, version>>]

Stored(d, s, version) ==
  <<Insert(d, DocumentRow(s, version)),
    Update(d, [url |-> TRUE])>>

\* Mutation: the new version is marked as replaced instead of the old one.
UploadDocument_MarksNew(w, d, s) ==
  /\ d \in Unused(Documents)
  /\ \/ Latest(s) = {} /\ Begin(w, Stored(d, s, 1))
     \/ \E last \in Latest(s) :
          /\ file[last].version < MaxVersion
          /\ Begin(w, Stored(d, s, file[last].version + 1) \o <<Update(d, [by |-> last])>>)

\* Insert, the link to the file, and the old version's mark: three statements.
UploadDocument(w, d, s) ==
  /\ d \in Unused(Documents)
  /\ \/ Latest(s) = {} /\ Begin(w, Stored(d, s, 1))
     \/ \E last \in Latest(s) :
          /\ file[last].version < MaxVersion
          /\ Begin(w, Stored(d, s, file[last].version + 1) \o <<Update(last, [by |-> d])>>)

VerifyDocument(w, d, status) ==
  file[d] # NoRow /\ Begin(w, <<Update(d, [status |-> status])>>)

-----------------------------------------------------------------------------
(* Notices and notifications                                               *)

News(n, user, event) ==
  Insert(n, [status |-> "unread", user |-> user, key |-> <<"event", user, event>>])

\* A notification for every user who has none of the event, one after the other.
Deliveries(event) ==
  LET users == SetToSeq({u \in Users : Holders(<<"event", u, event>>) = {}}) IN
  {[k \in DOMAIN users |-> News(rows[k], users[k], event)] :
     rows \in {r \in [DOMAIN users -> {n \in Notifications : Fresh(n)}] :
                 \A j, k \in DOMAIN users : r[j] = r[k] => j = k}}

NoticeRow(status, expiry) == [status |-> status, expiry |-> expiry]

Expired(expiry) == expiry <= today

\* A notice that is to be published is written first; publish then refuses it
\* if it has expired, and it stays published.
Save(w, x, write, expiry, publishes) ==
  IF publishes /\ ~Expired(expiry)
  THEN \E d \in Deliveries(x) : Begin(w, <<write>> \o d)
  ELSE Begin(w, <<write>>)

CreateNotice(w, x, status, expiry) ==
  /\ x \in Unused(Notices)
  /\ Save(w, x, Insert(x, NoticeRow(status, expiry)), expiry, status = "Published")

UpdateNotice(w, x, status, expiry) ==
  /\ file[x] # NoRow
  /\ Save(w, x, Update(x, [status |-> status, expiry |-> expiry]), expiry,
          status = "Published" /\ file[x].status # "Published")

PublishNotice(w, x) ==
  /\ file[x] # NoRow
  /\ ~Expired(file[x].expiry)
  /\ \E d \in Deliveries(x) :
       Begin(w, (IF file[x].status = "Published" THEN <<>>
                 ELSE <<Update(x, [status |-> "Published"])>>) \o d)

RemoveNotice(w, x) == file[x] # NoRow /\ Begin(w, <<Delete(x)>>)

MarkRead(w, n) == file[n] # NoRow /\ Begin(w, <<Update(n, [status |-> "read"])>>)

MarkAllRead(w, user) ==
  LET unread == SetToSeq({n \in Notifications : file[n].status = "unread" /\ file[n].user = user}) IN
  unread # <<>> /\ Begin(w, [k \in DOMAIN unread |-> Update(unread[k], [status |-> "read"])])

-----------------------------------------------------------------------------
(* Invoices                                                                *)

Source(s) == <<"invoice", s>>
InvoiceRow(s) == [status |-> "Active", key |-> Source(s)]

\* A known source has its invoice refreshed, a cancelled one too.
Registered(v, s) ==
  IF Holders(Source(s)) = {}
  THEN {<<Insert(v, InvoiceRow(s))>>}
  ELSE {<<Update(known, [refreshed |-> TRUE])>> : known \in Holders(Source(s))}

CancelInvoice(w, v) ==
  file[v].status = "Active" /\ Begin(w, <<Update(v, [status |-> "Cancelled"])>>)

-----------------------------------------------------------------------------
(* Expenses and refunds                                                    *)

SpendingRow(kind, user) == [status |-> "Pending", kind |-> kind, by |-> user]

CreateSpending(w, x, kind, user) ==
  x \in Unused(Spendings) /\ Begin(w, <<Insert(x, SpendingRow(kind, user))>>)

\* exempt: a super admin, or the settings do not separate duties.
ApproveSpending(w, x, user, exempt) ==
  /\ file[x].status = "Pending"
  /\ user # file[x].by \/ exempt
  /\ Begin(w, <<Update(x, [status |-> "Approved"])>>)

RejectSpending(w, x) ==
  file[x].status = "Pending" /\ Begin(w, <<Update(x, [status |-> "Rejected"])>>)

\* An expense that is paid gets an invoice.
PaySpending(w, x, v) ==
  /\ file[x].status = "Approved"
  /\ v \in Unused(Invoices)
  /\ LET paid == Update(x, [status |-> "Paid"]) IN
     IF file[x].kind = "refund" THEN Begin(w, <<paid>>)
     ELSE \E r \in Registered(v, x) : Begin(w, <<paid>> \o r)

-----------------------------------------------------------------------------
(* Members                                                                 *)

CnicKey(cnic) == <<"cnic", cnic>>
MemberRow(cnic) == [status |-> "Active", key |-> CnicKey(cnic)]

CreateMember(w, m, cnic) ==
  /\ m \in Unused(Persons)
  /\ Holders(CnicKey(cnic)) = {}
  /\ Begin(w, <<Insert(m, MemberRow(cnic))>>)

\* A list of members from a file (administration/csvImport.service.js), checked and
\* inserted one by one as CreateMember does.  With all set, one that fails undoes
\* the ones before it: it makes them inactive, and their CNICs stay taken.
RowOf(ms, cnics, k, all) ==
  [op |-> "check", id |-> ms[k], patch |-> MemberRow(cnics[k]),
   undo |-> IF all THEN [j \in 1..(k - 1) |-> [Update(ms[j], [status |-> "Inactive"])
                                                EXCEPT !.op = "undo"]] ELSE <<>>]

commitMembers(w, ms, cnics, all) ==
  /\ ToSet(ms) \subseteq {m \in Persons : Fresh(m)}
  /\ Begin(w, [k \in DOMAIN ms |-> RowOf(ms, cnics, k, all)])

At(w, op) == job[w].todo # <<>> /\ Head(job[w].todo).op = op

\* The lookup of the row's CNIC; if it is taken, or the lookup throws, the import ends.
CheckRow(w) ==
  /\ At(w, "check")
  /\ LET row == Head(job[w].todo) IN
     \/ /\ Holders(row.patch.key) = {}
        /\ job' = [job EXCEPT ![w].todo[1].op = "add"]
        /\ upset' = upset \cup Collisions(w, <<Insert(row.id, row.patch)>>)
     \/ Proceed(w, row.undo) /\ UNCHANGED upset
  /\ UNCHANGED <<file, today>>

\* The insert; if its log entry throws, the row itself is not among those undone.
AddRow(w) ==
  /\ At(w, "add")
  /\ LET row == Head(job[w].todo) IN
     /\ file' = [file EXCEPT ![row.id] = row.patch]
     /\ Proceed(w, Tail(job[w].todo)) \/ Proceed(w, row.undo)
  /\ UNCHANGED <<upset, today>>

\* Undoing goes on if a statement of it throws.
UndoRow(w) ==
  /\ At(w, "undo")
  /\ LET row == Head(job[w].todo) IN
     file' \in {file, [file EXCEPT ![row.id] = Over(row.patch, @)]}
  /\ Proceed(w, Tail(job[w].todo))
  /\ UNCHANGED <<upset, today>>

UpdateMember(w, m, cnic) ==
  /\ file[m] # NoRow
  /\ Holders(CnicKey(cnic)) \subseteq {m}
  /\ Begin(w, <<Update(m, [key |-> CnicKey(cnic)])>>)

\* Deletion only makes a member inactive: the CNIC stays taken.
UpdateMemberStatus(w, m, status) ==
  file[m] # NoRow /\ Begin(w, <<Update(m, [status |-> status])>>)

-----------------------------------------------------------------------------

DocumentSteps(w) ==
  \E d \in Documents :
    \/ \E s \in Subjects : UploadDocument(w, d, s)
    \/ \E status \in {"Verified", "Rejected"} : VerifyDocument(w, d, status)

NoticeSteps(w) ==
  \/ \E x \in Notices :
       \/ \E status \in {"Draft", "Published"}, expiry \in Days :
            CreateNotice(w, x, status, expiry) \/ UpdateNotice(w, x, status, expiry)
       \/ PublishNotice(w, x) \/ RemoveNotice(w, x)
  \/ \E n \in Notifications : MarkRead(w, n)
  \/ \E u \in Users : MarkAllRead(w, u)

SpendingSteps(w) ==
  \/ \E x \in Spendings :
       \/ \E kind \in {"expense", "refund"}, u \in Users : CreateSpending(w, x, kind, u)
       \/ \E u \in Users, exempt \in BOOLEAN : ApproveSpending(w, x, u, exempt)
       \/ RejectSpending(w, x)
       \/ \E v \in Invoices : PaySpending(w, x, v)
  \/ \E v \in Invoices : CancelInvoice(w, v)

ImportSteps(w) ==
  \/ \E ms \in [1..2 -> Persons], cnics \in [1..2 -> Cnics], all \in BOOLEAN :
       ms[1] # ms[2] /\ commitMembers(w, ms, cnics, all)
  \/ CheckRow(w) \/ AddRow(w) \/ UndoRow(w)

MemberSteps(w) ==
  \/ ImportSteps(w)
  \/ \E m \in Persons :
       \/ \E c \in Cnics : CreateMember(w, m, c) \/ UpdateMember(w, m, c)
       \/ \E status \in {"Active", "Inactive", "Blacklisted"} : UpdateMemberStatus(w, m, status)
=============================================================================
