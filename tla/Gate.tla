-------------------------------- MODULE Gate --------------------------------
(***************************************************************************)
(* The gate: visitors, passes and the blacklist (visitors/service.js),     *)
(* vehicles (vehicles/service.js), appointments (appointments/service.js)  *)
(* with the employees of Staff.  Whom a blacklist entry matches by name,   *)
(* CNIC, phone or vehicle is given by Matches.                             *)
(***************************************************************************)
EXTENDS Staff

CONSTANTS Visits, Passes, Blacklist, Vehicles, Appointments,
          Visitors, Plates, PassNumbers,
          Matches   \* Matches[b]: the visitors blacklist entry b names

\* Tokens are numbered by the day.
Token == INSTANCE NumberingRule WITH ResetPolicy <- "daily", PeriodDays <- 1

-----------------------------------------------------------------------------
(* Visitors, passes, blacklist                                             *)

Listed(visitor) == {b \in Blacklist : file[b].status = "Active" /\ visitor \in Matches[b]}

\* checkBlacklist answers with the first entry that matches, in the order the
\* rows happen to come: an entry that warns may hide one that blocks.
MayEnter(visitor) ==
  Listed(visitor) = {} \/ \E first \in Listed(visitor) : file[first].action # "Block"

VisitRow(pass) == [status |-> "inside", pass |-> pass, since |-> today]

CreateVisit(w, v, visitor, pass) ==
  /\ v \in Unused(Visits)
  /\ pass # None => file[pass].status = "Active" /\ today <= file[pass].validTo
  /\ MayEnter(visitor)
  /\ Begin(w, <<Insert(v, VisitRow(pass))>>)

MarkExit(w, v) ==
  /\ file[v].status = "inside"
  /\ Begin(w, <<Update(v, [status |-> "left"])>>)

PassKey(number) == <<"pass", number>>
PassRow(number, validTo) == [status |-> "Active", validTo |-> validTo, key |-> PassKey(number)]

CreatePass(w, s, number, validTo) ==
  /\ s \in Unused(Passes)
  /\ Holders(PassKey(number)) = {}
  /\ Begin(w, <<Insert(s, PassRow(number, validTo))>>)

UpdatePass(w, s, status, validTo) ==
  /\ file[s] # NoRow
  /\ Begin(w, <<Update(s, [status |-> status, validTo |-> validTo])>>)

DeletePass(w, s) == file[s] # NoRow /\ Begin(w, <<Delete(s)>>)

BlacklistRow(action) == [status |-> "Active", action |-> action]

CreateBlacklist(w, b, action) == b \in Unused(Blacklist) /\ Begin(w, <<Insert(b, BlacklistRow(action))>>)

UpdateBlacklist(w, b, status, action) ==
  file[b] # NoRow /\ Begin(w, <<Update(b, [status |-> status, action |-> action])>>)

DeleteBlacklist(w, b) == file[b] # NoRow /\ Begin(w, <<Delete(b)>>)

-----------------------------------------------------------------------------
(* Vehicles                                                                *)

Plate(number) == <<"vehicle", number>>
VehicleRow(number) == [status |-> "Active", sticker |-> FALSE, key |-> Plate(number)]

CreateVehicle(w, c, number) ==
  /\ c \in Unused(Vehicles)
  /\ Holders(Plate(number)) = {}
  /\ Begin(w, <<Insert(c, VehicleRow(number))>>)

\* The row that findOne happens to return must be this one.
UpdateVehicle(w, c, number) ==
  /\ file[c] # NoRow
  /\ Holders(Plate(number)) # {} => c \in Holders(Plate(number))
  /\ Begin(w, <<Update(c, [key |-> Plate(number)])>>)

IssueSticker(w, c) == file[c] # NoRow /\ Begin(w, <<Update(c, [sticker |-> TRUE])>>)

UpdateVehicleStatus(w, c, status) ==
  file[c] # NoRow /\ Begin(w, <<Update(c, [status |-> status])>>)

DeleteVehicle(w, c) == file[c] # NoRow /\ Begin(w, <<Delete(c)>>)

-----------------------------------------------------------------------------
(* Appointments                                                            *)

\* The daily rule starts over with every number (see NumberingRule), so all
\* tokens of a day are one token.
nextTokenNumber == <<"token", Token!formatNumber(Token!NextSequence(0), today)>>

AppointmentRow(arrived) ==
  [status |-> IF arrived THEN "InMeeting" ELSE "Waiting", key |-> nextTokenNumber]

CreateAppointment(w, a, host, arrived) ==
  /\ a \in Unused(Appointments)
  /\ file[host].status = "Active"
  /\ Holders(nextTokenNumber) = {}
  /\ Begin(w, <<Insert(a, AppointmentRow(arrived))>>)

CheckIn(w, a) ==
  /\ file[a].status = "Waiting"
  /\ Begin(w, <<Update(a, [status |-> "InMeeting"])>>)

CheckOut(w, a) ==
  /\ file[a].status = "InMeeting"
  /\ Begin(w, <<Update(a, [status |-> "Done"])>>)

-----------------------------------------------------------------------------

VisitSteps(w) ==
  \/ \E v \in Visits :
       \/ \E who \in Visitors, s \in Passes \cup {None} : CreateVisit(w, v, who, s)
       \/ MarkExit(w, v)
  \/ \E s \in Passes :
       \/ \E n \in PassNumbers, d \in Days : CreatePass(w, s, n, d)
       \/ \E status \in {"Active", "Revoked"}, d \in Days : UpdatePass(w, s, status, d)
       \/ DeletePass(w, s)
  \/ \E b \in Blacklist :
       \/ \E action \in {"Block", "Warn"} :
            \/ CreateBlacklist(w, b, action)
            \/ \E status \in {"Active", "Inactive"} : UpdateBlacklist(w, b, status, action)
       \/ DeleteBlacklist(w, b)

VehicleSteps(w) ==
  \E c \in Vehicles :
    \/ \E n \in Plates : CreateVehicle(w, c, n) \/ UpdateVehicle(w, c, n)
    \/ \E status \in {"Active", "Blocked"} : UpdateVehicleStatus(w, c, status)
    \/ IssueSticker(w, c) \/ DeleteVehicle(w, c)

AppointmentSteps(w) ==
  \E a \in Appointments :
    \/ \E host \in Employees, arrived \in BOOLEAN : CreateAppointment(w, a, host, arrived)
    \/ CheckIn(w, a) \/ CheckOut(w, a)
=============================================================================
