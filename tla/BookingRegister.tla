-------------------------- MODULE BookingRegister ---------------------------
(***************************************************************************)
(* What the booking desk promises about plots whose requests never         *)
(* collided, never broke off and were never overruled by hand: a plot is   *)
(* booked only while no other booking of it is alive, and a booking goes   *)
(* Pending, Confirmed, Cancelled, or is Cancelled while Pending, and never *)
(* comes back.  Nothing is promised about a disturbed plot.                *)
(***************************************************************************)
CONSTANTS Bookings, Plots, None

VARIABLES stage,      \* stage[b]: the booking's status, "none" before it exists
          site,       \* site[b]: the plot it is for
          disturbed   \* plots about which the promise no longer holds

vars == <<stage, site, disturbed>>

Active(p) == {b \in Bookings : site[b] = p /\ stage[b] \in {"Pending", "Confirmed"}}

Init == /\ stage = [b \in Bookings |-> "none"]
        /\ site = [b \in Bookings |-> None]
        /\ disturbed = {}

Book(b, p) ==
  /\ stage[b] = "none"
  /\ p \in disturbed \/ Active(p) = {}
  /\ stage' = [stage EXCEPT ![b] = "Pending"]
  /\ site' = [site EXCEPT ![b] = p]
  /\ UNCHANGED disturbed

Confirm(b) ==
  /\ stage[b] = "Pending" \/ site[b] \in disturbed
  /\ stage' = [stage EXCEPT ![b] = "Confirmed"]
  /\ UNCHANGED <<site, disturbed>>

Cancel(b) ==
  /\ stage[b] \in {"Pending", "Confirmed"} \/ site[b] \in disturbed
  /\ stage' = [stage EXCEPT ![b] = "Cancelled"]
  /\ UNCHANGED <<site, disturbed>>

Disturb(ps) ==
  /\ disturbed' = disturbed \cup ps
  /\ UNCHANGED <<stage, site>>

Next == \/ \E b \in Bookings, p \in Plots : Book(b, p)
        \/ \E b \in Bookings : Confirm(b) \/ Cancel(b)
        \/ \E ps \in SUBSET Plots : Disturb(ps)

Spec == Init /\ [][Next]_vars

=============================================================================
