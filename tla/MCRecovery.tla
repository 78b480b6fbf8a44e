----------------------------- MODULE MCRecovery -----------------------------
EXTENDS Recovery, TLC

CONSTANTS a1, b1, p1

\* The requests and the checks share only the debts they read, so that a behaviour
\* is about the ones or about the others; debts move in those about the checks.
VARIABLE part

mcVars == <<vars, part>>

OnePlot == [b \in Bookings |-> p1]

Checking == part = "checks" /\ UNCHANGED part
Step(s)  == Checking /\ CheckStep(s)

\* A behaviour about requests needs the debts, not the flags of the plots.
MCInit ==
  /\ Init
  /\ part \in {"requests", "checks"}
  /\ part = "requests" => /\ threshold = 1 /\ cancelled = {}
                          /\ blocked = [p \in Plots |-> FALSE]
                          /\ paid \in [Bookings -> {1, None}]

MCNext ==
  \/ part = "requests" /\ UNCHANGED part /\ \E w \in Workers : Requests(w)
  \/ \E s \in Servers : Step(s) \/ (Checking /\ FailCheck(s))
  \/ Checking /\ DebtsMove

MCSpec == MCInit /\ [][MCNext]_mcVars /\ \A s \in Servers : WF_mcVars(Step(s))

\* No property is about a booking that was raced.  Agents are alike, and so are the
\* bookings: the first row is about b1 and a1.
Undisturbed ==
  /\ raced = {}
  /\ rows # <<>> => rows[1].booking = b1 /\ rows[1].agent = a1

\* BlocksInTheEnd, of the behaviours that have checks in them.
ChecksSettle == part = "checks" => BlocksInTheEnd
=============================================================================
