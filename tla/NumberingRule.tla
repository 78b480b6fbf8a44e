---------------------------- MODULE NumberingRule ----------------------------
(***************************************************************************)
(* The sequence numbers of administration/numberingRule.model.js: receipt, *)
(* invoice, booking and other numbers.  A rule is a row of numbering_rules *)
(* of which only the sequence ever changes.  getNextNumber is three        *)
(* statements: a read of the rule, from which the next sequence is         *)
(* computed; the update of findOneAndUpdate; and its read of the row after *)
(* the update, which is what gets formatted, with the clock of that        *)
(* moment.  Days are natural numbers; a policy other than "never" divides  *)
(* them into periods of PeriodDays days.                                   *)
(***************************************************************************)
EXTENDS Naturals

CONSTANTS ResetPolicy, PeriodDays

ASSUME PolicyAssumption ==
  /\ ResetPolicy \in {"never", "daily", "monthly", "yearly"}
  /\ PeriodDays \in Nat \ {0}

\* The table has no column lastResetAt: writes of it are dropped, it reads as
\* undefined, and every policy but "never" takes the branch of a first reset.
shouldResetSequence == ResetPolicy # "never"

NextSequence(sequence) == IF shouldResetSequence THEN 1 ELSE sequence + 1

\* Prefix and padding aside, a number is the period it is formatted in and the
\* sequence.
formatNumber(sequence, now) ==
  <<IF ResetPolicy = "never" THEN 0 ELSE now \div PeriodDays, sequence>>

=============================================================================
