------------------------------ MODULE Calendar ------------------------------
(***************************************************************************)
(* Local days and the two rules by which a room's billing day is found:    *)
(* the one of the billing reset and the one of the reminder the day        *)
(* before.  Both clamp a billing day past the end of a short month.        *)
(***************************************************************************)
EXTENDS Integers

CONSTANTS
  LastDay,  \* bound of the calendar: days are numbered from 0
  Date      \* of each day: its number in the month, and that month's length

ASSUME DateAssumption ==
  /\ LastDay \in Nat
  /\ Date \in [0 .. LastDay + 1 -> [day : Nat \ {0}, length : Nat \ {0}]]
  /\ \A d \in 0 .. LastDay + 1 : Date[d].day <= Date[d].length /\ Date[d].length > 1
  /\ \A d \in 0 .. LastDay :
       IF Date[d].day = Date[d].length
       THEN Date[d + 1].day = 1
       ELSE Date[d + 1] = [day |-> Date[d].day + 1, length |-> Date[d].length]

\* The day part of roomDueForResetNow.
DueExactly(billing, d) == billing = Date[d].day   \* mutant: no clamping
DueOn(billing, d) ==
  \/ billing = Date[d].day
  \/ Date[d].day = Date[d].length /\ billing > Date[d].length

\* The eve, as the reminder computes it from the next day.
billsTomorrowUnclamped(billing, d) == billing = Date[d + 1].day   \* mutant
billsTomorrow(billing, d) ==
  LET effective == IF billing > Date[d + 1].length THEN Date[d + 1].length ELSE billing
  IN Date[d + 1].day = effective
=============================================================================
