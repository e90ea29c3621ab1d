---------------------------- MODULE MCReminders ----------------------------
(* Model-checking instance of Reminders. *)
EXTENDS Reminders, TLC

CONSTANTS s1, s2, t1, r1

MCPeriodDays == [p \in Periods |-> 1]
MCTapSub     == [t \in Taps |-> s1]
=============================================================================
