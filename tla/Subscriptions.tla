--------------------------- MODULE Subscriptions ---------------------------
(***************************************************************************)
(* The subscriptions of one user: the REST handlers (create, PATCH,        *)
(* delete), the Renew and Cancelled buttons under a reminder, and the      *)
(* hourly sweep that ends trials.  All of them share the rows of the       *)
(* subscriptions table without a common lock.                              *)
(*                                                                         *)
(* PATCH and Renew each read the row in one statement (Begin) and write it *)
(* in another (Finish); everything else may happen in between.  A payment  *)
(* date is a local day and falls due at its noon, which is how             *)
(* parseUserDate stores the dates the Mini App sends.                      *)
(***************************************************************************)
EXTENDS Integers, FiniteSets

CONSTANTS
  Subs,           \* ids of the user's subscriptions, each used once
  Taps,           \* presses of a Renew button, each one callback query
  TapSub,         \* the subscription each tap is about
  Requests,       \* concurrent PATCH requests and callback handlers
  NULL,           \* SQL NULL, and "nothing"
  Periods,        \* billing periods
  PeriodDays,     \* their lengths
  SlotsPerDay,    \* moments of a local day the clock distinguishes
  FreeSubsLimit,  \* the paywall's limit for this user
  MaxDay,         \* bound of the clock
  Horizon,        \* how many days ahead a date is set, and renewed to
  MaxDeliveries   \* bound on deliveries of one callback query

ASSUME CalendarAssumption ==
  /\ PeriodDays \in [Periods -> Nat \ {0}]
  /\ SlotsPerDay \in Nat \ {0}
  /\ MaxDay \in Nat /\ Horizon \in Nat
ASSUME LimitAssumption == FreeSubsLimit \in Nat /\ MaxDeliveries \in Nat
ASSUME TapAssumption   == TapSub \in [Taps -> Subs]
ASSUME NullAssumption  == NULL \notin Nat /\ NULL \notin [day : Nat, slot : Nat] /\ NULL \notin Taps

VARIABLES
  now,        \* the clock, in the user's time zone: [day, slot]
  sub,        \* the row of each subscription, NULL before Create and after Delete
  request,    \* what a request read, between its two statements
  deleted,    \* ids whose row was deleted; an id is never used again
  delivered,  \* deliveries of each tap
  endless     \* history: trials that may be left without an end, see EndlessTrialExplained

rowVars == <<sub, deleted>>
vars    == <<now, request, rowVars, delivered, endless>>

Days  == 0 .. MaxDay
Slots == 0 .. SlotsPerDay - 1
Noon(d) == [day |-> d, slot |-> SlotsPerDay \div 2]

Before(s, t) == s.day < t.day \/ (s.day = t.day /\ s.slot < t.slot)

\* Dates a user picks.
Dates == 0 .. MaxDay + Horizon

Live(s) == sub[s] # NULL

Init ==
  /\ now = [day |-> 0, slot |-> 0]
  /\ sub = [s \in Subs |-> NULL]
  /\ request = [r \in Requests |-> NULL]
  /\ deleted = {}
  /\ delivered = [t \in Taps |-> 0]
  /\ endless = {}

(***************************************************************************)
(* REST handlers.                                                          *)
(***************************************************************************)
\* Counted and inserted under a lock of the user's row.  The end of a trial is
\* optional, and read only with is_trial.
Create(s, date, period, trial, ends) ==
  LET trialEnds == IF trial THEN ends ELSE NULL IN
  /\ sub[s] = NULL /\ s \notin deleted
  /\ Cardinality({v \in Subs : Live(v)}) < FreeSubsLimit
  /\ sub' = [sub EXCEPT ![s] =
               [next |-> date, period |-> period, trial |-> trial,
                trialEnds |-> trialEnds, notified |-> NULL]]
  /\ endless' = IF trial /\ trialEnds = NULL THEN endless \cup {s} ELSE endless
  /\ UNCHANGED <<now, request, deleted, delivered>>

\* GetByID: the handler keeps the whole row.
BeginUpdate(r, s) ==
  /\ request[r] = NULL
  /\ Live(s)
  /\ request' = [request EXCEPT ![r] =
                   [kind |-> "patch", sub |-> s, read |-> sub[s], since |-> {}]]
  /\ UNCHANGED <<now, rowVars, delivered, endless>>

\* The user-editable columns; trial_ends_at is not one of them.
\* notified_at is cleared in the same statement, and only when a date or a
\* period differs from the row as it was read.
ClearsNotified(read, date, period) == date # read.next \/ period # read.period

Edited(row, read, date, period, trial) ==
  [next |-> date, period |-> period, trial |-> trial, trialEnds |-> row.trialEnds,
   notified |-> IF ClearsNotified(read, date, period) THEN NULL ELSE row.notified]

\* Other requests learn, for the properties only, that the row changed.
Noted(s, what) ==
  [q \in Requests |->
     IF request[q] # NULL /\ request[q].sub = s
     THEN [request[q] EXCEPT !.since = @ \cup {what}] ELSE request[q]]

UpdateUpserts(s) == TRUE   \* mutant: Save, which inserts a missing row
UpdateMatches(s) == Live(s)

\* is_trial in a PATCH body: named, or left out and then as it was read.
BodyTrials == BOOLEAN \cup {NULL}
TrialOf(trial, read) == IF trial = NULL THEN read.trial ELSE trial

\* Every editable column is written, from the body or else from the row read.
FinishUpdate(r, date, period, trial) ==
  /\ request[r] # NULL /\ request[r].kind = "patch"
  /\ LET s    == request[r].sub
         read == request[r].read
         row  == IF Live(s) THEN sub[s] ELSE read
     IN IF UpdateMatches(s)
        THEN /\ sub' = [sub EXCEPT ![s] =
                          Edited(row, read, date, period, TrialOf(trial, read))]
             /\ request' = [Noted(s, "edited") EXCEPT ![r] = NULL]
             /\ endless' = IF trial = TRUE /\ row.trialEnds = NULL
                           THEN endless \cup {s} ELSE endless
        ELSE /\ request' = [request EXCEPT ![r] = NULL]
             /\ UNCHANGED <<sub, endless>>
  /\ UNCHANGED <<now, deleted, delivered>>

\* The body names each field or leaves it as it was read.
Update(r) ==
  \E date \in Dates, period \in Periods, trial \in BodyTrials :
    FinishUpdate(r, date, period, trial)

\* DELETE /subscriptions/:id, and the Cancelled button.
Delete(s) ==
  /\ Live(s)
  /\ sub' = [sub EXCEPT ![s] = NULL]
  /\ deleted' = deleted \cup {s}
  /\ UNCHANGED <<now, request, delivered, endless>>

\* A PATCH is in flight that read the row as a trial.
ReadAsTrial(s) ==
  \E r \in Requests : /\ request[r] # NULL /\ request[r].kind = "patch"
                     /\ request[r].sub = s /\ request[r].read.trial

\* The trials of these rows end.
TrialsEnd(S) == endless' = (endless \ S) \cup {s \in S : ReadAsTrial(s)}

(***************************************************************************)
(* The Renew button.  A callback query may be delivered more than once,    *)
(* and the button stays until the message is edited.                       *)
(***************************************************************************)
BeginRenew(r, t) ==
  /\ request[r] = NULL
  /\ Live(TapSub[t])
  /\ delivered[t] < MaxDeliveries
  /\ delivered' = [delivered EXCEPT ![t] = @ + 1]
  /\ request' = [request EXCEPT ![r] =
                   [kind |-> "renew", sub |-> TapSub[t], read |-> sub[TapSub[t]],
                    since |-> {}]]
  /\ UNCHANGED <<now, rowVars, endless>>

advancePayment(from, period) == from + PeriodDays[period]

DateStillAny(s, prev) == Live(s)   \* mutant: WHERE id = ? alone
DateStill(s, prev) == Live(s) /\ sub[s].next = prev

\* UPDATE ... WHERE id = ? AND next_payment_at = prev.
FinishRenew(r) ==
  /\ request[r] # NULL /\ request[r].kind = "renew"
  /\ LET s    == request[r].sub
         read == request[r].read
         next == advancePayment(read.next, read.period)
     IN IF DateStill(s, read.next)
        THEN /\ next \in Dates
             /\ sub' = [sub EXCEPT ![s] =
                          [next |-> next, period |-> sub[s].period,
                           trial |-> IF read.trial THEN FALSE ELSE sub[s].trial,
                           trialEnds |-> IF read.trial THEN NULL ELSE sub[s].trialEnds,
                           notified |-> NULL]]
             /\ request' = [Noted(s, "renewed") EXCEPT ![r] = NULL]
             /\ TrialsEnd(IF read.trial THEN {s} ELSE {})
        ELSE /\ request' = [request EXCEPT ![r] = NULL]
             /\ UNCHANGED <<sub, endless>>
  /\ UNCHANGED <<now, deleted, delivered>>

(***************************************************************************)
(* The trial sweep, failed statements and time.                            *)
(***************************************************************************)
TrialElapsed(row) ==
  row.trial /\ row.trialEnds # NULL /\ Before(Noon(row.trialEnds), now)

\* One UPDATE ends every elapsed trial; the due date is left alone.
ConvertsDateOnly(row) == [row EXCEPT !.trialEnds = NULL]   \* mutant: is_trial is forgotten
Converts(row) == [row EXCEPT !.trial = FALSE, !.trialEnds = NULL]

Converted == {s \in Subs : Live(s) /\ TrialElapsed(sub[s])}

TrialSweep ==
  /\ Converted # {}
  /\ sub' = [s \in Subs |-> IF s \in Converted THEN Converts(sub[s]) ELSE sub[s]]
  /\ TrialsEnd(Converted)
  /\ UNCHANGED <<now, request, deleted, delivered>>

\* A failed statement, a lost request or a crash: the row read is forgotten.
Abandon(r) ==
  /\ request[r] # NULL
  /\ request' = [request EXCEPT ![r] = NULL]
  /\ UNCHANGED <<now, rowVars, delivered, endless>>

NextMoment ==
  IF now.slot + 1 < SlotsPerDay
  THEN [day |-> now.day, slot |-> now.slot + 1]
  ELSE [day |-> now.day + 1, slot |-> 0]

Tick ==
  /\ NextMoment.day \in Days
  /\ now' = NextMoment
  /\ UNCHANGED <<request, rowVars, delivered, endless>>

CreateAny ==
  \E s \in Subs, date \in Dates, period \in Periods, trial \in BOOLEAN :
    \E ends \in {NULL, date} : Create(s, date, period, trial, ends)

UserStep ==
  \/ CreateAny
  \/ \E r \in Requests, s \in Subs : BeginUpdate(r, s)
  \/ \E r \in Requests : Update(r)
  \/ \E s \in Subs : Delete(s)
  \/ \E r \in Requests, t \in Taps : BeginRenew(r, t)
  \/ \E r \in Requests : FinishRenew(r)
  \/ \E r \in Requests : Abandon(r)

Next == UserStep \/ TrialSweep \/ Tick

Spec == Init /\ [][Next]_vars
-----------------------------------------------------------------------------
Moments == [day : Days, slot : Slots]
Rows    == [next : Dates, period : Periods, trial : BOOLEAN,
            trialEnds : Dates \cup {NULL}, notified : Moments \cup {NULL}]

\* What a request holds between its statements; "since" is history: how other
\* requests changed the row after it was read.
Held == [kind : {"patch", "renew"}, sub : Subs, read : Rows,
         since : SUBSET {"edited", "renewed"}]
ASSUME RowAssumption == NULL \notin Rows /\ NULL \notin Held

\* Type invariant.
TypeOK ==
  /\ now \in Moments
  /\ sub \in [Subs -> Rows \cup {NULL}]
  /\ request \in [Requests -> Held \cup {NULL}]
  /\ deleted \subseteq Subs
  /\ delivered \in [Taps -> Nat]
  /\ endless \subseteq Subs

\* bot.go: of callbacks that overlap (a double tap, a retried delivery), one
\* shifts the date.  A handler whose row was renewed since it read it, and not
\* edited, leaves the row alone.
DoubleTapShiftsOnce ==
  [][\A r \in Requests :
       /\ request[r] # NULL /\ request'[r] = NULL
       /\ request[r].kind = "renew" /\ request[r].since = {"renewed"}
       => sub' = sub]_vars

\* A deleted subscription stays deleted, whatever PATCH or Renew requests read
\* its row before.
DeletedStaysDeleted == \A s \in deleted : ~Live(s)

\* trial_expiry.go: without the sweep "is_trial would stay true forever".  With it a
\* trial is left without an end date, which no sweep ever ends, only if its owner
\* asked for that (POST or PATCH with is_trial and no date on the row), or if a PATCH
\* that had read it as a trial was in flight when the sweep or a Renew ended it.
EndlessTrialExplained ==
  \A s \in Subs : Live(s) /\ sub[s].trial /\ sub[s].trialEnds = NULL => s \in endless
=============================================================================
