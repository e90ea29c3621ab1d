-------------------------- MODULE RemindersProofs --------------------------
(***************************************************************************)
(* Proofs about Reminders, for any subscriptions, requests, taps, periods  *)
(* and bounds.  The reminders about one date come more than the dedup      *)
(* window apart, on one day: how many there are at most follows, and that  *)
(* it is one when that window reaches the end of the day (LateTimes).      *)
(***************************************************************************)
EXTENDS Reminders, SubscriptionsProofs

\* With none sent before slot e, the n-th reminder of a day can be out at this slot.
Fits(e, n, slot) == e + (n - 1) * (DedupSlots + 1) <= slot

\* Notification times begin at e.
TimesFrom(e) == e \in Nat /\ \A p \in PrefTimes : e <= p

\* No user is reminded so early that the window ends on the same day.
LateTimes == \A p \in PrefTimes : p + DedupSlots >= SlotsPerDay - 1

\* What steps of users, callbacks and the sweep do to a row the worker may hold: only
\* a row that never was appears, one that goes is deleted, and a stamp is kept
\* or cleared.
RowChange(s) ==
  /\ s \in deleted => s \in deleted'
  /\ Live(s) => sub'[s] # NULL \/ s \in deleted'
  /\ Live(s) /\ sub'[s] # NULL => sub'[s].notified \in {sub[s].notified, NULL}

\* What requests, the trial sweep and the clock can do to one row.
LEMMA RowSteps ==
  ASSUME TypeOK, UserStep \/ TrialSweep \/ Tick, NEW s \in Subs
  PROVE  RowChange(s)
<1> USE DEF rowVars, Live
<1>0. sub \in [Subs -> Rows \cup {NULL}] /\ deleted \subseteq Subs
  BY DEF TypeOK
<1>1. ASSUME UNCHANGED <<sub, deleted>> PROVE RowChange(s)
  BY <1>1 DEF RowChange
<1>2. CASE CreateAny
  <2>1. PICK v \in Subs : sub[v] = NULL /\ deleted' = deleted
                         /\ \A w \in Subs : w # v => sub'[w] = sub[w]
    BY <1>0, <1>2 DEF CreateAny, Create
  <2> QED
    BY <2>1 DEF RowChange
<1>3. ASSUME NEW r \in Requests, NEW date \in Dates, NEW period \in Periods,
             NEW trial \in BodyTrials, FinishUpdate(r, date, period, trial)
      PROVE  RowChange(s)
  <2> DEFINE v == request[r].sub
  <2>1. deleted' = deleted /\ (sub[s] # NULL => sub'[s] # NULL)
    <3>1. SameRowsLive
      BY <1>3, WrittenRows
    <3> QED
      BY <1>3, <3>1 DEF FinishUpdate, SameRowsLive
  <2>2. CASE UpdateMatches(v) /\ s = v
    <3>1. sub'[s] = Edited(sub[s], request[r].read, date, period, TrialOf(trial, request[r].read))
      BY <1>0, <1>3, <2>2 DEF FinishUpdate, UpdateMatches
    <3> QED
      BY <2>1, <3>1 DEF Edited, RowChange
  <2>3. CASE ~(UpdateMatches(v) /\ s = v)
    <3>1. sub'[s] = sub[s]
      BY <1>0, <1>3, <2>3 DEF FinishUpdate
    <3> QED
      BY <2>1, <3>1 DEF RowChange
  <2> QED
    BY <2>2, <2>3
<1>4. ASSUME NEW r \in Requests, FinishRenew(r) PROVE RowChange(s)
  <2> DEFINE v == request[r].sub
  <2>1. deleted' = deleted /\ (sub[s] # NULL => sub'[s] # NULL)
    BY <1>4, WrittenRows DEF FinishRenew, SameRowsLive
  <2>2. sub'[s] = sub[s] \/ sub'[s].notified = NULL
    BY <1>0, <1>4 DEF FinishRenew
  <2> QED
    BY <2>1, <2>2 DEF RowChange
<1>5. ASSUME NEW v \in Subs, Delete(v) PROVE RowChange(s)
  BY <1>0, <1>5 DEF Delete, RowChange
<1>6. CASE TrialSweep
  <2>1. deleted' = deleted
    BY <1>6 DEF TrialSweep
  <2>2. CASE s \in Converted
    <3>1. sub[s] \in Rows
      BY <1>0, <2>2 DEF Converted
    <3>2. sub'[s] = Converts(sub[s])
      BY <1>6, <2>2 DEF TrialSweep
    <3>3. sub'[s] \in Rows /\ sub'[s].notified = sub[s].notified
      BY <3>1, <3>2 DEF Converts, Rows
    <3> QED
      BY <2>1, <3>3, RowAssumption DEF RowChange
  <2>3. CASE s \notin Converted
    BY <1>6, <2>1, <2>3 DEF TrialSweep, RowChange
  <2> QED
    BY <2>2, <2>3
<1> QED
  BY <1>1, <1>2, <1>3, <1>4, <1>5, <1>6
     DEF UserStep, Update, BeginUpdate, BeginRenew, Abandon, Tick

\* A step of the worker, the admin or the user's settings that leaves the rows
\* alone keeps the types of Subscriptions.
LEMMA StillTyped == TypeOK /\ UNCHANGED vars => TypeOK'
  BY TypeStep

\* The stamps are moments.
LEMMA PersistType == RTypeOK /\ Persist => TypeOK'
<1> SUFFICES ASSUME RTypeOK, Persist PROVE TypeOK'
  OBVIOUS
<1>0. TypeOK /\ sub \in [Subs -> Rows \cup {NULL}] /\ worker.at \in Moments
  BY DEF RTypeOK, TypeOK, Checks, Persist
<1>1. ASSUME NEW s \in Subs PROVE sub'[s] \in Rows \cup {NULL}
  <2>1. CASE Stamps(s)
    <3>1. sub[s] \in Rows
      BY <1>0, <2>1 DEF Stamps, Live
    <3>2. sub'[s] = [sub[s] EXCEPT !.notified = worker.at]
      BY <2>1 DEF Persist
    <3> QED
      BY <1>0, <3>1, <3>2 DEF Rows
  <2>2. CASE ~Stamps(s)
    BY <1>0, <2>2 DEF Persist
  <2> QED
    BY <2>1, <2>2
<1>2. sub' \in [Subs -> Rows \cup {NULL}]
  BY <1>1 DEF Persist
<1> QED
  BY <1>0, <1>2 DEF Persist, TypeOK
\* The row a check is at, and what remains of the batch without it.
LEMMA BatchFacts ==
  ASSUME RTypeOK, NEW s \in DOMAIN worker.batch
  PROVE  /\ s \in Subs /\ worker.batch[s] \in Rows
         /\ Without(worker.batch, s) \in Batches
         /\ DOMAIN Without(worker.batch, s) = DOMAIN worker.batch \ {s}
         /\ worker.at \in Moments /\ worker.user \in UserRows
<1>1. worker \in Checks
  BY DEF RTypeOK
<1>2. PICK found \in SUBSET Subs : worker.batch \in [found -> Rows]
  BY <1>1 DEF Checks, Batches
<1>3. Without(worker.batch, s) \in [found \ {s} -> Rows]
  BY <1>2 DEF Without
<1>4. DOMAIN IdleWorker.batch = {}
  BY DEF IdleWorker
<1>5. worker.at # NULL
  BY <1>4 DEF RTypeOK
<1> QED
  BY <1>1, <1>2, <1>3, <1>5 DEF Batches, Checks, RTypeOK, Without

\* Every step keeps the types.
LEMMA RTypeStep == RTypeOK /\ [RNext]_rvars => RTypeOK'
<1> SUFFICES ASSUME RTypeOK, [RNext]_rvars PROVE RTypeOK'
  OBVIOUS
<1> USE CalendarAssumption, NullAssumption, ReminderAssumption
<1>0. /\ TypeOK /\ user \in UserRows /\ paused \in BOOLEAN /\ worker \in Checks
      /\ faults \in Nat /\ pings \in [Subs -> [date : Dates \cup {NULL}, count : Nat]]
      /\ pinged \subseteq Subs \X Dates /\ now \in Moments
      /\ sub \in [Subs -> Rows \cup {NULL}]
  BY DEF RTypeOK, TypeOK
<1>1. UNCHANGED vars => TypeOK'
  BY <1>0, StillTyped
<1>2. IdleWorker \in Checks
  <2>1. <<>> \in [{} -> Rows]
    OBVIOUS
  <2> QED
    BY <2>1 DEF IdleWorker, Checks, Batches
<1>3. CASE RowStep
  <2>1. TypeOK'
    BY <1>0, <1>3, TypeStep DEF RowStep, Next
  <2>2. pings' \in [Subs -> [date : Dates \cup {NULL}, count : Nat]]
    BY <1>0, <1>3 DEF RowStep, Quiet
  <2> QED
    BY <1>0, <1>3, <2>1, <2>2 DEF RowStep, RTypeOK
<1>4. CASE StartCheck
  <2> DEFINE found == {s \in Subs : Candidate(s)}
             check == [at |-> now, user |-> user, batch |-> [s \in found |-> sub[s]], sent |-> {}]
  <2>1. [s \in found |-> sub[s]] \in [found -> Rows]
    BY <1>0 DEF Candidate, Live
  <2>2. check \in Checks
    BY <1>0, <2>1 DEF Checks, Batches
  <2>3. worker' = check /\ check.at = now /\ check.user = user
    BY <1>4 DEF StartCheck
  <2>4. now # NULL
    BY <1>0 DEF Moments, Days, Slots
  <2> HIDE DEF check
  <2> QED
    BY <1>0, <1>1, <1>4, <2>2, <2>3, <2>4 DEF StartCheck, RTypeOK
<1>5. ASSUME NEW s \in Subs, NEW outcome \in Outcomes, Remind(s, outcome) PROVE RTypeOK'
  <2>1. /\ worker.batch[s] \in Rows /\ Without(worker.batch, s) \in Batches
        /\ worker.at \in Moments /\ worker.user \in UserRows
    BY <1>5, BatchFacts DEF Remind
  <2>2. worker' \in Checks /\ worker'.at = worker.at /\ worker'.user = worker.user
    BY <1>0, <1>5, <2>1 DEF Remind, Checks
  <2>3. /\ pings' \in [Subs -> [date : Dates \cup {NULL}, count : Nat]]
        /\ pinged' \subseteq Subs \X Dates
    BY <1>0, <1>5, <2>1 DEF Remind, Rows
  <2>4. UNCHANGED <<vars, user, paused>> /\ faults' \in Nat
    BY <1>0, <1>5 DEF Remind, Fault
  <2>5. worker.at # NULL
    BY <2>1 DEF Moments, Days, Slots
  <2> QED
    BY <1>0, <1>1, <2>1, <2>2, <2>3, <2>4, <2>5 DEF RTypeOK
<1>6. CASE Interrupt
  <2>1. worker' \in Checks /\ worker'.at = worker.at /\ worker'.user = worker.user
    BY <1>0, <1>2, <1>6 DEF Interrupt, Checks, IdleWorker
  <2>2. worker.at # NULL
    BY <1>6 DEF Interrupt, RTypeOK, IdleWorker
  <2> QED
    BY <1>0, <1>1, <1>6, <2>1, <2>2 DEF Interrupt, RTypeOK
<1>7. CASE Persist
  BY <1>0, <1>2, <1>7, PersistType DEF Persist, RTypeOK, IdleWorker
<1>8. CASE LoseCheck
  BY <1>0, <1>1, <1>2, <1>8 DEF LoseCheck, Fault, RTypeOK, IdleWorker
<1>9. ASSUME NEW u \in UserRows, SetUser(u) PROVE RTypeOK'
  BY <1>0, <1>1, <1>9 DEF SetUser, RTypeOK
<1>10. ASSUME NEW p \in BOOLEAN, SetPaused(p) PROVE RTypeOK'
  BY <1>0, <1>1, <1>10 DEF SetPaused, RTypeOK
<1>11. CASE UNCHANGED rvars
  BY <1>0, <1>1, <1>11 DEF rvars, RTypeOK
<1> QED
  BY <1>3, <1>4, <1>5, <1>6, <1>7, <1>8, <1>9, <1>10, <1>11 DEF RNext, UserRows

\* The initial state has them.
LEMMA RTypeInit == RInit => RTypeOK
<1>1. <<>> \in [{} -> Rows]
  OBVIOUS
<1>2. IdleWorker \in Checks
  BY <1>1 DEF IdleWorker, Checks, Batches
<1>3. RInit => worker \in Checks /\ worker.at = NULL
  BY <1>2 DEF RInit, IdleWorker
<1>4. RInit => pings \in [Subs -> [date : Dates \cup {NULL}, count : Nat]]
  BY DEF RInit, Quiet
<1>5. RInit => TypeOK /\ user \in UserRows /\ worker = IdleWorker
  BY TypeInit DEF RInit, UserRows
<1>6. RInit => paused \in BOOLEAN
  BY DEF RInit
<1>7. RInit => faults \in Nat /\ pinged \subseteq Subs \X Dates
  BY DEF RInit
<1> QED
  BY <1>3, <1>4, <1>5, <1>6, <1>7 DEF RTypeOK

\* The types of the rows, the worker's check and the histories.
THEOREM RemindersTypeCorrect == RSpec => []RTypeOK
  BY RTypeInit, RTypeStep, PTL DEF RSpec

-----------------------------------------------------------------------------
\* A row the worker holds is there or deleted, never one still to be created.
Known(s) == Live(s) \/ s \in deleted

\* The reminders of a row that no fault accounts for.
Surplus(s) == pings[s].count - faults

\* A reminder that waits for its stamp.
Pending(s) == IF s \in worker.sent THEN 1 ELSE 0

\* A row reminded of more often than faults and the waiting stamp explain is gone,
\* or has a stamp of the day before its date, at a slot that leaves room for the rest.
Accounted(s, e) ==
  Surplus(s) > Pending(s) =>
    \/ s \in deleted
    \/ /\ Live(s) /\ sub[s].notified # NULL
       /\ sub[s].notified.day + 1 = pings[s].date
       /\ Fits(e, Surplus(s) - Pending(s), sub[s].notified.slot)

\* What waits for its stamp was reminded of for tomorrow, unless re-armed since.
SentToday(s, e) ==
  s \in worker.sent =>
    /\ Known(s) /\ worker.at # NULL /\ s \notin DOMAIN worker.batch
    /\ Surplus(s) > 0 =>
         pings[s].date = worker.at.day + 1 /\ Fits(e, Surplus(s), worker.at.slot)

\* What is still in the batch has room for one more reminder of tomorrow.
RoomForOne(s, e) ==
  s \in DOMAIN worker.batch =>
    /\ Known(s)
    /\ Surplus(s) > 0 /\ pings[s].date = worker.at.day + 1 =>
         Fits(e, Surplus(s) + 1, worker.at.slot)

\* The reminders of a row since it was last re-armed, but one for each fault, fit
\* into one day.
Spaced(s, e) == Surplus(s) > 0 => Fits(e, Surplus(s), SlotsPerDay - 1)

PingInv(s, e) == Accounted(s, e) /\ SentToday(s, e) /\ RoomForOne(s, e) /\ Spaced(s, e)

PingsInv(e) == RTypeOK /\ DeletedStaysDeleted /\ \A s \in Subs : PingInv(s, e)

\* One reminder more is due when the window since the last one is over.
LEMMA OneMoreFits ==
  ASSUME NEW e \in Nat, NEW n \in Int, NEW m \in Nat, NEW l \in Nat,
         Fits(e, n, m), l > m + DedupSlots
  PROVE  Fits(e, n + 1, l)
<1>1. DedupSlots + 1 \in Nat /\ DedupSlots \in Nat
  BY ReminderAssumption
<1> DEFINE D == DedupSlots + 1
           before == (n - 1) * D
<1>2. (n + 1 - 1) * D = before + D /\ before \in Int
  BY <1>1
<1>3. e + before <= m
  BY DEF Fits
<1> HIDE DEF before
<1>4. e + (before + D) <= l
  BY <1>1, <1>2, <1>3
<1> QED
  BY <1>2, <1>4 DEF Fits

\* One reminder less fits as well.
LEMMA FewerFit ==
  ASSUME NEW e \in Nat, NEW n \in Int, NEW l \in Nat, Fits(e, n, l)
  PROVE  Fits(e, n - 1, l)
<1>1. DedupSlots + 1 \in Nat
  BY ReminderAssumption
<1> DEFINE D == DedupSlots + 1
           fewer == (n - 1 - 1) * D
<1>2. (n - 1) * D = fewer + D /\ fewer \in Int
  BY <1>1
<1>3. e + (fewer + D) <= l
  BY <1>2 DEF Fits
<1> HIDE DEF fewer
<1>4. e + fewer <= l
  BY <1>1, <1>2, <1>3
<1> QED
  BY <1>4 DEF Fits, fewer

\* The first reminder needs no more than its notification time.
LEMMA FirstFits ==
  ASSUME NEW e \in Nat, NEW l \in Nat, e <= l
  PROVE  Fits(e, 1, l)
<1>1. (1 - 1) * (DedupSlots + 1) = 0
  BY ReminderAssumption
<1> QED
  BY <1>1 DEF Fits

\* What fits until one slot fits until a later one.
LEMMA FitsLonger ==
  ASSUME NEW e \in Nat, NEW n \in Int, NEW m \in Nat, NEW l \in Nat, Fits(e, n, m), m <= l
  PROVE  Fits(e, n, l)
<1>1. (n - 1) * (DedupSlots + 1) \in Int
  BY ReminderAssumption
<1> QED
  BY <1>1 DEF Fits

\* The numbers the invariant is about.
LEMMA PingNumbers ==
  ASSUME RTypeOK, NEW s \in Subs
  PROVE  /\ pings[s].count \in Nat /\ faults \in Nat /\ Surplus(s) \in Int
         /\ Pending(s) \in {0, 1} /\ Surplus(s) - Pending(s) \in Int
         /\ worker.at # NULL => worker.at.slot \in Nat
         /\ Live(s) /\ sub[s].notified # NULL => sub[s].notified.slot \in Nat
<1>1. pings[s].count \in Nat /\ faults \in Nat /\ Surplus(s) \in Int
  BY DEF RTypeOK, Surplus
<1>2. Pending(s) \in {0, 1}
  BY DEF Pending
<1>3. \A t \in Moments : t.slot \in Nat
  BY DEF Moments, Slots
<1>4. worker.at # NULL => worker.at \in Moments
  BY DEF RTypeOK, Checks
<1>5. Live(s) /\ sub[s].notified # NULL => sub[s].notified \in Moments
  BY DEF RTypeOK, TypeOK, Live, Rows
<1> QED
  BY <1>1, <1>2, <1>3, <1>4, <1>5

\* Users, callbacks, the sweep and the clock: a row keeps its stamp, or is re-armed
\* and its count starts again, or is gone.
LEMMA PingRowStep ==
  ASSUME NEW e \in Nat, PingsInv(e), RowStep, NEW s \in Subs
  PROVE  PingInv(s, e)'
<1>0. /\ TypeOK /\ PingInv(s, e) /\ pings \in [Subs -> [date : Dates \cup {NULL}, count : Nat]]
      /\ UNCHANGED <<worker, faults>> /\ faults \in Nat /\ RTypeOK
  BY DEF PingsInv, RTypeOK, RowStep
<1>1. RowChange(s)
  BY <1>0, RowSteps DEF RowStep
<1>2. Known(s) => Known(s)'
  BY <1>1 DEF RowChange, Known, Live
<1>3. CASE Rearmed(s)
  <2>1. pings'[s].count = 0
    BY <1>3 DEF RowStep, Quiet
  <2>2. ~(Surplus(s)' > 0) /\ ~(Surplus(s)' > Pending(s)')
    BY <1>0, <2>1 DEF Surplus, Pending
  <2> QED
    BY <1>0, <1>2, <2>2 DEF PingInv, Accounted, SentToday, RoomForOne, Spaced
<1>4. CASE ~Rearmed(s)
  <2>1. pings'[s] = pings[s] /\ Surplus(s)' = Surplus(s) /\ Pending(s)' = Pending(s)
    BY <1>0, <1>4 DEF RowStep, Surplus, Pending
  <2>2. Accounted(s, e)'
    <3>1. Live(s) /\ sub'[s] # NULL /\ sub[s].notified # NULL
            => sub'[s].notified = sub[s].notified
      BY <1>1, <1>4 DEF RowChange, Rearmed
    <3> QED
      BY <1>0, <1>1, <2>1, <3>1 DEF PingInv, Accounted, RowChange, Live, Fits
  <2> QED
    BY <1>0, <1>2, <2>1, <2>2 DEF PingInv, SentToday, RoomForOne, Spaced, Fits
<1> QED
  BY <1>3, <1>4

\* A step that neither reminds of a row nor stamps it, even one that fails.
LEMMA PingOtherStep ==
  ASSUME NEW e \in Nat, RTypeOK, NEW s \in Subs, PingInv(s, e),
         UNCHANGED <<sub, deleted>>, pings'[s] = pings[s], worker'.at = worker.at,
         s \in worker'.sent <=> s \in worker.sent,
         DOMAIN worker'.batch \subseteq DOMAIN worker.batch,
         faults' \in {faults, faults + 1}
  PROVE  PingInv(s, e)'
<1>0. /\ Surplus(s) \in Int /\ Pending(s) \in {0, 1} /\ Surplus(s) - Pending(s) \in Int
      /\ worker.at # NULL => worker.at.slot \in Nat
      /\ Live(s) /\ sub[s].notified # NULL => sub[s].notified.slot \in Nat
      /\ SlotsPerDay - 1 \in Nat
      /\ pings[s].count \in Nat /\ faults \in Nat
  BY PingNumbers, CalendarAssumption
<1>1. Pending(s)' = Pending(s)
  BY DEF Pending
<1>2. CASE faults' = faults
  <2>1. Surplus(s)' = Surplus(s)
    BY <1>2 DEF Surplus
  <2> QED
    BY <1>1, <2>1 DEF PingInv, Accounted, SentToday, RoomForOne, Spaced, Known, Live, Fits
<1>3. CASE faults' = faults + 1
  <2>1. Surplus(s)' = Surplus(s) - 1
    BY <1>0, <1>3 DEF Surplus
  <2>2. Accounted(s, e)'
    <3> SUFFICES ASSUME Surplus(s)' > Pending(s)', s \notin deleted'
                 PROVE  /\ Live(s)' /\ sub'[s].notified # NULL
                        /\ sub'[s].notified.day + 1 = pings'[s].date
                        /\ Fits(e, Surplus(s)' - Pending(s)', sub'[s].notified.slot)
      BY DEF Accounted, Live, Fits
    <3>1. Surplus(s) > Pending(s) /\ s \notin deleted
      BY <1>0, <1>1, <2>1
    <3>2. /\ Live(s) /\ sub[s].notified # NULL /\ sub[s].notified.day + 1 = pings[s].date
          /\ Fits(e, Surplus(s) - Pending(s), sub[s].notified.slot)
      BY <3>1 DEF PingInv, Accounted
    <3>3. Fits(e, Surplus(s) - Pending(s) - 1, sub[s].notified.slot)
      BY <1>0, <3>2, FewerFit
    <3>4. Surplus(s)' - Pending(s)' = Surplus(s) - Pending(s) - 1
      BY <1>0, <1>1, <2>1
    <3> QED
      BY <3>2, <3>3, <3>4 DEF Live
  <2>3. SentToday(s, e)'
    <3>1. s \in worker.sent /\ Surplus(s)' > 0 => Fits(e, Surplus(s)', worker.at.slot)
      BY <1>0, <2>1, FewerFit DEF PingInv, SentToday
    <3> QED
      BY <1>0, <2>1, <3>1 DEF PingInv, SentToday, Known, Live, Fits
  <2>4. RoomForOne(s, e)'
    <3>1. ASSUME s \in DOMAIN worker.batch PROVE worker.at # NULL
      <4>1. worker.at \in Moments
        BY <3>1, BatchFacts
      <4> QED
        BY <4>1, NullAssumption DEF Moments, Days, Slots
    <3>2. s \in DOMAIN worker.batch /\ Surplus(s)' > 0 /\ pings[s].date = worker.at.day + 1
            => Fits(e, Surplus(s) + 1 - 1, worker.at.slot)
      <4>1. Surplus(s) + 1 \in Int
        BY <1>0
      <4> QED
        BY <1>0, <2>1, <3>1, <4>1, FewerFit DEF PingInv, RoomForOne
    <3>3. Surplus(s)' + 1 = Surplus(s) + 1 - 1
      BY <1>0, <2>1
    <3> QED
      BY <3>2, <3>3 DEF PingInv, RoomForOne, Known, Live, Fits
  <2>5. Spaced(s, e)'
    <3>1. Surplus(s)' > 0 => Fits(e, Surplus(s)', SlotsPerDay - 1)
      BY <1>0, <2>1, FewerFit DEF PingInv, Spaced
    <3> QED
      BY <3>1 DEF Spaced, Fits
  <2> QED
    BY <2>2, <2>3, <2>4, <2>5 DEF PingInv
<1> QED
  BY <1>2, <1>3

\* A lost stamp, or a crash: the fault accounts for the reminder that waited, or for
\* one that did not need it.
LEMMA PingLostStep ==
  ASSUME NEW e \in Nat, RTypeOK, NEW s \in Subs, PingInv(s, e),
         UNCHANGED <<sub, deleted, pings>>, faults' = faults + 1,
         worker'.sent = {}, DOMAIN worker'.batch = {}
  PROVE  PingInv(s, e)'
<1>0. /\ Surplus(s) \in Int /\ Pending(s) \in {0, 1} /\ Surplus(s) - Pending(s) \in Int
      /\ Live(s) /\ sub[s].notified # NULL => sub[s].notified.slot \in Nat
      /\ SlotsPerDay - 1 \in Nat
      /\ pings[s].count \in Nat /\ faults \in Nat
  BY PingNumbers, CalendarAssumption
<1>1. Surplus(s)' = Surplus(s) - 1 /\ Pending(s)' = 0
  <2>1. pings' = pings
    OBVIOUS
  <2>2. Surplus(s)' = pings[s].count - (faults + 1)
    BY <2>1 DEF Surplus
  <2>3. pings[s].count - (faults + 1) = Surplus(s) - 1
    BY <1>0 DEF Surplus
  <2>4. Pending(s)' = 0
    BY DEF Pending
  <2> QED
    BY <2>2, <2>3, <2>4
<1>2. Accounted(s, e)'
  <2> SUFFICES ASSUME Surplus(s) - 1 > 0, s \notin deleted
               PROVE  /\ Live(s) /\ sub[s].notified # NULL
                      /\ sub[s].notified.day + 1 = pings[s].date
                      /\ Fits(e, Surplus(s) - 1, sub[s].notified.slot)
    <3>1. Surplus(s)' - Pending(s)' = Surplus(s) - 1
      BY <1>0, <1>1
    <3> QED
      BY <1>0, <1>1, <3>1 DEF Accounted, Live, Fits
  <2>1. Surplus(s) > Pending(s)
    BY <1>0
  <2>2. /\ Live(s) /\ sub[s].notified # NULL /\ sub[s].notified.day + 1 = pings[s].date
        /\ Fits(e, Surplus(s) - Pending(s), sub[s].notified.slot)
    BY <2>1 DEF PingInv, Accounted
  <2>3. CASE Pending(s) = 1
    BY <2>2, <2>3
  <2>4. CASE Pending(s) = 0
    <3>1. Surplus(s) - Pending(s) = Surplus(s)
      BY <1>0, <2>4
    <3> QED
      BY <1>0, <2>2, <3>1, FewerFit
  <2> QED
    BY <1>0, <2>3, <2>4
<1>3. Spaced(s, e)'
  <2>1. Surplus(s)' > 0 => Fits(e, Surplus(s)', SlotsPerDay - 1)
    BY <1>0, <1>1, FewerFit DEF PingInv, Spaced
  <2> QED
    BY <2>1 DEF Spaced, Fits
<1> QED
  BY <1>2, <1>3 DEF PingInv, SentToday, RoomForOne

\* A candidate whose reminder for tomorrow went out has room for another.
LEMMA CandidateHasRoom ==
  ASSUME NEW e \in Nat, PingsInv(e), NEW s \in Subs, worker = IdleWorker, Candidate(s),
         Surplus(s) > 0, pings[s].date = now.day + 1
  PROVE  Fits(e, Surplus(s) + 1, now.slot)
<1>0. /\ TypeOK /\ now \in Moments /\ Accounted(s, e) /\ sub \in [Subs -> Rows \cup {NULL}]
      /\ Surplus(s) \in Int
  BY PingNumbers DEF PingsInv, PingInv, RTypeOK, TypeOK
<1>1. Live(s) /\ s \notin deleted /\ ~DedupBlocks(sub[s], now) /\ Pending(s) = 0
  BY DEF PingsInv, DeletedStaysDeleted, Candidate, IdleWorker, Pending
<1> DEFINE stamp == sub[s].notified
<1>2. /\ stamp # NULL /\ stamp.day + 1 = now.day + 1
      /\ Fits(e, Surplus(s), stamp.slot)
  BY <1>0, <1>1 DEF Accounted
<1>3. stamp \in Moments
  BY <1>0, <1>1, <1>2 DEF Live, Rows
<1>4. Elapsed(stamp, now) = now.slot - stamp.slot
  <2>1. stamp.day \in Int /\ now.day \in Int /\ stamp.slot \in Int /\ now.slot \in Int
    BY <1>0, <1>3 DEF Moments, Days, Slots
  <2>2. stamp.day = now.day
    BY <1>2, <2>1
  <2>3. SlotsPerDay * (now.day - stamp.day) = 0
    BY <2>1, <2>2, CalendarAssumption
  <2> QED
    BY <2>1, <2>3 DEF Elapsed
<1>5. ~(now.slot - stamp.slot <= DedupSlots)
  BY <1>1, <1>2, <1>4 DEF DedupBlocks
<1>6. now.slot \in Nat /\ stamp.slot \in Nat
  BY <1>0, <1>3 DEF Moments, Slots
<1>7. now.slot > stamp.slot + DedupSlots
  BY <1>5, <1>6, ReminderAssumption
<1> QED
  BY <1>0, <1>2, <1>6, <1>7, OneMoreFits

\* A check starts with rows that have room for a reminder of tomorrow.
LEMMA PingStartStep ==
  ASSUME NEW e \in Nat, PingsInv(e), StartCheck, NEW s \in Subs
  PROVE  PingInv(s, e)'
<1> DEFINE found == {v \in Subs : Candidate(v)}
<1>0. PingInv(s, e) /\ worker = IdleWorker /\ UNCHANGED <<sub, deleted, faults, pings>>
  BY DEF PingsInv, StartCheck, vars, rowVars
<1>1. worker' = [at |-> now, user |-> user, batch |-> [v \in found |-> sub[v]], sent |-> {}]
  BY DEF StartCheck
<1>2. worker'.at = now /\ worker'.sent = {} /\ DOMAIN worker'.batch = found
  BY <1>1
<1>3. Accounted(s, e)' /\ SentToday(s, e)' /\ Spaced(s, e)'
  <2>1. s \notin worker.sent
    BY <1>0 DEF IdleWorker
  <2>2. Surplus(s)' = Surplus(s) /\ Pending(s)' = Pending(s)
    BY <1>0, <1>2, <2>1 DEF Surplus, Pending
  <2> QED
    BY <1>0, <1>2, <2>1, <2>2 DEF PingInv, Accounted, SentToday, Spaced, Live, Fits
<1>4. RoomForOne(s, e)'
  <2>1. s \in found /\ Surplus(s) > 0 /\ pings[s].date = now.day + 1
          => Fits(e, Surplus(s) + 1, now.slot)
    BY <1>0, CandidateHasRoom
  <2>2. s \in found => Live(s)
    BY DEF Candidate
  <2>3. Surplus(s)' = Surplus(s)
    BY <1>0 DEF Surplus
  <2> QED
    BY <1>0, <1>2, <2>1, <2>2, <2>3 DEF RoomForOne, Known, Live, Fits
<1> QED
  BY <1>3, <1>4 DEF PingInv

\* A reminder is about tomorrow, and the row's first for that date or one that fits.
LEMMA PingRemindStep ==
  ASSUME NEW e \in Nat, TimesFrom(e), PingsInv(e), NEW v \in Subs, NEW outcome \in Outcomes,
         Remind(v, outcome), NEW s \in Subs
  PROVE  PingInv(s, e)'
<1> DEFINE date == worker.batch[v].next
<1>0. /\ RTypeOK /\ PingInv(s, e) /\ worker \in Checks
      /\ pings \in [Subs -> [date : Dates \cup {NULL}, count : Nat]]
      /\ UNCHANGED <<sub, deleted>>
  BY DEF PingsInv, RTypeOK, Remind, vars, rowVars
<1>n. /\ pings[s].count \in Nat /\ faults \in Nat /\ Surplus(s) \in Int
      /\ Pending(s) \in {0, 1} /\ Surplus(s) - Pending(s) \in Int
      /\ worker.at # NULL => worker.at.slot \in Nat
  BY <1>0, PingNumbers
<1>1. /\ v \in DOMAIN worker.batch
      /\ DOMAIN Without(worker.batch, v) = DOMAIN worker.batch \ {v}
      /\ worker.at \in Moments /\ worker.user \in UserRows
  BY <1>0, BatchFacts DEF Remind
<1>2. /\ worker'.at = worker.at
      /\ DOMAIN worker'.batch = DOMAIN worker.batch \ {v}
      /\ worker'.sent = IF outcome = "sent" THEN worker.sent \cup {v} ELSE worker.sent
      /\ faults' = IF outcome = "late" THEN faults + 1 ELSE faults
  BY <1>0, <1>1 DEF Remind, Checks, Fault
<1>3. CASE outcome = "unsent" \/ s # v
  <2>1. pings'[s] = pings[s]
    BY <1>0, <1>3 DEF Remind
  <2>2. s \in worker'.sent <=> s \in worker.sent
    BY <1>2, <1>3
  <2> QED
    BY <1>0, <1>2, <2>1, <2>2, PingOtherStep
<1>4. CASE outcome # "unsent" /\ s = v
  <2>1. /\ pings'[s] = [date  |-> date,
                        count |-> IF pings[s].date = date THEN pings[s].count + 1 ELSE 1]
        /\ pings'[s].date = date
        /\ pings'[s].count = IF pings[s].date = date THEN pings[s].count + 1 ELSE 1
    BY <1>0, <1>4 DEF Remind
  <2>2. date = worker.at.day + 1 /\ worker.at.slot >= worker.user.pref
    BY <1>4 DEF Remind, DueNow, shouldSendNow
  <2>3. worker.at.slot \in Nat /\ worker.at.slot <= SlotsPerDay - 1 /\ e <= worker.at.slot
        /\ SlotsPerDay - 1 \in Nat
    <3>1. /\ worker.user.pref \in PrefTimes /\ worker.at.slot \in Nat
          /\ worker.at.slot <= SlotsPerDay - 1
      BY <1>1, CalendarAssumption DEF UserRows, Moments, Slots
    <3>2. worker.user.pref \in Nat /\ e <= worker.user.pref
      BY <3>1, ReminderAssumption DEF TimesFrom
    <3> QED
      BY <2>2, <3>1, <3>2, CalendarAssumption
  <2>4. s \notin worker.sent /\ Pending(s) = 0 /\ Known(s) /\ worker.at # NULL
    BY <1>0, <1>1, <1>4, NullAssumption
       DEF PingInv, SentToday, RoomForOne, Pending, Moments, Days, Slots
  <2>5. RoomForOne(s, e)'
    BY <1>2, <1>4 DEF RoomForOne
  <2>6. CASE outcome = "late"
    <3>1. Pending(s)' = 0 /\ s \notin worker'.sent
      BY <1>2, <2>4, <2>6 DEF Pending
    <3>2. CASE pings[s].date = date
      <4>1. Surplus(s)' = Surplus(s) /\ pings'[s].date = pings[s].date
        BY <1>n, <1>2, <2>1, <2>6, <3>2 DEF Surplus
      <4> QED
        BY <1>0, <2>4, <2>5, <3>1, <4>1
           DEF PingInv, Accounted, SentToday, Spaced, Live, Fits
    <3>3. CASE pings[s].date # date
      <4>1. ~(Surplus(s)' > 0) /\ ~(Surplus(s)' > Pending(s)')
        BY <1>n, <1>2, <2>1, <2>6, <3>1, <3>3 DEF Surplus
      <4> QED
        BY <2>5, <3>1, <4>1 DEF PingInv, Accounted, SentToday, Spaced
    <3> QED
      BY <3>2, <3>3
  <2>7. CASE outcome = "sent"
    <3>1. Pending(s)' = 1 /\ s \in worker'.sent /\ faults' = faults
      BY <1>2, <1>4, <2>7 DEF Pending
    <3>2. Surplus(s)' > 0 => Fits(e, Surplus(s)', worker.at.slot)
      <4> SUFFICES ASSUME Surplus(s)' > 0 PROVE Fits(e, Surplus(s)', worker.at.slot)
        OBVIOUS
      <4>1. CASE pings[s].date = date /\ Surplus(s) > 0
        <5>1. Fits(e, Surplus(s) + 1, worker.at.slot)
          BY <1>0, <1>1, <1>4, <2>2, <4>1 DEF PingInv, RoomForOne
        <5>2. Surplus(s)' = Surplus(s) + 1
          BY <1>n, <2>1, <3>1, <4>1 DEF Surplus
        <5> QED
          BY <5>1, <5>2
      <4>2. CASE ~(pings[s].date = date /\ Surplus(s) > 0)
        <5>1. Surplus(s)' = 1
          BY <1>n, <2>1, <3>1, <4>2 DEF Surplus
        <5> QED
          BY <2>3, <5>1, FirstFits
      <4> QED
        BY <4>1, <4>2
    <3>3. SentToday(s, e)'
      <4>1. s \notin DOMAIN worker'.batch
        BY <1>2, <1>4
      <4>2. Fits(e, Surplus(s)', worker.at.slot) => Fits(e, Surplus(s), worker.at.slot)'
        BY <1>2 DEF Fits
      <4> QED
        BY <1>0, <1>2, <2>1, <2>2, <2>4, <3>2, <4>1, <4>2 DEF SentToday, Known, Live
    <3>4. Accounted(s, e)'
      <4> SUFFICES ASSUME Surplus(s)' > 1, s \notin deleted
                   PROVE  /\ Live(s) /\ sub[s].notified # NULL
                          /\ sub[s].notified.day + 1 = pings'[s].date
                          /\ Fits(e, Surplus(s)' - 1, sub[s].notified.slot)
        BY <1>0, <3>1 DEF Accounted, Live, Fits
      <4>1. pings[s].date = date /\ Surplus(s)' = Surplus(s) + 1
        BY <1>n, <2>1, <3>1 DEF Surplus
      <4>2. Surplus(s) > Pending(s) /\ Surplus(s)' - 1 = Surplus(s) - Pending(s)
        BY <1>n, <2>4, <4>1
      <4> QED
        BY <1>0, <2>1, <4>1, <4>2 DEF PingInv, Accounted
    <3>5. Spaced(s, e)'
      <4>1. Surplus(s)' \in Int
        BY <1>n, <2>1, <3>1 DEF Surplus
      <4>2. Surplus(s)' > 0 => Fits(e, Surplus(s)', SlotsPerDay - 1)
        BY <2>3, <3>2, <4>1, FitsLonger
      <4> QED
        BY <4>2 DEF Spaced, Fits
    <3> QED
      BY <2>5, <3>3, <3>4, <3>5 DEF PingInv
  <2> QED
    BY <1>4, <2>6, <2>7 DEF Outcomes
<1> QED
  BY <1>3, <1>4

\* The stamps take over from the list of what was sent.
LEMMA PingPersistStep ==
  ASSUME NEW e \in Nat, PingsInv(e), Persist, NEW s \in Subs
  PROVE  PingInv(s, e)'
<1>0. /\ PingInv(s, e) /\ sub \in [Subs -> Rows \cup {NULL}] /\ worker.at \in Moments
      /\ UNCHANGED <<deleted, faults, pings>>
  BY DEF PingsInv, RTypeOK, TypeOK, Persist, Checks
<1>1. worker'.sent = {} /\ DOMAIN worker'.batch = {} /\ Pending(s)' = 0
      /\ Surplus(s)' = Surplus(s) /\ Surplus(s) \in Int /\ Pending(s) \in {0, 1}
  BY <1>0, PingNumbers DEF Persist, IdleWorker, Pending, Surplus, PingsInv
<1>2. Accounted(s, e)'
  <2>1. CASE Stamps(s)
    <3>1. sub[s] \in Rows
      BY <1>0, <2>1 DEF Stamps, Live
    <3>2. sub'[s] = [sub[s] EXCEPT !.notified = worker.at]
      BY <2>1 DEF Persist
    <3>3. sub'[s].notified = worker.at /\ sub'[s] \in Rows
      BY <1>0, <3>1, <3>2 DEF Rows
    <3>4. sub'[s] # NULL
      BY <3>3, RowAssumption
    <3>5. Surplus(s)' - Pending(s)' = Surplus(s) /\ (Surplus(s)' > Pending(s)' => Surplus(s) > 0)
      BY <1>1
    <3> QED
      BY <1>0, <2>1, <3>3, <3>4, <3>5 DEF PingInv, SentToday, Stamps, Accounted, Live, Fits
  <2>2. CASE ~Stamps(s)
    <3>1. sub'[s] = sub[s]
      BY <2>2 DEF Persist
    <3>2. s \in worker.sent => s \in deleted
      BY <1>0, <2>2 DEF Stamps, PingInv, SentToday, Known
    <3>3. s \notin worker.sent => Pending(s) = 0
      BY DEF Pending
    <3> QED
      BY <1>0, <1>1, <3>1, <3>2, <3>3 DEF PingInv, Accounted, Live, Fits
  <2> QED
    BY <2>1, <2>2
<1> QED
  BY <1>0, <1>1, <1>2 DEF PingInv, SentToday, RoomForOne, Spaced, Fits

\* Every step accounts for every reminder.
LEMMA PingStep ==
  ASSUME NEW e \in Nat, TimesFrom(e), PingsInv(e), [RNext]_rvars
  PROVE  PingsInv(e)'
<1>0. RTypeOK /\ TypeOK /\ DeletedStaysDeleted /\ worker \in Checks /\ faults \in Nat
  BY DEF PingsInv, RTypeOK
<1>1. RTypeOK'
  BY <1>0, RTypeStep
<1>2. DeletedStaysDeleted'
  <2>1. CASE RowStep
    BY <1>0, <2>1, DeletedStep DEF RowStep, Next
  <2>2. CASE Persist
    BY <1>0, <2>2 DEF Persist, Stamps, DeletedStaysDeleted, Live, TypeOK
  <2>3. ASSUME UNCHANGED vars PROVE DeletedStaysDeleted'
    BY <1>0, <2>3, DeletedStep
  <2> QED
    BY <2>1, <2>2, <2>3 DEF RNext, StartCheck, Remind, Interrupt, LoseCheck, SetUser,
       SetPaused, rvars
<1>3. ASSUME NEW s \in Subs PROVE PingInv(s, e)'
  <2>0. PingInv(s, e)
    BY DEF PingsInv
  <2>1. CASE Interrupt
    <3>1. /\ worker'.at = worker.at /\ worker'.sent = worker.sent /\ DOMAIN worker'.batch = {}
          /\ UNCHANGED <<sub, deleted, faults, pings>>
      BY <1>0, <2>1 DEF Interrupt, Checks, vars, rowVars
    <3> QED
      BY <1>0, <2>0, <3>1, PingOtherStep
  <2>2. CASE LoseCheck
    <3>1. /\ worker'.sent = {} /\ DOMAIN worker'.batch = {} /\ faults' = faults + 1
          /\ UNCHANGED <<sub, deleted, pings>>
      BY <1>0, <2>2 DEF LoseCheck, Fault, IdleWorker, vars, rowVars
    <3> QED
      BY <1>0, <2>0, <3>1, PingLostStep
  <2>3. ASSUME UNCHANGED <<vars, worker, faults, pings>> PROVE PingInv(s, e)'
    BY <1>0, <2>0, <2>3, PingOtherStep DEF vars, rowVars
  <2>4. ASSUME NEW v \in DOMAIN worker.batch PROVE v \in Subs
    BY <1>0, BatchFacts
  <2> QED
    BY <2>1, <2>2, <2>3, PingRowStep, PingStartStep, PingRemindStep, PingPersistStep
       DEF RNext, SetUser, SetPaused, rvars
<1> QED
  BY <1>1, <1>2, <1>3 DEF PingsInv

\* At the start nobody was reminded of anything.
LEMMA PingInit ==
  ASSUME NEW e \in Nat
  PROVE  RInit => PingsInv(e)
<1>1. RInit => RTypeOK
  BY RTypeInit
<1>2. RInit => DeletedStaysDeleted
  BY DEF RInit, Init, DeletedStaysDeleted
<1>3. RInit => \A s \in Subs : PingInv(s, e)
  BY DEF RInit, Quiet, IdleWorker, PingInv, Accounted, SentToday, RoomForOne, Spaced, Surplus,
     Pending
<1> QED
  BY <1>1, <1>2, <1>3 DEF PingsInv

RemindersFit(e) == \A s \in Subs : Spaced(s, e)

\* notification.go, the dedup window: the reminders about one date of a row fit into
\* one day, none before slot e and each more than the window after the one before, but
\* for one reminder more per crash, failed stamp or send that timed out too late.
THEOREM RemindersSpaced ==
  ASSUME NEW e \in Nat, TimesFrom(e)
  PROVE  RSpec => []RemindersFit(e)
<1>1. RInit => PingsInv(e)
  BY PingInit
<1>2. PingsInv(e) /\ [RNext]_rvars => PingsInv(e)'
  BY PingStep
<1>3. PingsInv(e) => RemindersFit(e)
  BY DEF PingsInv, PingInv, RemindersFit
<1> QED
  BY <1>1, <1>2, <1>3, PTL DEF RSpec

\* If the window of the n-th reminder reaches past the end of the day, there are at
\* most n, and one more per fault.
LEMMA AtMost ==
  ASSUME RTypeOK, NEW e \in Nat, RemindersFit(e), NEW n \in Nat,
         e + n * (DedupSlots + 1) >= SlotsPerDay
  PROVE  \A s \in Subs : pings[s].count <= n + faults
<1> SUFFICES ASSUME NEW s \in Subs, ~(pings[s].count <= n + faults) PROVE FALSE
  OBVIOUS
<1> DEFINE c == Surplus(s)
<1>1. c \in Int /\ c - 1 >= n /\ c > 0
  BY PingNumbers DEF Surplus
<1>2. e + (c - 1) * (DedupSlots + 1) <= SlotsPerDay - 1
  BY <1>1 DEF RemindersFit, Spaced, Fits
<1> HIDE DEF c
<1>3. DedupSlots + 1 \in Nat /\ SlotsPerDay \in Nat
  BY ReminderAssumption, CalendarAssumption
<1>4. PICK D \in Nat : D = DedupSlots + 1
  BY <1>3
<1>5. PICK k \in Nat : c - 1 = n + k
  <2>1. c - 1 - n \in Nat /\ c - 1 = n + (c - 1 - n)
    BY <1>1
  <2> QED
    BY <2>1
<1>6. (c - 1) * D = n * D + k * D /\ k * D \in Nat /\ n * D \in Nat
  BY <1>4, <1>5
<1>7. e + (c - 1) * D <= SlotsPerDay - 1 /\ e + n * D >= SlotsPerDay
  BY <1>2, <1>4
<1> DEFINE nD == n * D
           kD == k * D
           cD == (c - 1) * D
<1>8. cD = nD + kD /\ kD \in Nat /\ nD \in Nat /\ e + cD <= SlotsPerDay - 1
      /\ e + nD >= SlotsPerDay
  BY <1>6, <1>7
<1> HIDE DEF nD, kD, cD
<1> QED
  BY <1>3, <1>8

\* If no user is reminded so early that the dedup window ends on the same day, there
\* is at most one reminder per date of a row, and one more for each crash, failed stamp
\* or send that timed out after delivering.
THEOREM OneReminderPerDate == ASSUME LateTimes PROVE RSpec => []OnePingPerDate
<1> DEFINE e == SlotsPerDay - 1 - DedupSlots
<1>1. e \in Nat /\ TimesFrom(e) /\ e + 1 * (DedupSlots + 1) >= SlotsPerDay
  BY ReminderAssumption, CalendarAssumption DEF LateTimes, TimesFrom
<1> HIDE DEF e
<1>2. RInit => PingsInv(e)
  BY <1>1, PingInit
<1>3. PingsInv(e) /\ [RNext]_rvars => PingsInv(e)'
  BY <1>1, PingStep
<1>4. PingsInv(e) => RTypeOK /\ RemindersFit(e)
  BY DEF PingsInv, PingInv, RemindersFit
<1>5. RTypeOK /\ RemindersFit(e) => OnePingPerDate
  BY <1>1, AtMost DEF OnePingPerDate
<1> QED
  BY <1>2, <1>3, <1>4, <1>5, PTL DEF RSpec

\* Whatever the notification times, there are at most two, and one more per fault, when
\* two dedup windows are no shorter than the day, as twenty hours are.
THEOREM TwoRemindersAtMost ==
  ASSUME 2 * (DedupSlots + 1) >= SlotsPerDay
  PROVE  RSpec => [](\A s \in Subs : pings[s].count <= 2 + faults)
<1>1. 0 \in Nat /\ TimesFrom(0) /\ 0 + 2 * (DedupSlots + 1) >= SlotsPerDay
  BY ReminderAssumption DEF TimesFrom
<1>2. RInit => PingsInv(0)
  BY <1>1, PingInit
<1>3. PingsInv(0) /\ [RNext]_rvars => PingsInv(0)'
  BY <1>1, PingStep
<1>4. PingsInv(0) => RTypeOK /\ RemindersFit(0)
  BY DEF PingsInv, PingInv, RemindersFit
<1>5. RTypeOK /\ RemindersFit(0) => \A s \in Subs : pings[s].count <= 2 + faults
  BY <1>1, AtMost
<1> QED
  BY <1>2, <1>3, <1>4, <1>5, PTL DEF RSpec

-----------------------------------------------------------------------------
\* A moment in the past on whose day s was reminded of the day after it.
PingedAt(s, t) == t.day <= now.day /\ <<s, t.day + 1>> \in pinged

\* A stamp, and what a check has sent and not yet stamped, tell of a reminder.
StampIsPinged(s) == Live(s) /\ sub[s].notified # NULL => PingedAt(s, sub[s].notified)
SentIsPinged(s)  == s \in worker.sent => PingedAt(s, worker.at)
CheckIsPast      == worker.at # NULL => worker.at.day <= now.day

StampsInv ==
  /\ RTypeOK /\ CheckIsPast
  /\ \A s \in Subs : StampIsPinged(s) /\ SentIsPinged(s)

\* Only the clock moves the clock, and forward.
LEMMA ClockForward ==
  ASSUME TypeOK, [RNext]_rvars
  PROVE  now.day \in Nat /\ now'.day \in Nat /\ now.day <= now'.day
<1>1. now \in Moments
  BY DEF TypeOK
<1>2. now.day \in Nat
  BY <1>1, CalendarAssumption DEF Moments, Days
<1>3. CASE Tick
  BY <1>1, <1>2, <1>3, CalendarAssumption DEF Tick, NextMoment, Moments, Days, Slots
<1>4. CASE UNCHANGED now
  BY <1>2, <1>4
<1>5. Tick \/ UNCHANGED now
  BY DEF RNext, RowStep, UserStep, CreateAny, Create, BeginUpdate, Update, FinishUpdate,
     Delete, BeginRenew, FinishRenew, Abandon, TrialSweep, StartCheck, Remind, Interrupt,
     Persist, LoseCheck, SetUser, SetPaused, vars, rvars
<1> QED
  BY <1>3, <1>4, <1>5

\* What was pinged at a moment that is a day of the calendar stays so.
LEMMA PingedStays ==
  ASSUME TypeOK, [RNext]_rvars, NEW s, NEW t, t.day \in Nat, PingedAt(s, t), pinged \subseteq pinged'
  PROVE  PingedAt(s, t)'
<1>1. t.day <= now.day /\ now.day \in Nat /\ now'.day \in Nat /\ now.day <= now'.day
  BY ClockForward DEF PingedAt
<1> QED
  BY <1>1 DEF PingedAt

\* The stamps of rows, and the check's moment, are numbered days.
LEMMA StampDays ==
  ASSUME RTypeOK
  PROVE  /\ worker.at # NULL => worker.at.day \in Nat
         /\ \A s \in Subs : Live(s) /\ sub[s].notified # NULL => sub[s].notified.day \in Nat
         /\ \A s \in worker.sent : worker.at # NULL
<1>0. sub \in [Subs -> Rows \cup {NULL}] /\ worker \in Checks
  BY DEF RTypeOK, TypeOK
<1>m. \A t \in Moments : t.day \in Nat
  BY CalendarAssumption DEF Moments, Days
<1>1. worker.at # NULL => worker.at \in Moments
  BY <1>0 DEF Checks
<1>2. ASSUME NEW s \in Subs, Live(s), sub[s].notified # NULL PROVE sub[s].notified \in Moments
  <2>1. sub[s] \in Rows
    BY <1>0, <1>2 DEF Live
  <2> QED
    BY <1>2, <2>1 DEF Rows
<1>3. \A s \in worker.sent : worker.at # NULL
  BY DEF RTypeOK, IdleWorker
<1> QED
  BY <1>m, <1>1, <1>2, <1>3

\* No step of a user, a callback or the sweep stamps a row, and a new row has no stamp.
LEMMA OnlyPersistStamps ==
  ASSUME TypeOK, UserStep \/ TrialSweep \/ Tick, NEW s \in Subs, Live(s)',
         sub'[s].notified # NULL
  PROVE  Live(s) /\ sub'[s].notified = sub[s].notified
<1>0. sub \in [Subs -> Rows \cup {NULL}]
  BY DEF TypeOK
<1>1. CASE Live(s)
  BY <1>1, RowSteps DEF RowChange, Live
<1>2. ASSUME ~Live(s) PROVE FALSE
  <2>1. ASSUME UNCHANGED sub PROVE FALSE
    BY <1>2, <2>1 DEF Live
  <2>2. CASE CreateAny
    <3>1. PICK v \in Subs, date \in Dates, period \in Periods, trial \in BOOLEAN :
            \E ends \in {NULL, date} : Create(v, date, period, trial, ends)
      BY <2>2 DEF CreateAny
    <3>2. PICK ends \in {NULL, date} : Create(v, date, period, trial, ends)
      BY <3>1
    <3> QED
      BY <1>0, <1>2, <3>2 DEF Create, Live
  <2>3. ASSUME NEW r \in Requests, Update(r) PROVE FALSE
    BY <1>0, <1>2, <2>3, WrittenRows DEF Update, FinishUpdate, SameRowsLive, Live, UpdateMatches
  <2>4. ASSUME NEW r \in Requests, FinishRenew(r) PROVE FALSE
    BY <1>0, <1>2, <2>4, WrittenRows DEF FinishRenew, SameRowsLive, Live, DateStill
  <2>5. ASSUME NEW v \in Subs, Delete(v) PROVE FALSE
    BY <1>0, <1>2, <2>5 DEF Delete, Live
  <2>6. CASE TrialSweep
    <3>1. s \notin Converted
      BY <1>2 DEF Converted
    <3> QED
      BY <1>2, <2>6, <3>1 DEF TrialSweep, Live
  <2> QED
    BY <2>1, <2>2, <2>3, <2>4, <2>5, <2>6
       DEF UserStep, BeginUpdate, BeginRenew, Abandon, Tick, rowVars
<1> QED
  BY <1>1, <1>2

\* A reminder is recorded under the day after the check's.
LEMMA RemindPings ==
  ASSUME StampsInv, NEW v \in Subs, NEW outcome \in Outcomes, Remind(v, outcome)
  PROVE  /\ pinged \subseteq pinged' /\ worker'.at = worker.at
         /\ \A s \in worker'.sent : s \in worker.sent \/ <<s, worker.at.day + 1>> \in pinged'
<1> DEFINE date == worker.batch[v].next
<1>0. worker \in Checks
  BY DEF StampsInv, RTypeOK
<1>1. /\ worker'.at = worker.at
      /\ worker'.sent = IF outcome = "sent" THEN worker.sent \cup {v} ELSE worker.sent
  BY <1>0 DEF Remind, Checks
<1>2. CASE outcome = "unsent"
  BY <1>1, <1>2 DEF Remind
<1>3. CASE outcome # "unsent"
  <2>1. pinged' = pinged \cup {<<v, date>>} /\ date = worker.at.day + 1
    BY <1>3 DEF Remind, DueNow, shouldSendNow
  <2> QED
    BY <1>1, <1>3, <2>1
<1> QED
  BY <1>2, <1>3

\* Every step keeps a reminder behind every stamp.
LEMMA StampsStep == StampsInv /\ [RNext]_rvars => StampsInv'
<1> SUFFICES ASSUME StampsInv, [RNext]_rvars PROVE StampsInv'
  OBVIOUS
<1>0. RTypeOK /\ TypeOK /\ worker \in Checks
  BY DEF StampsInv, RTypeOK
<1>1. RTypeOK'
  BY <1>0, RTypeStep
<1>t. now.day \in Nat /\ now'.day \in Nat /\ now.day <= now'.day
  BY <1>0, ClockForward
<1>2. CheckIsPast'
  <2>1. worker'.at = worker.at \/ worker'.at = NULL \/ (worker'.at = now /\ now' = now)
    <3>1. ASSUME NEW v \in Subs, NEW outcome \in Outcomes, Remind(v, outcome) PROVE worker'.at = worker.at
      BY <3>1, RemindPings
    <3>2. Interrupt => worker'.at = worker.at
      BY <1>0 DEF Interrupt, Checks
    <3>3. StartCheck => worker'.at = now /\ now' = now
      BY DEF StartCheck, vars
    <3>4. Persist \/ LoseCheck => worker'.at = NULL
      BY DEF Persist, LoseCheck, IdleWorker
    <3> QED
      BY <3>1, <3>2, <3>3, <3>4 DEF RNext, RowStep, SetUser, SetPaused, rvars
  <2> QED
    BY <1>0, <1>t, <2>1, StampDays DEF StampsInv, CheckIsPast
<1>p. pinged \subseteq pinged'
  <2>1. ASSUME NEW v \in Subs, NEW outcome \in Outcomes, Remind(v, outcome) PROVE pinged \subseteq pinged'
    BY <2>1, RemindPings
  <2> QED
    BY <2>1 DEF RNext, RowStep, StartCheck, Interrupt, Persist, LoseCheck, SetUser, SetPaused, rvars
<1>3. ASSUME NEW s \in Subs PROVE SentIsPinged(s)'
  <2>1. CASE worker'.at = worker.at /\ worker'.sent = worker.sent
    BY <1>0, <1>p, <2>1, PingedStays, StampDays DEF StampsInv, SentIsPinged, PingedAt
  <2>2. ASSUME worker'.sent = {} PROVE SentIsPinged(s)'
    BY <2>2 DEF SentIsPinged
  <2>3. ASSUME NEW v \in Subs, NEW outcome \in Outcomes, Remind(v, outcome) PROVE SentIsPinged(s)'
    <3> SUFFICES ASSUME s \in worker'.sent PROVE PingedAt(s, worker.at)'
      BY DEF SentIsPinged, PingedAt
    <3>1. /\ worker'.at = worker.at
          /\ s \in worker.sent \/ <<s, worker.at.day + 1>> \in pinged'
      BY <2>3, RemindPings
    <3>2. worker'.at # NULL
      BY <1>1, <3>1 DEF RTypeOK, IdleWorker
    <3>3. worker'.at.day <= now'.day
      BY <1>2, <3>2 DEF CheckIsPast
    <3>4. s \in worker.sent => <<s, worker.at.day + 1>> \in pinged
      BY DEF StampsInv, SentIsPinged, PingedAt
    <3> QED
      BY <1>p, <3>1, <3>3, <3>4 DEF PingedAt
  <2>4. \/ worker'.at = worker.at /\ worker'.sent = worker.sent
        \/ worker'.sent = {}
        \/ \E v \in Subs, outcome \in Outcomes : Remind(v, outcome)
    BY <1>0 DEF RNext, RowStep, StartCheck, Interrupt, Persist, LoseCheck, SetUser, SetPaused,
       IdleWorker, rvars, Checks
  <2> QED
    BY <2>1, <2>2, <2>3, <2>4
<1>4. ASSUME NEW s \in Subs PROVE StampIsPinged(s)'
  <2> SUFFICES ASSUME Live(s)', sub'[s].notified # NULL PROVE PingedAt(s, sub[s].notified)'
    BY DEF StampIsPinged, PingedAt, Live
  <2>1. ASSUME Live(s), sub'[s].notified = sub[s].notified PROVE PingedAt(s, sub[s].notified)'
    <3> DEFINE t == sub[s].notified
    <3>1. PingedAt(s, t) /\ t.day \in Nat
      BY <1>0, <2>1, StampDays DEF StampsInv, StampIsPinged
    <3>2. t.day <= now'.day /\ <<s, t.day + 1>> \in pinged'
      BY <1>t, <1>p, <3>1 DEF PingedAt
    <3> QED
      BY <2>1, <3>2 DEF PingedAt
  <2>2. CASE RowStep
    BY <1>0, <2>1, <2>2, OnlyPersistStamps DEF RowStep
  <2>3. CASE Persist
    <3>0. sub \in [Subs -> Rows \cup {NULL}] /\ worker.at \in Moments
      BY <1>0, <2>3 DEF Persist, TypeOK, Checks
    <3>1. CASE Stamps(s)
      <4>1. sub[s] \in Rows
        BY <3>0, <3>1 DEF Stamps, Live
      <4>2. sub'[s] = [sub[s] EXCEPT !.notified = worker.at]
        BY <2>3, <3>1 DEF Persist
      <4>3. sub'[s].notified = worker.at
        BY <4>1, <4>2 DEF Rows
      <4>4. PingedAt(s, worker.at) /\ worker.at.day \in Nat
        BY <1>0, <2>3, <3>1, StampDays DEF StampsInv, SentIsPinged, Stamps, Persist
      <4>5. worker.at.day <= now'.day /\ <<s, worker.at.day + 1>> \in pinged'
        BY <1>t, <1>p, <4>4 DEF PingedAt
      <4> QED
        BY <4>3, <4>5 DEF PingedAt
    <3>2. CASE ~Stamps(s)
      <4>1. sub'[s] = sub[s]
        BY <2>3, <3>2 DEF Persist
      <4> QED
        BY <2>1, <4>1 DEF Live
    <3> QED
      BY <3>1, <3>2
  <2>4. ASSUME UNCHANGED sub PROVE PingedAt(s, sub[s].notified)'
    BY <2>1, <2>4 DEF Live
  <2> QED
    BY <2>2, <2>3, <2>4 DEF RNext, StartCheck, Remind, Interrupt, LoseCheck, SetUser,
       SetPaused, vars, rowVars, rvars
<1> QED
  BY <1>1, <1>2, <1>3, <1>4 DEF StampsInv

\* At the last moment of a day, a stamp whose dedup window reaches it is of that day.
LEMMA LastMomentBlocks ==
  ASSUME NEW t \in Moments, now \in Moments, t.day <= now.day,
         now.slot = SlotsPerDay - 1, Elapsed(t, now) <= DedupSlots
  PROVE  t.day = now.day
<1>1. t.day \in Nat /\ now.day \in Nat /\ t.slot \in Slots /\ SlotsPerDay \in Nat
  BY CalendarAssumption DEF Moments, Days
<1>2. t.slot \in Nat /\ t.slot <= SlotsPerDay - 1 /\ DedupSlots < SlotsPerDay /\ DedupSlots \in Nat
  BY <1>1, ReminderAssumption DEF Slots
<1>3. ASSUME t.day < now.day PROVE FALSE
  <2>1. PICK k \in Nat : now.day - t.day = k + 1
    <3>1. now.day - t.day - 1 \in Nat /\ now.day - t.day = (now.day - t.day - 1) + 1
      BY <1>1, <1>3
    <3> QED
      BY <3>1
  <2>2. SlotsPerDay * (k + 1) = SlotsPerDay * k + SlotsPerDay /\ SlotsPerDay * k >= 0
    BY <1>1, <2>1
  <2>3. SlotsPerDay * (now.day - t.day) >= SlotsPerDay
    BY <1>1, <2>1, <2>2
  <2>4. Elapsed(t, now) = SlotsPerDay * (now.day - t.day) + now.slot - t.slot
    BY DEF Elapsed
  <2>5. SlotsPerDay * (now.day - t.day) \in Int
    BY <1>1
  <2> QED
    BY <1>1, <1>2, <2>3, <2>4, <2>5
<1> QED
  BY <1>1, <1>3

\* A dedup stamp never makes a payment day pass without its reminder: what the window
\* still hides at the last moment of the eve was reminded of that day.  It needs no
\* bound on crashes, failed stamps or early preferred times.
THEOREM DedupLosesNoReminder == RSpec => []SuppressedWasSent
<1>1. RInit => StampsInv
  <2>1. RInit => RTypeOK
    BY RTypeInit
  <2> QED
    BY <2>1 DEF RInit, Init, Live, IdleWorker, StampsInv, CheckIsPast, StampIsPinged, SentIsPinged
<1>2. StampsInv => SuppressedWasSent
  <2> SUFFICES ASSUME StampsInv, NEW s \in Subs, Live(s), now.slot = SlotsPerDay - 1,
                      sub[s].next = now.day + 1, DedupBlocks(sub[s], now)
               PROVE  <<s, sub[s].next>> \in pinged
    BY DEF SuppressedWasSent
  <2> DEFINE t == sub[s].notified
  <2>1. t # NULL /\ Elapsed(t, now) <= DedupSlots
    BY DEF DedupBlocks
  <2>2. PingedAt(s, t)
    BY <2>1 DEF StampsInv, StampIsPinged
  <2>3. now \in Moments /\ sub[s] \in Rows
    BY DEF StampsInv, RTypeOK, TypeOK, Live
  <2>4. t \in Moments
    BY <2>1, <2>3 DEF Rows
  <2>5. t.day = now.day
    BY <2>1, <2>2, <2>3, <2>4, LastMomentBlocks DEF PingedAt
  <2> QED
    BY <2>2, <2>5 DEF PingedAt
<1> QED
  BY <1>1, <1>2, StampsStep, PTL DEF RSpec
-----------------------------------------------------------------------------
\* A stamp leaves alone what Moved relates: which rows there are, their dates, and
\* what requests hold.
LEMMA StampsKeepRows ==
  ASSUME RTypeOK, Persist, NEW s \in Subs
  PROVE  /\ sub[s] = NULL => sub'[s] = NULL
         /\ sub[s] # NULL => sub'[s] # NULL /\ sub'[s].next = sub[s].next
<1>1. CASE Stamps(s)
  <2>1. sub[s] \in Rows /\ sub[s] # NULL /\ worker.at \in Moments
    BY <1>1 DEF Stamps, Live, RTypeOK, TypeOK, Persist, Checks
  <2>2. sub'[s] = [sub[s] EXCEPT !.notified = worker.at]
    BY <1>1 DEF Persist
  <2>3. sub'[s].next = sub[s].next /\ sub'[s] \in Rows
    BY <2>1, <2>2 DEF Rows
  <2> QED
    BY <2>1, <2>3, RowAssumption
<1>2. CASE ~Stamps(s)
  BY <1>2 DEF Persist
<1> QED
  BY <1>1, <1>2

\* What requests have read moves as their histories say with the worker about, too.
LEMMA MovedBesideWorker == RTypeOK /\ MovedInv /\ [RNext]_rvars => MovedInv'
<1> SUFFICES ASSUME RTypeOK, MovedInv, [RNext]_rvars PROVE MovedInv'
  OBVIOUS
<1>0. TypeOK /\ DeletedStaysDeleted /\ Moved
  BY DEF MovedInv
<1>1. TypeOK'
  BY RTypeStep DEF RTypeOK
<1>2. ASSUME [Next]_vars PROVE MovedInv'
  BY <1>0, <1>1, <1>2, MovedStep, DeletedStep DEF MovedInv
<1>3. CASE Persist
  <2>1. UNCHANGED <<request, deleted>>
    BY <1>3 DEF Persist
  <2>2. DeletedStaysDeleted'
    <3>1. \A s \in Subs : sub[s] = NULL => sub'[s] = NULL
      BY <1>3, StampsKeepRows
    <3> QED
      BY <1>0, <2>1, <3>1 DEF DeletedStaysDeleted, Live, TypeOK
  <2>3. ASSUME NEW r \in Requests, request'[r] # NULL PROVE MovedSince(r)'
    <3> DEFINE s == request[r].sub
    <3>1. s \in Subs /\ MovedSince(r)
      BY <1>0, <2>1, <2>3, HeldFacts DEF Moved
    <3>2. /\ sub[s] = NULL => sub'[s] = NULL
          /\ sub[s] # NULL => sub'[s] # NULL /\ sub'[s].next = sub[s].next
      BY <1>3, <3>1, StampsKeepRows
    <3> QED
      BY <2>1, <3>1, <3>2 DEF MovedSince, Live
  <2> QED
    BY <1>1, <2>2, <2>3 DEF MovedInv, Moved
<1> QED
  BY <1>2, <1>3 DEF RNext, RowStep, Next, StartCheck, Remind, Interrupt, LoseCheck,
     SetUser, SetPaused, rvars

\* The worker's steps end no request.
LEMMA OnceBesideWorker == MovedInv /\ [RNext]_rvars => [LeavesRenewed]_vars
<1> SUFFICES ASSUME MovedInv, [RNext]_rvars PROVE LeavesRenewed
  OBVIOUS
<1>1. [Next]_vars => LeavesRenewed
  BY OnceStep
<1>2. UNCHANGED request => LeavesRenewed
  BY DEF LeavesRenewed
<1> QED
  BY <1>1, <1>2 DEF RNext, RowStep, Next, StartCheck, Remind, Interrupt, Persist,
     LoseCheck, SetUser, SetPaused, rvars, vars

\* What holds of the rows under the users' steps alone holds with the reminder worker
\* stamping them in between: no stamp revives a deleted row or lets a second of
\* overlapping callbacks shift a date.
THEOREM RowsBesideWorker == RSpec => []DeletedStaysDeleted /\ DoubleTapShiftsOnce
<1>1. RInit => MovedInv
  BY TypeInit DEF RInit, Init, MovedInv, Moved, DeletedStaysDeleted
<1>2. MovedInv => DeletedStaysDeleted
  BY DEF MovedInv
<1> QED
  BY <1>1, <1>2, RemindersTypeCorrect, MovedBesideWorker, OnceBesideWorker, PTL
     DEF RSpec, DoubleTapShiftsOnce, LeavesRenewed
=============================================================================
