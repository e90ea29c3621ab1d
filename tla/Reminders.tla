----------------------------- MODULE Reminders -----------------------------
(***************************************************************************)
(* The payment-reminder worker over the rows of Subscriptions.  A check    *)
(* reads the candidate rows (StartCheck), goes through them one by one     *)
(* from the copies it read (Remind), and at the end stamps notified_at of  *)
(* those it sent, in one UPDATE (Persist).  Users, callbacks and the admin *)
(* move in between; the process may be stopped or may crash at any point.  *)
(***************************************************************************)
EXTENDS Subscriptions

CONSTANTS
  PrefTimes,   \* notification times a user may choose, as slots of the day
  DedupSlots,  \* notificationDedupWindow, in slots
  MaxFaults    \* bound on crashes, failed stamps and late sends

ASSUME ReminderAssumption ==
  /\ PrefTimes \subseteq Nat /\ PrefTimes # {}
  /\ DedupSlots \in Nat /\ DedupSlots < SlotsPerDay
  /\ MaxFaults \in Nat

VARIABLES
  user,    \* [pref, reachable]: notification_time, and enabled and not banned
  paused,  \* the admin's pause_notifications switch
  worker,  \* the running check: its time, the rows and user it read, rows sent
  faults,  \* crashes, failed stamps and late sends so far
  pings,   \* history: [date, count] of reminders since the row was last re-armed
  pinged   \* history: <<sub, date>> pairs reminded of

rvars == <<vars, user, paused, worker, faults, pings, pinged>>

IdleWorker == [at |-> NULL, user |-> NULL, batch |-> <<>>, sent |-> {}]
Quiet      == [date |-> NULL, count |-> 0]

RInit ==
  /\ Init
  /\ user \in [pref : PrefTimes, reachable : BOOLEAN]
  /\ paused = FALSE
  /\ worker = IdleWorker
  /\ faults = 0
  /\ pings = [s \in Subs |-> Quiet]
  /\ pinged = {}

Elapsed(t, u) == SlotsPerDay * (u.day - t.day) + u.slot - t.slot

\* next_payment_at BETWEEN now AND now + 48h.
notificationWindow(due, t) ==
  ~Before(due, t) /\ ~Before([day |-> t.day + 2, slot |-> t.slot], due)

\* Still inside the dedup window at time t.
DedupBlocksTwoDays(row, t) ==   \* mutant: a window of two days
  row.notified # NULL /\ Elapsed(row.notified, t) <= 2 * SlotsPerDay
DedupBlocks(row, t) ==
  row.notified # NULL /\ Elapsed(row.notified, t) <= DedupSlots

\* The candidate query.
Candidate(s) ==
  /\ Live(s)
  /\ notificationWindow(Noon(sub[s].next), now)
  /\ ~DedupBlocks(sub[s], now)

\* The per-row gates, on the copies: the preferred time has come, the payment
\* falls tomorrow, and the dedup window again.
shouldSendNow(row, u, t) ==
  /\ t.slot >= u.pref
  /\ row.next = t.day + 1
  /\ row.notified # NULL => Elapsed(row.notified, t) >= DedupSlots

StartCheck ==
  /\ worker = IdleWorker
  /\ ~paused
  /\ LET found == {s \in Subs : Candidate(s)} IN
       /\ found # {}
       /\ worker' = [at |-> now, user |-> user,
                     batch |-> [s \in found |-> sub[s]], sent |-> {}]
  /\ UNCHANGED <<vars, user, paused, faults, pings, pinged>>

Without(f, s) == [v \in DOMAIN f \ {s} |-> f[v]]

\* A reminder goes out for this row of the batch: the gates let it through.
DueNow(s) ==
  worker.user.reachable /\ shouldSendNow(worker.batch[s], worker.user, worker.at)

Fault == faults < MaxFaults /\ faults' = faults + 1

\* How one row ends.  A send that times out after the message arrived is "late":
\* the user reads it, and the worker, told of an error, does not stamp the row.
Outcomes == {"unsent", "sent", "late"}

\* One row is done: skipped or failed to send, sent, or sent without knowing.
Remind(s, outcome) ==
  LET date == worker.batch[s].next IN
  /\ s \in DOMAIN worker.batch
  /\ outcome # "unsent" => DueNow(s)
  /\ IF outcome = "late" THEN Fault ELSE UNCHANGED faults
  /\ worker' = [worker EXCEPT !.batch = Without(@, s),
                              !.sent  = IF outcome = "sent" THEN @ \cup {s} ELSE @]
  /\ IF outcome = "unsent"
     THEN UNCHANGED <<pings, pinged>>
     ELSE /\ pings' = [pings EXCEPT ![s] =
                         [date |-> date, count |-> IF @.date = date THEN @.count + 1 ELSE 1]]
          /\ pinged' = pinged \cup {<<s, date>>}
  /\ UNCHANGED <<vars, user, paused>>

\* SIGTERM: the loop over the rows ends early.
Interrupt ==
  /\ worker.batch # <<>>
  /\ worker' = [worker EXCEPT !.batch = <<>>]
  /\ UNCHANGED <<vars, user, paused, faults, pings, pinged>>

StampsNone(s) == FALSE   \* mutant: the stamp of what was sent is not saved
Stamps(s) == s \in worker.sent /\ Live(s)

\* UPDATE ... SET notified_at = now WHERE id IN sent, with a context of its own.
Persist ==
  /\ worker.at # NULL /\ worker.batch = <<>>
  /\ sub' = [s \in Subs |-> IF Stamps(s) THEN [sub[s] EXCEPT !.notified = worker.at]
                            ELSE sub[s]]
  /\ worker' = IdleWorker
  /\ UNCHANGED <<now, request, deleted, delivered, endless, user, paused, faults, pings,
                 pinged>>

\* The UPDATE fails and is only logged, or the process dies at any point.
LoseCheck ==
  /\ worker.at # NULL
  /\ Fault
  /\ worker' = IdleWorker
  /\ UNCHANGED <<vars, user, paused, pings, pinged>>

\* PATCH /me, a ban, and the admin's switch.
SetUser(u) ==
  /\ user' = u
  /\ UNCHANGED <<vars, paused, worker, faults, pings, pinged>>

SetPaused(p) ==
  /\ paused' = p
  /\ UNCHANGED <<vars, user, worker, faults, pings, pinged>>

\* A row is re-armed when its date or period changes or its stamp is cleared.
Rearmed(s) ==
  /\ Live(s) /\ sub'[s] # NULL
  /\ \/ sub'[s].next # sub[s].next
     \/ sub'[s].period # sub[s].period
     \/ sub[s].notified # NULL /\ sub'[s].notified = NULL

RowStep ==
  /\ UserStep \/ TrialSweep \/ Tick
  /\ pings' = [s \in Subs |-> IF Rearmed(s) THEN Quiet ELSE pings[s]]
  /\ UNCHANGED <<user, paused, worker, faults, pinged>>

RNext ==
  \/ RowStep
  \/ StartCheck
  \/ \E s \in Subs, outcome \in Outcomes : Remind(s, outcome)
  \/ Interrupt
  \/ Persist
  \/ LoseCheck
  \/ \E u \in [pref : PrefTimes, reachable : BOOLEAN] : SetUser(u)
  \/ \E p \in BOOLEAN : SetPaused(p)

RSpec == RInit /\ [][RNext]_rvars
-----------------------------------------------------------------------------
UserRows == [pref : PrefTimes, reachable : BOOLEAN]
Batches  == UNION {[found -> Rows] : found \in SUBSET Subs}
Checks   == [at : Moments \cup {NULL}, user : UserRows \cup {NULL}, batch : Batches,
             sent : SUBSET Subs]

\* Type invariant.
RTypeOK ==
  /\ TypeOK
  /\ user \in UserRows
  /\ paused \in BOOLEAN
  /\ worker \in Checks
  /\ worker.at # NULL => worker.user \in UserRows
  /\ worker.at = NULL => worker = IdleWorker
  /\ faults \in Nat
  /\ pings \in [Subs -> [date : Dates \cup {NULL}, count : Nat]]
  /\ pinged \subseteq Subs \X Dates

\* notification.go: "at most one ping per renewal date even if the worker scans
\* every 30 minutes", while a row is not re-armed.  The code does not keep that
\* when a send times out after delivering, a crash comes between the message and
\* its stamp, or the stamp fails: each such fault costs one reminder more, never
\* two.  It needs a notification time whose dedup window reaches the end of the day.
OnePingPerDate == \A s \in Subs : pings[s].count <= 1 + faults

\* In the last moment of a day the dedup window never hides a row whose reminder
\* is due and was not sent: a stale stamp delays a reminder, it does not lose it.
SuppressedWasSent ==
  \A s \in Subs :
    /\ Live(s) /\ now.slot = SlotsPerDay - 1
    /\ sub[s].next = now.day + 1
    /\ DedupBlocks(sub[s], now)
    => <<s, sub[s].next>> \in pinged
=============================================================================
