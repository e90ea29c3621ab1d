---------------------------- MODULE RoomBilling ----------------------------
(***************************************************************************)
(* The two hourly workers over the rooms: the billing reset, which clears  *)
(* the paid marks at the start of the billing day, and the reminder on the *)
(* day before.  A tick reads the rooms it may have to act on and then goes *)
(* through these copies; owners and members act in between.                *)
(*                                                                         *)
(* The clock moves on when the hour's ticks are over, taken or missed: a   *)
(* tick takes far less than an hour.                                       *)
(***************************************************************************)
EXTENDS Rooms

CONSTANTS
  ResetHours,   \* the window after midnight in which a reset happens
  reminderHour, \* local hour of the reminders
  MaxFaults,    \* bound on missed ticks, failed statements and crashes
  MaxStops      \* bound on graceful restarts

ASSUME BillingAssumption ==
  /\ ResetHours \in 2 .. HoursPerDay - 1
  /\ reminderHour \in 0 .. HoursPerDay - 1
  /\ MaxFaults \in Nat /\ MaxStops \in Nat

VARIABLES
  pending,   \* workers whose tick of this hour is still to come
  resetting, \* the reset worker's copies of rooms, those still to look at
  reminding, \* the reminder worker's: the members still to message
  faults, stops,
  settled,   \* history: when each room's billing day was last set
  told,      \* history: messages each member of each room got today
  torn       \* history: rooms whose reminder stamp was not written after messages

workerVars == <<pending, resetting, reminding, faults, stops>>
billVars   == <<roomVars, workerVars, settled, told, torn>>

Workers == {"reset", "reminder"}
Nothing == [r \in {} |-> NULL]

BillInit ==
  /\ RoomInit
  /\ pending = Workers
  /\ resetting = Nothing
  /\ reminding = Nothing
  /\ faults = 0 /\ stops = 0
  /\ settled = [r \in RoomIds |-> NULL]
  /\ told = [r \in RoomIds |-> [u \in Users |-> 0]]
  /\ torn = {}

\* The 23 hours before now: one hour less than a day.
StaleAlways(stamp) == TRUE   \* mutant: no idempotency stamp
Stale(stamp) == stamp = NULL \/ Elapsed(stamp, now) > HoursPerDay - 1

Fault == faults < MaxFaults /\ faults' = faults + 1

(***************************************************************************)
(* The billing reset.                                                      *)
(***************************************************************************)
ResetRead ==
  /\ "reset" \in pending
  /\ pending' = pending \ {"reset"}
  /\ resetting' = [r \in {v \in RoomIds : Live(v) /\ Stale(room[v].resetAt)} |-> room[r]]
  /\ UNCHANGED <<roomVars, reminding, faults, stops, settled, told, torn>>

DueInFirstHour(row) == now.hour < 1 /\ DueOn(row.billing, now.day)   \* mutant
roomDueForResetNow(row) == now.hour < ResetHours /\ DueOn(row.billing, now.day)

\* Not due by the copy: nothing.  Due: paid marks and stamp in one transaction.
ResetRoom(r) ==
  /\ r \in DOMAIN resetting
  /\ IF roomDueForResetNow(resetting[r]) /\ Live(r)
     THEN /\ room' = [room EXCEPT ![r].resetAt = now]
          /\ members' = [members EXCEPT ![r] = [u \in DOMAIN @ |-> FALSE]]
     ELSE UNCHANGED <<room, members>>
  /\ resetting' = Without(resetting, r)
  /\ UNCHANGED <<now, removed, services, request, accountVars, overlap, sent,
                 pending, reminding, faults, stops, settled, told, torn>>

\* The transaction rolls back and the loop goes on.
ResetRoomFails(r) ==
  /\ r \in DOMAIN resetting
  /\ Fault
  /\ resetting' = Without(resetting, r)
  /\ UNCHANGED <<roomVars, pending, reminding, stops, settled, told, torn>>

(***************************************************************************)
(* The reminder of the day before.                                         *)
(***************************************************************************)
RemindRead ==
  /\ "reminder" \in pending
  /\ pending' = pending \ {"reminder"}
  /\ reminding' =
       IF now.hour # reminderHour THEN Nothing
       ELSE [r \in {v \in RoomIds : /\ Live(v) /\ Stale(room[v].billReminded)
                                    /\ billsTomorrow(room[v].billing, now.day)}
               |-> DOMAIN members[r]]
  /\ UNCHANGED <<roomVars, resetting, faults, stops, settled, told, torn>>

\* One member: messaged, skipped (banned, notifications off) or failed.
TellMember(r, u, ok) ==
  /\ r \in DOMAIN reminding /\ u \in reminding[r]
  /\ reminding' = [reminding EXCEPT ![r] = @ \ {u}]
  /\ told' = IF ok THEN [told EXCEPT ![r][u] = @ + 1] ELSE told
  /\ UNCHANGED <<roomVars, pending, resetting, faults, stops, settled, torn>>

StampsNone(r) == FALSE   \* mutant: the stamp is not written
StampMatches(r) == Live(r)

\* After the last member, with a context of its own.
StampRoom(r) ==
  /\ r \in DOMAIN reminding /\ reminding[r] = {}
  /\ room' = IF StampMatches(r) THEN [room EXCEPT ![r].billReminded = now] ELSE room
  /\ reminding' = Without(reminding, r)
  /\ UNCHANGED <<now, removed, members, services, request, accountVars, overlap, sent,
                 pending, resetting, faults, stops, settled, told, torn>>

StampFails(r) ==
  /\ r \in DOMAIN reminding /\ reminding[r] = {}
  /\ Fault
  /\ reminding' = Without(reminding, r)
  /\ torn' = torn \cup {r}
  /\ UNCHANGED <<roomVars, pending, resetting, stops, settled, told>>

(***************************************************************************)
(* The process.                                                            *)
(***************************************************************************)
\* Rooms some of whose members were messaged.
HalfTold == {r \in DOMAIN reminding : \E u \in Users : told[r][u] > 0}

\* SIGTERM ends both loops; a room whose members are all messaged is stamped first.
\* The next process checks on boot.
Shutdown ==
  /\ stops < MaxStops /\ stops' = stops + 1
  /\ \A r \in DOMAIN reminding : reminding[r] # {}
  /\ pending' = Workers /\ resetting' = Nothing /\ reminding' = Nothing
  /\ torn' = torn \cup HalfTold
  /\ UNCHANGED <<roomVars, faults, settled, told>>

\* The process dies and is started again within the hour.
CrashRestart ==
  /\ Fault
  /\ pending' = Workers /\ resetting' = Nothing /\ reminding' = Nothing
  /\ torn' = torn \cup HalfTold
  /\ UNCHANGED <<roomVars, stops, settled, told>>

\* The process is down when the tick is due, or the tick's query fails.
MissTick(w) ==
  /\ w \in pending
  /\ Fault
  /\ pending' = pending \ {w}
  /\ UNCHANGED <<roomVars, resetting, reminding, stops, settled, told, torn>>

Hour ==
  /\ pending = {} /\ resetting = Nothing /\ reminding = Nothing
  /\ NextHour
  /\ pending' = Workers
  /\ told' = IF now'.day = now.day THEN told ELSE [r \in RoomIds |-> [u \in Users |-> 0]]
  /\ UNCHANGED <<resetting, reminding, faults, stops, settled, torn>>

\* Requests; a billing day is settled when it is first set or changed.
RequestStep ==
  /\ RoomStep
  /\ settled' = [r \in RoomIds |->
                   IF room'[r] # NULL /\ (Live(r) => room'[r].billing # room[r].billing)
                   THEN now ELSE settled[r]]
  /\ UNCHANGED <<workerVars, told, torn>>

BillNext ==
  \/ RequestStep
  \/ ResetRead
  \/ \E r \in RoomIds : ResetRoom(r) \/ ResetRoomFails(r)
  \/ RemindRead
  \/ \E r \in RoomIds, u \in Users, ok \in BOOLEAN : TellMember(r, u, ok)
  \/ \E r \in RoomIds : StampRoom(r) \/ StampFails(r)
  \/ Shutdown
  \/ CrashRestart
  \/ \E w \in Workers : MissTick(w)
  \/ Hour

BillSpec == BillInit /\ [][BillNext]_billVars
-----------------------------------------------------------------------------
\* Type invariant.
BillTypeOK ==
  /\ RoomTypeOK
  /\ pending \subseteq Workers
  /\ DOMAIN resetting \subseteq RoomIds
  /\ \A r \in DOMAIN resetting : resetting[r] \in RoomRows
  /\ DOMAIN reminding \subseteq RoomIds
  /\ \A r \in DOMAIN reminding : reminding[r] \subseteq Users
  /\ faults \in Nat /\ stops \in Nat
  /\ settled \in [RoomIds -> Moments \cup {NULL}]
  /\ told \in [RoomIds -> [Users -> Nat]]
  /\ torn \subseteq RoomIds

\* billing_reset.go: a second tick, or a restart, in the same window does not clear
\* again what members paid in between.
ResetOncePerDay ==
  [][\A r \in RoomIds :
       Live(r) /\ room'[r] # NULL /\ room'[r].resetAt # room[r].resetAt
       => room[r].resetAt = NULL \/ room[r].resetAt.day # now.day]_billVars

Before(s, t) == s.day < t.day \/ (s.day = t.day /\ s.hour < t.hour)

\* billing_reset.go: the window is "the safety net for a worker that misses one
\* tick": once it is over, a room whose billing day is today, and was so before
\* today, has been reset.  A room reset the day before, its billing day changed
\* since, has its stamp in the way of the first tick and so no such net.
ResetOnBillingDay ==
  \A r \in RoomIds :
    /\ faults <= 1
    /\ Live(r) /\ DueOn(room[r].billing, now.day)
    /\ now.hour >= ResetHours /\ settled[r].day < now.day
    => /\ room[r].resetAt # NULL
       /\ room[r].resetAt.day = now.day \/ (faults = 1 /\ room[r].resetAt.day = now.day - 1)

\* room_reminder.go: "so the reminder and the reset agree on the date": a room that
\* is reset was stamped as reminded the day before, if its billing day stood then.
ReminderBeforeReset ==
  \A r \in RoomIds :
    /\ faults = 0
    /\ Live(r) /\ room[r].resetAt = now
    /\ Before(settled[r], [day |-> now.day - 1, hour |-> reminderHour])
    => room[r].billReminded # NULL /\ room[r].billReminded.day = now.day - 1

\* A member is reminded of a room at most once a day, restarts included, unless
\* the messages went out and their stamp did not.
ToldOnce == \A r \in RoomIds \ torn : \A u \in Users : told[r][u] <= 1
=============================================================================
