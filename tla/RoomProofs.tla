----------------------------- MODULE RoomProofs -----------------------------
(***************************************************************************)
(* Theorems about Rooms and RoomBilling: type correctness, what survives   *)
(* the deletion of rooms and accounts, the cooldown of the owner's         *)
(* reminders, the two monthly workers, and the rooms beside them.          *)
(***************************************************************************)
EXTENDS RoomBilling, TLAPS

(***************************************************************************)
(* The calendar.                                                           *)
(***************************************************************************)
\* Days are natural numbers.
LEMMA DaysAreNumbers ==
  LastDay \in Nat /\ Days \subseteq Nat
<1>1. LastDay \in Nat
  BY DateAssumption, Zenon
<1> QED
  BY <1>1 DEF Days

\* room_reminder.go: "so the reminder and the reset agree on the date".  The day
\* before, by the reminder's rule, is the day before the reset's rule says today,
\* for every calendar and every billing day.
THEOREM ReminderAndResetAgree ==
  ASSUME NEW d \in Days, NEW billing \in Nat \ {0}
  PROVE  billsTomorrow(billing, d) <=> DueOn(billing, d + 1)
<1> d + 1 \in 0 .. LastDay + 1
  BY DaysAreNumbers DEF Days
<1> Date[d + 1].day \in Nat /\ Date[d + 1].length \in Nat /\ Date[d + 1].day <= Date[d + 1].length
  BY DateAssumption
<1> QED
  BY DEF billsTomorrow, DueOn

\* A month has more than one day: no room is due on two days in a row.
LEMMA NeverDueTwice ==
  ASSUME NEW d \in Nat, d - 1 \in Days, NEW billing \in Nat \ {0}, DueOn(billing, d), d \in Days
  PROVE  ~billsTomorrow(billing, d)
<1>1. /\ d \in 0 .. LastDay + 1 /\ d + 1 \in 0 .. LastDay + 1 /\ d \in 0 .. LastDay
  BY DaysAreNumbers DEF Days
<1>2. /\ Date[d].day \in Nat \ {0} /\ Date[d].length \in Nat
      /\ Date[d + 1].day \in Nat \ {0} /\ Date[d + 1].length \in Nat
      /\ Date[d].day <= Date[d].length /\ Date[d].length > 1
      /\ Date[d + 1].day <= Date[d + 1].length /\ Date[d + 1].length > 1
  BY <1>1, DateAssumption
<1>3. CASE Date[d].day = Date[d].length
  <2>1. Date[d + 1].day = 1
    BY <1>1, <1>3, DateAssumption
  <2>2. billing > 1
    BY <1>2, <1>3 DEF DueOn
  <2> QED
    BY <1>2, <2>1, <2>2 DEF billsTomorrow
<1>4. CASE Date[d].day # Date[d].length
  <2>1. Date[d + 1] = [day |-> Date[d].day + 1, length |-> Date[d].length]
    BY <1>1, <1>4, DateAssumption
  <2>2. billing = Date[d].day
    BY <1>4 DEF DueOn
  <2>3. Date[d + 1].day = billing + 1 /\ Date[d + 1].length = Date[d].length
    BY <2>1, <2>2
  <2> QED
    BY <1>2, <2>2, <2>3 DEF billsTomorrow
<1> QED
  BY <1>3, <1>4


\* Two moments more than a day less an hour apart are on different days.
LEMMA StaleIsAnotherDay ==
  ASSUME NEW s \in Moments, NEW t \in Moments, Elapsed(s, t) > HoursPerDay - 1
  PROVE  s.day # t.day
<1>1. s.hour \in 0 .. HoursPerDay - 1 /\ t.hour \in 0 .. HoursPerDay - 1
  BY DEF Moments
<1> s.day \in Days /\ t.day \in Days
  BY DEF Moments
<1>2. s.day \in Nat /\ t.day \in Nat
  BY DaysAreNumbers, Zenon
<1>3. ASSUME s.day = t.day PROVE FALSE
  <2>1. HoursPerDay * (t.day - s.day) = 0
    BY <1>2, <1>3, RoomAssumption
  <2> QED
    BY <1>1, <2>1, RoomAssumption DEF Elapsed
<1> QED
  BY <1>3

\* Time between moments adds up.
LEMMA ElapsedAdds ==
  ASSUME NEW s \in Moments, NEW t \in Moments, NEW u \in Moments
  PROVE  /\ Elapsed(s, t) \in Int
         /\ Elapsed(s, s) = 0
         /\ Elapsed(s, u) = Elapsed(s, t) + Elapsed(t, u)
<1>1. s.hour \in Int /\ t.hour \in Int /\ u.hour \in Int /\ HoursPerDay \in Int
  BY RoomAssumption DEF Moments
<1>2. s.day \in Int /\ t.day \in Int /\ u.day \in Int
  <2>1. s.day \in Days /\ t.day \in Days /\ u.day \in Days
    BY DEF Moments
  <2>2. s.day \in Nat /\ t.day \in Nat /\ u.day \in Nat
    BY <2>1, DaysAreNumbers, Zenon
  <2> QED
    BY <2>2
<1>3. /\ HoursPerDay * (u.day - s.day) = HoursPerDay * (t.day - s.day) + HoursPerDay * (u.day - t.day)
      /\ HoursPerDay * (s.day - s.day) = 0
      /\ HoursPerDay * (u.day - s.day) \in Int
      /\ HoursPerDay * (t.day - s.day) \in Int
      /\ HoursPerDay * (u.day - t.day) \in Int
  BY <1>1, <1>2
<1> QED
  BY <1>1, <1>3 DEF Elapsed

(***************************************************************************)
(* Maps of paid marks.                                                     *)
(***************************************************************************)
LEMMA PaidMaps ==
  ASSUME NEW S \in SUBSET Users, NEW f \in [S -> BOOLEAN]
  PROVE  f \in Paid
  BY DEF Paid

\* The paid marks of a room are a function on its members.
LEMMA PaidDomain ==
  ASSUME NEW f \in Paid
  PROVE  /\ DOMAIN f \in SUBSET Users
         /\ f \in [DOMAIN f -> BOOLEAN]
<1>1. PICK S \in SUBSET Users : f \in [S -> BOOLEAN]
  BY DEF Paid
<1> QED
  BY <1>1

\* Joining, leaving and marking give paid marks again.
LEMMA PaidOperations ==
  ASSUME NEW f \in Paid, NEW u \in Users, NEW paid \in BOOLEAN
  PROVE  /\ Without(f, u) \in Paid
         /\ Joined(f, u) \in Paid
         /\ [f EXCEPT ![u] = paid] \in Paid
         /\ NoMembers \in Paid
         /\ [v \in {u} |-> TRUE] \in Paid
         /\ [v \in DOMAIN f |-> FALSE] \in Paid
<1>1. DOMAIN f \in SUBSET Users /\ f \in [DOMAIN f -> BOOLEAN]
  BY PaidDomain
<1>2. Without(f, u) \in [DOMAIN f \ {u} -> BOOLEAN]
  BY <1>1 DEF Without
<1>3. Joined(f, u) \in [DOMAIN f \cup {u} -> BOOLEAN]
  BY <1>1 DEF Joined
<1>4. [f EXCEPT ![u] = paid] \in [DOMAIN f -> BOOLEAN]
  BY <1>1
<1>5. NoMembers \in [{} -> BOOLEAN]
  BY DEF NoMembers
<1>6. [v \in {u} |-> TRUE] \in [{u} -> BOOLEAN]
  OBVIOUS
<1>7. [v \in DOMAIN f |-> FALSE] \in [DOMAIN f -> BOOLEAN]
  OBVIOUS
<1>8. /\ DOMAIN f \ {u} \in SUBSET Users
      /\ DOMAIN f \cup {u} \in SUBSET Users
      /\ {u} \in SUBSET Users
      /\ {} \in SUBSET Users
  BY <1>1
<1>9. Without(f, u) \in Paid
  BY <1>2, <1>8, PaidMaps
<1>10. Joined(f, u) \in Paid
  BY <1>3, <1>8, PaidMaps
<1>11. [f EXCEPT ![u] = paid] \in Paid
  BY <1>1, <1>4, PaidMaps
<1>12. NoMembers \in Paid
  BY <1>5, <1>8, PaidMaps
<1>13. [v \in {u} |-> TRUE] \in Paid
  BY <1>6, <1>8, PaidMaps
<1>14. [v \in DOMAIN f |-> FALSE] \in Paid
  BY <1>1, <1>7, PaidMaps
<1> QED
  BY <1>9, <1>10, <1>11, <1>12, <1>13, <1>14

(***************************************************************************)
(* Type correctness of the rooms.                                          *)
(***************************************************************************)
LEMMA MomentsInType ==
  ASSUME RoomTypeOK
  PROVE  /\ now \in Moments
         /\ NextMoment.day \in Days => NextMoment \in Moments
<1>1. now \in Moments
  BY DEF RoomTypeOK
<1>2. now.hour \in 0 .. HoursPerDay - 1 /\ now.day \in Days
  BY <1>1 DEF Moments
<1>3. CASE now.hour + 1 < HoursPerDay
  <2>1. now.hour + 1 \in 0 .. HoursPerDay - 1
    BY <1>2, <1>3, RoomAssumption
  <2> QED
    BY <1>1, <1>2, <1>3, <2>1 DEF NextMoment, Moments
<1>4. CASE ~(now.hour + 1 < HoursPerDay)
  <2>1. 0 \in 0 .. HoursPerDay - 1
    BY RoomAssumption
  <2> QED
    BY <1>1, <1>4, <2>1 DEF NextMoment, Moments
<1> QED
  BY <1>3, <1>4

\* The time since a moment grows by one with the clock.
LEMMA ElapsedGrows ==
  ASSUME RoomTypeOK, NEW t \in Moments, NextMoment.day \in Days
  PROVE  Elapsed(t, NextMoment) = Elapsed(t, now) + 1
<1>1. now \in Moments /\ NextMoment \in Moments
  BY MomentsInType
<1>2. now.hour \in 0 .. HoursPerDay - 1 /\ now.day \in Nat /\ t.hour \in Int /\ t.day \in Int
  <2>1. now.day \in Days /\ t.day \in Days
    BY <1>1 DEF Moments
  <2>2. now.day \in Nat /\ t.day \in Nat
    BY <2>1, DaysAreNumbers, Zenon
  <2> QED
    BY <1>1, <2>2, RoomAssumption DEF Moments
<1>3. HoursPerDay \in Nat
  BY RoomAssumption
<1>4. CASE now.hour + 1 < HoursPerDay
  <2>1. NextMoment.day = now.day /\ NextMoment.hour = now.hour + 1
    BY <1>4 DEF NextMoment
  <2>2. HoursPerDay * (now.day - t.day) \in Int
    BY <1>2, <1>3
  <2> QED
    BY <1>2, <1>3, <2>1, <2>2 DEF Elapsed
<1>5. CASE ~(now.hour + 1 < HoursPerDay)
  <2>1. NextMoment.day = now.day + 1 /\ NextMoment.hour = 0 /\ now.hour = HoursPerDay - 1
    BY <1>2, <1>3, <1>5 DEF NextMoment
  <2>2. HoursPerDay * (now.day - t.day) \in Int
    BY <1>2, <1>3
  <2>3. HoursPerDay * (now.day + 1 - t.day) = HoursPerDay * (now.day - t.day) + HoursPerDay
    BY <1>2, <1>3
  <2> QED
    BY <1>2, <1>3, <2>1, <2>2, <2>3 DEF Elapsed
<1> QED
  BY <1>4, <1>5

\* A live room has a row.
LEMMA RoomRowInType ==
  ASSUME RoomTypeOK, NEW r \in RoomIds, Live(r)
  PROVE  room[r] \in RoomRows
  BY DEF RoomTypeOK, Live

\* What the deletion of some rooms and memberships leaves.
LEMMA DeletionInType ==
  ASSUME RoomTypeOK, NEW R \in SUBSET RoomIds, DeleteRooms(R)
  PROVE  /\ room' \in [RoomIds -> RoomRows \cup {NULL}]
         /\ removed' \subseteq RoomIds
         /\ services' \in [RoomIds -> SUBSET Services]
  BY DEF RoomTypeOK, DeleteRooms

\* A mark in the history of a room's reminders.
LEMMA CrossedInType ==
  ASSUME RoomTypeOK, NEW r \in RoomIds, NEW b \in BOOLEAN
  PROVE  [sent EXCEPT ![r].crossed = b] \in [RoomIds -> Histories]
<1>1. sent \in [RoomIds -> Histories]
  BY DEF RoomTypeOK
<1>2. [sent[r] EXCEPT !.crossed = b] \in Histories
  BY <1>1 DEF Histories
<1>3. [sent EXCEPT ![r].crossed = b] = [sent EXCEPT ![r] = [sent[r] EXCEPT !.crossed = b]]
  BY <1>1
<1> QED
  BY <1>1, <1>2, <1>3

\* Every request and deletion keeps the types of the rooms.
LEMMA RoomStepType ==
  ASSUME RoomTypeOK, RoomStep
  PROVE  RoomTypeOK'
<1> USE DEF accountVars, tableVars
<1>0. NoMembers \in Paid
  <2>1. NoMembers \in [{} -> BOOLEAN]
    BY DEF NoMembers
  <2> QED
    BY <2>1, PaidMaps
<1>1. ASSUME NEW u \in Users, NEW r \in RoomIds, Create(u, r) PROVE RoomTypeOK'
  <2> DEFINE row == [owner |-> u, billing |-> Date[now.day].day,
                     reminded |-> NULL, resetAt |-> NULL, billReminded |-> NULL]
             paid == [v \in {u} |-> TRUE]
  <2>1. now.day \in Days
    BY DEF RoomTypeOK, Moments
  <2>2. Date[now.day].day \in BillingDays
    BY <2>1, RoomAssumption DEF Days
  <2>3. row \in RoomRows
    BY <2>2 DEF RoomRows
  <2>4. paid \in Paid
    <3>1. paid \in [{u} -> BOOLEAN]
      OBVIOUS
    <3> QED
      BY <3>1, PaidMaps
  <2>5. room' = [room EXCEPT ![r] = row] /\ members' = [members EXCEPT ![r] = paid]
    BY <1>1 DEF Create
  <2> HIDE DEF row, paid
  <2>6. room' \in [RoomIds -> RoomRows \cup {NULL}] /\ members' \in [RoomIds -> Paid]
    BY <2>3, <2>4, <2>5 DEF RoomTypeOK
  <2>7. overlap' \subseteq RoomIds
    BY <1>1 DEF Create, RoomTypeOK
  <2>8. UNCHANGED <<now, removed, services, request, gone, erasing, erasures, sent>>
    BY <1>1 DEF Create
  <2> QED
    BY <2>6, <2>7, <2>8 DEF RoomTypeOK
<1>2. ASSUME NEW r \in RoomIds, NEW u \in Users, NEW paid \in BOOLEAN, MarkMember(r, u, paid)
      PROVE  RoomTypeOK'
  <2>1. members[r] \in Paid
    BY DEF RoomTypeOK
  <2>2. [members[r] EXCEPT ![u] = paid] \in Paid
    BY <2>1, PaidOperations
  <2>3. members' = [members EXCEPT ![r] = [members[r] EXCEPT ![u] = paid]]
    BY <1>2 DEF MarkMember, RoomTypeOK
  <2>4. members' \in [RoomIds -> Paid]
    BY <2>2, <2>3 DEF RoomTypeOK
  <2> QED
    BY <1>2, <2>4 DEF RoomTypeOK, MarkMember
<1>3. ASSUME NEW r \in RoomIds, NEW u \in Users, RemoveMember(r, u) PROVE RoomTypeOK'
  <2>1. members[r] \in Paid
    BY DEF RoomTypeOK
  <2>2. Without(members[r], u) \in Paid
    BY <2>1, PaidOperations
  <2>3. members' = [members EXCEPT ![r] = Without(members[r], u)]
    BY <1>3 DEF RemoveMember, RoomTypeOK
  <2>4. members' \in [RoomIds -> Paid]
    BY <2>2, <2>3 DEF RoomTypeOK
  <2> QED
    BY <1>3, <2>4 DEF RoomTypeOK, RemoveMember
<1>4. ASSUME NEW r \in RoomIds, NEW day \in BillingDays, UpdateRoom(r, day) PROVE RoomTypeOK'
  <2>1. room[r] \in RoomRows
    BY <1>4, RoomRowInType DEF UpdateRoom
  <2>2. [room[r] EXCEPT !.billing = day] \in RoomRows
    BY <2>1 DEF RoomRows
  <2>3. room' = [room EXCEPT ![r] = [room[r] EXCEPT !.billing = day]]
    BY <1>4 DEF UpdateRoom, RoomTypeOK
  <2>4. room' \in [RoomIds -> RoomRows \cup {NULL}]
    BY <2>2, <2>3 DEF RoomTypeOK
  <2> QED
    BY <1>4, <2>4 DEF RoomTypeOK, UpdateRoom
<1>5. ASSUME NEW r \in RoomIds, NEW x \in Services, AddService(r, x) \/ RemoveService(r, x)
      PROVE  RoomTypeOK'
  <2>1. services' \in [RoomIds -> SUBSET Services]
    BY <1>5 DEF AddService, RemoveService, RoomTypeOK
  <2> QED
    BY <1>5, <2>1 DEF RoomTypeOK, AddService, RemoveService
<1>6. ASSUME NEW r \in RoomIds, DeleteRoom(r) PROVE RoomTypeOK'
  <2>1. DeleteRooms({r})
    BY <1>6 DEF DeleteRoom
  <2>2. members' \in [RoomIds -> Paid]
    BY <1>0, <1>6 DEF DeleteRoom, RoomTypeOK
  <2>3. UNCHANGED <<now, request, gone, erasing, erasures, overlap, sent>>
    BY <1>6 DEF DeleteRoom
  <2> QED
    BY <2>1, <2>2, <2>3, DeletionInType DEF RoomTypeOK
<1>7. ASSUME NEW q \in Requests, NEW u \in Users, NEW r \in RoomIds, BeginJoin(q, u, r)
      PROVE  RoomTypeOK'
  <2>1. [kind |-> "join", room |-> r, user |-> u] \in Held
    BY DEF Held
  <2>2. request' \in [Requests -> Held \cup {NULL}]
    BY <1>7, <2>1 DEF BeginJoin, RoomTypeOK
  <2> QED
    BY <1>7, <2>2 DEF RoomTypeOK, BeginJoin
<1>8. ASSUME NEW q \in Requests, NEW r \in RoomIds, BeginRemind(q, r) PROVE RoomTypeOK'
  <2>1. room[r] \in RoomRows
    BY <1>8, RoomRowInType DEF BeginRemind
  <2>2. [kind |-> "remind", room |-> r, user |-> room[r].owner] \in Held
    BY <2>1 DEF Held, RoomRows
  <2>3. request' \in [Requests -> Held \cup {NULL}]
    BY <1>8, <2>2 DEF BeginRemind, RoomTypeOK
  <2> DEFINE b == sent[r].crossed \/ Reminding(Requests, r)
  <2>4. b \in BOOLEAN
    BY Zenon
  <2>5. sent' = [sent EXCEPT ![r].crossed = b]
    BY <1>8 DEF BeginRemind
  <2> HIDE DEF b
  <2>6. sent' \in [RoomIds -> Histories]
    BY <2>4, <2>5, CrossedInType
  <2>7. UNCHANGED <<now, room, removed, members, services, gone, erasing, erasures, overlap>>
    BY <1>8 DEF BeginRemind
  <2> QED
    BY <2>3, <2>6, <2>7 DEF RoomTypeOK
<1>9. ASSUME NEW q \in Requests, FinishJoin(q) PROVE RoomTypeOK'
  <2> DEFINE r == request[q].room
             u == request[q].user
  <2>1. request[q] \in Held
    BY <1>9 DEF FinishJoin, RoomTypeOK
  <2>2. r \in RoomIds /\ u \in Users
    BY <2>1 DEF Held
  <2>3. members' = IF RoomReferenced(r) THEN [members EXCEPT ![r] = Joined(members[r], u)]
                   ELSE members
    BY <1>9, <2>2 DEF FinishJoin, RoomTypeOK
  <2> HIDE DEF r, u
  <2>4. members[r] \in Paid
    BY <2>2 DEF RoomTypeOK
  <2>5. Joined(members[r], u) \in Paid
    BY <2>2, <2>4, PaidOperations
  <2>6. members' \in [RoomIds -> Paid]
    BY <2>3, <2>5 DEF RoomTypeOK
  <2>7. request' \in [Requests -> Held \cup {NULL}]
    BY <1>9 DEF FinishJoin, RoomTypeOK
  <2> QED
    BY <1>9, <2>6, <2>7 DEF RoomTypeOK, FinishJoin
<1>10. ASSUME NEW q \in Requests, SendReminders(q) PROVE RoomTypeOK'
  <2> DEFINE r == request[q].room
             soon == sent[r].last # NULL /\ Elapsed(sent[r].last, now) < HoursPerDay
             early == sent[r].early \/ (soon /\ ~sent[r].crossed)
             entry == [sent[r] EXCEPT !.last = now, !.early = early]
  <2>1. request[q] \in Held
    BY <1>10 DEF SendReminders, RoomTypeOK
  <2>2. r \in RoomIds /\ [request[q] EXCEPT !.kind = "reminded"] \in Held
    BY <2>1 DEF Held
  <2>3. request' \in [Requests -> Held \cup {NULL}]
    BY <1>10, <2>2 DEF SendReminders, RoomTypeOK
  <2>4. early \in BOOLEAN
    BY Zenon
  <2>5. now \in Moments /\ sent \in [RoomIds -> Histories]
    BY DEF RoomTypeOK
  <2>6. sent' = [sent EXCEPT ![r] = entry] \/ sent' = sent
    BY <1>10, <2>2, <2>5 DEF SendReminders
  <2> HIDE DEF r, early
  <2>7. entry \in Histories
    BY <2>2, <2>4, <2>5 DEF Histories
  <2> HIDE DEF entry
  <2>8. sent' \in [RoomIds -> Histories]
    BY <2>2, <2>5, <2>6, <2>7
  <2>9. UNCHANGED <<now, room, removed, members, services, gone, erasing, erasures, overlap>>
    BY <1>10 DEF SendReminders
  <2> QED
    BY <2>3, <2>8, <2>9 DEF RoomTypeOK
<1>11. ASSUME NEW q \in Requests, FinishRemind(q) PROVE RoomTypeOK'
  <2> DEFINE r == request[q].room
  <2>1. request[q] \in Held
    BY <1>11 DEF FinishRemind, RoomTypeOK
  <2>2. r \in RoomIds
    BY <2>1 DEF Held
  <2>3. now \in Moments
    BY DEF RoomTypeOK
  <2>4. Live(r) => [room[r] EXCEPT !.reminded = now] \in RoomRows
    BY <2>2, <2>3, RoomRowInType DEF RoomRows
  <2>5. room' = IF Live(r) THEN [room EXCEPT ![r] = [room[r] EXCEPT !.reminded = now]] ELSE room
    BY <1>11, <2>2 DEF FinishRemind, RoomTypeOK
  <2> DEFINE b == sent[r].crossed /\ Reminding(Requests \ {q}, r)
  <2>6. b \in BOOLEAN
    BY Zenon
  <2>7. sent' = [sent EXCEPT ![r].crossed = b]
    BY <1>11 DEF FinishRemind
  <2> HIDE DEF r, b
  <2>8. room' \in [RoomIds -> RoomRows \cup {NULL}]
    BY <2>2, <2>4, <2>5 DEF RoomTypeOK
  <2>9. sent' \in [RoomIds -> Histories]
    BY <2>2, <2>6, <2>7, CrossedInType
  <2>10. request' \in [Requests -> Held \cup {NULL}]
    BY <1>11 DEF FinishRemind, RoomTypeOK
  <2>11. UNCHANGED <<now, removed, members, services, gone, erasing, erasures, overlap>>
    BY <1>11 DEF FinishRemind
  <2> QED
    BY <2>8, <2>9, <2>10, <2>11 DEF RoomTypeOK
<1>12. ASSUME NEW q \in Requests, Abandon(q) PROVE RoomTypeOK'
  <2>1. request[q] \in Held
    BY <1>12 DEF Abandon, RoomTypeOK
  <2>2. request[q].room \in RoomIds
    BY <2>1 DEF Held
  <2>3. sent' \in [RoomIds -> Histories]
    BY <1>12, <2>2, CrossedInType DEF Abandon, RoomTypeOK
  <2>4. request' \in [Requests -> Held \cup {NULL}]
    BY <1>12 DEF Abandon, RoomTypeOK
  <2>5. UNCHANGED <<now, room, removed, members, services, gone, erasing, erasures, overlap>>
    BY <1>12 DEF Abandon
  <2> QED
    BY <2>3, <2>4, <2>5 DEF RoomTypeOK
<1>13. ASSUME NEW u \in Users, BeginErase(u) PROVE RoomTypeOK'
  <2>1. Owned(u) \in SUBSET RoomIds
    BY DEF Owned
  <2>2. erasing' \in [Users -> (SUBSET RoomIds) \cup {NULL}]
    BY <1>13, <2>1 DEF BeginErase, RoomTypeOK
  <2> QED
    BY <1>13, <2>2 DEF BeginErase, RoomTypeOK
<1>14. ASSUME NEW u \in Users, FinishErase(u) PROVE RoomTypeOK'
  <2>1. erasing[u] \in SUBSET RoomIds /\ DeleteRooms(erasing[u])
    BY <1>14 DEF FinishErase, RoomTypeOK
  <2>2. \A r \in RoomIds : Without(members[r], u) \in Paid
    BY PaidOperations DEF RoomTypeOK
  <2>3. members' \in [RoomIds -> Paid]
    BY <1>0, <1>14, <2>2 DEF FinishErase
  <2>4. erasing' \in [Users -> (SUBSET RoomIds) \cup {NULL}] /\ gone' \subseteq Users
    BY <1>14 DEF FinishErase, RoomTypeOK
  <2>5. UNCHANGED <<now, request, erasures, overlap, sent>>
    BY <1>14 DEF FinishErase
  <2> QED
    BY <2>1, <2>3, <2>4, <2>5, DeletionInType DEF RoomTypeOK
<1>15. ASSUME NEW u \in Users, AbortErase(u) \/ Revive(u) PROVE RoomTypeOK'
  BY <1>15 DEF AbortErase, Revive, RoomTypeOK
<1> QED
  BY <1>1, <1>2, <1>3, <1>4, <1>5, <1>6, <1>7, <1>8, <1>9, <1>10, <1>11, <1>12, <1>13,
     <1>14, <1>15 DEF RoomStep, MarkPaid, MarkUnpaid

\* No rooms yet: the types hold at the start.
LEMMA RoomInitType == RoomInit => RoomTypeOK
<1> SUFFICES ASSUME RoomInit PROVE RoomTypeOK
  OBVIOUS
<1>1. NoMembers \in Paid
  <2>1. NoMembers \in [{} -> BOOLEAN]
    BY DEF NoMembers
  <2> QED
    BY <2>1, PaidMaps
<1>2. members \in [RoomIds -> Paid]
  BY <1>1 DEF RoomInit
<1>3. now \in Moments
  <2>1. 0 \in Days /\ 0 \in 0 .. HoursPerDay - 1
    BY DaysAreNumbers, RoomAssumption DEF Days
  <2> QED
    BY <2>1 DEF RoomInit, Moments
<1>4. sent \in [RoomIds -> Histories]
  <2>1. [last |-> NULL, early |-> FALSE, crossed |-> FALSE] \in Histories
    BY DEF Histories
  <2> QED
    BY <2>1 DEF RoomInit
<1> QED
  BY <1>2, <1>3, <1>4 DEF RoomInit, RoomTypeOK

\* The passing of an hour keeps the types of the rooms.
LEMMA NextHourType ==
  ASSUME RoomTypeOK, NextHour
  PROVE  RoomTypeOK'
  BY MomentsInType DEF NextHour, RoomTypeOK, tableVars, accountVars

\* The type invariant of Rooms, for any number of rooms, users and requests.
THEOREM RoomsTypeCorrect == RoomSpec => []RoomTypeOK
<1>1. RoomTypeOK /\ [RoomNext]_roomVars => RoomTypeOK'
  <2>1. RoomTypeOK /\ RoomNext => RoomTypeOK'
    BY RoomStepType, NextHourType DEF RoomNext
  <2>2. RoomTypeOK /\ UNCHANGED roomVars => RoomTypeOK'
    BY DEF RoomTypeOK, roomVars, tableVars, accountVars
  <2> QED
    BY <2>1, <2>2
<1> QED
  BY RoomInitType, <1>1, PTL DEF RoomSpec

(***************************************************************************)
(* What is left of deleted rooms and accounts.                             *)
(***************************************************************************)
\* A running account deletion has listed every room of the account but those
\* created since.
Listed ==
  \A u \in Users, r \in RoomIds :
    erasing[u] # NULL /\ Live(r) /\ room[r].owner = u => r \in erasing[u] \/ r \in overlap

MembersInv == RoomTypeOK /\ NoOrphans /\ OwnerIsMember /\ Listed

\* A step that leaves the rooms' owners, and no fewer members, alone.
LEMMA MembersKept ==
  ASSUME MembersInv, RoomTypeOK',
         \A r \in RoomIds : room'[r] = NULL <=> room[r] = NULL,
         \A r \in RoomIds : Live(r) => room'[r].owner = room[r].owner,
         \A r \in RoomIds : ~Live(r) => DOMAIN members'[r] = {} /\ services'[r] = {},
         \A r \in RoomIds : Live(r) /\ room[r].owner \in DOMAIN members[r]
                             => room[r].owner \in DOMAIN members'[r],
         \A u \in Users : erasing'[u] = erasing[u] \/ erasing'[u] = NULL,
         overlap' = overlap
  PROVE  MembersInv'
<1>1. NoOrphans'
  BY DEF NoOrphans, Live
<1>2. OwnerIsMember'
  BY DEF MembersInv, OwnerIsMember, Live
<1>3. Listed'
  BY DEF MembersInv, Listed, Live
<1> QED
  BY <1>1, <1>2, <1>3 DEF MembersInv

\* Every request and deletion keeps MembersInv.
LEMMA MembersStep ==
  ASSUME MembersInv, RoomStep
  PROVE  MembersInv'
<1> USE DEF accountVars, tableVars
<1>0. RoomTypeOK /\ RoomTypeOK'
  BY RoomStepType DEF MembersInv
<1> DEFINE
      SameRooms ==
        \A r \in RoomIds : (room'[r] = NULL <=> room[r] = NULL)
                         /\ (Live(r) => room'[r].owner = room[r].owner)
      SameServices == \A r \in RoomIds : ~Live(r) => services'[r] = {}
      SameMembers ==
        \A r \in RoomIds :
          /\ ~Live(r) => DOMAIN members'[r] = {}
          /\ Live(r) /\ room[r].owner \in DOMAIN members[r] => room[r].owner \in DOMAIN members'[r]
      SameAccounts ==
        /\ \A u \in Users : erasing'[u] = erasing[u] \/ erasing'[u] = NULL
        /\ overlap' = overlap
<1>k. SameRooms /\ SameServices /\ SameMembers /\ SameAccounts => MembersInv'
  <2> SUFFICES ASSUME SameRooms, SameServices, SameMembers, SameAccounts PROVE MembersInv'
    OBVIOUS
  <2>1. \A r \in RoomIds : ~Live(r) => DOMAIN members'[r] = {} /\ services'[r] = {}
    OBVIOUS
  <2>2. RoomTypeOK'
    BY <1>0
  <2> QED
    BY <2>1, <2>2, MembersKept
<1>r. room' = room => SameRooms
  OBVIOUS
<1>s. services' = services => SameServices
  BY DEF MembersInv, NoOrphans
<1>m. members' = members => SameMembers
  BY DEF MembersInv, NoOrphans
<1>a. erasing' = erasing /\ overlap' = overlap => SameAccounts
  OBVIOUS
<1> HIDE DEF SameRooms, SameServices, SameMembers, SameAccounts
<1>1. ASSUME NEW u \in Users, NEW r \in RoomIds, Create(u, r) PROVE MembersInv'
  <2> DEFINE row == [owner |-> u, billing |-> Date[now.day].day,
                     reminded |-> NULL, resetAt |-> NULL, billReminded |-> NULL]
  <2>1. /\ room[r] = NULL /\ room' = [room EXCEPT ![r] = row]
        /\ members' = [members EXCEPT ![r] = [v \in {u} |-> TRUE]]
        /\ overlap' = IF erasing[u] # NULL THEN overlap \cup {r} ELSE overlap
        /\ UNCHANGED <<services, erasing>>
    BY <1>1 DEF Create
  <2>2. room'[r] = row /\ \A q \in RoomIds \ {r} : room'[q] = room[q]
    BY <1>0, <2>1 DEF RoomTypeOK
  <2>3. row.owner = u
    OBVIOUS
  <2> HIDE DEF row
  <2>4. room'[r] # NULL
    <3>1. row \in RoomRows
      <4>1. Date[now.day].day \in BillingDays
        <5>1. now.day \in Days
          BY <1>0 DEF RoomTypeOK, Moments
        <5> QED
          BY <5>1, RoomAssumption DEF Days
      <4> QED
        BY <4>1 DEF RoomRows, row
    <3> QED
      BY <2>2, <3>1, RowAssumption
  <2>5. DOMAIN members'[r] = {u} /\ \A q \in RoomIds \ {r} : members'[q] = members[q]
    BY <1>0, <2>1 DEF RoomTypeOK
  <2>6. NoOrphans'
    BY <2>1, <2>2, <2>4, <2>5 DEF MembersInv, NoOrphans, Live
  <2>7. OwnerIsMember'
    BY <2>1, <2>2, <2>3, <2>5 DEF MembersInv, OwnerIsMember, Live
  <2>8. Listed'
    BY <2>1, <2>2, <2>3 DEF MembersInv, Listed, Live
  <2> QED
    BY <1>0, <2>6, <2>7, <2>8 DEF MembersInv
<1>2. ASSUME NEW r \in RoomIds, NEW u \in Users, NEW paid \in BOOLEAN, MarkMember(r, u, paid)
      PROVE  MembersInv'
  <2>1. \A q \in RoomIds : DOMAIN members'[q] = DOMAIN members[q]
    BY <1>0, <1>2 DEF MarkMember, RoomTypeOK
  <2>2. SameMembers
    BY <2>1 DEF SameMembers, MembersInv, NoOrphans
  <2>3. UNCHANGED <<room, services, erasing, overlap>>
    BY <1>2 DEF MarkMember
  <2> QED
    BY <2>2, <2>3, <1>k, <1>r, <1>s, <1>a
<1>3. ASSUME NEW r \in RoomIds, NEW u \in Users, RemoveMember(r, u) PROVE MembersInv'
  <2>1. u # room[r].owner
    BY <1>3 DEF RemoveMember, MayRemove
  <2>2. members' = [members EXCEPT ![r] = Without(members[r], u)]
    BY <1>0, <1>3 DEF RemoveMember, RoomTypeOK
  <2>3. /\ DOMAIN members'[r] = DOMAIN members[r] \ {u}
        /\ \A q \in RoomIds \ {r} : members'[q] = members[q]
    BY <1>0, <2>2 DEF RoomTypeOK, Without
  <2>4. SameMembers
    BY <2>1, <2>3 DEF SameMembers, MembersInv, NoOrphans
  <2>5. UNCHANGED <<room, services, erasing, overlap>>
    BY <1>3 DEF RemoveMember
  <2> QED
    BY <2>4, <2>5, <1>k, <1>r, <1>s, <1>a
<1>4. ASSUME NEW r \in RoomIds, NEW day \in BillingDays, UpdateRoom(r, day) PROVE MembersInv'
  <2>1. room[r] \in RoomRows
    BY <1>0, <1>4, RoomRowInType DEF UpdateRoom
  <2> DEFINE row == [room[r] EXCEPT !.billing = day]
  <2>2. row \in RoomRows /\ row.owner = room[r].owner
    BY <2>1 DEF RoomRows
  <2>3. room' = [room EXCEPT ![r] = row]
    BY <1>0, <1>4 DEF UpdateRoom, RoomTypeOK
  <2> HIDE DEF row
  <2>4. SameRooms
    BY <1>0, <2>1, <2>2, <2>3, RowAssumption DEF SameRooms, RoomTypeOK
  <2>5. UNCHANGED <<members, services, erasing, overlap>>
    BY <1>4 DEF UpdateRoom
  <2> QED
    BY <2>4, <2>5, <1>k, <1>s, <1>m, <1>a
<1>5. ASSUME NEW r \in RoomIds, NEW x \in Services, AddService(r, x) \/ RemoveService(r, x)
      PROVE  MembersInv'
  <2>1. SameServices
    BY <1>0, <1>5 DEF AddService, RemoveService, SameServices, MembersInv, NoOrphans, RoomTypeOK
  <2>2. UNCHANGED <<room, members, erasing, overlap>>
    BY <1>5 DEF AddService, RemoveService
  <2> QED
    BY <2>1, <2>2, <1>k, <1>r, <1>m, <1>a
<1>6. ASSUME NEW r \in RoomIds, DeleteRoom(r) PROVE MembersInv'
  <2>1. /\ \A q \in RoomIds : room'[q] = IF q = r THEN NULL ELSE room[q]
        /\ \A q \in RoomIds : services'[q] = IF q = r THEN {} ELSE services[q]
    BY <1>6 DEF DeleteRoom, DeleteRooms
  <2>2. DOMAIN members'[r] = {} /\ \A q \in RoomIds \ {r} : members'[q] = members[q]
    BY <1>0, <1>6 DEF DeleteRoom, RoomTypeOK, NoMembers
  <2>3. UNCHANGED <<erasing, overlap>>
    BY <1>6 DEF DeleteRoom
  <2>4. NoOrphans'
    BY <2>1, <2>2 DEF MembersInv, NoOrphans, Live
  <2>5. OwnerIsMember'
    BY <2>1, <2>2, <2>3 DEF MembersInv, OwnerIsMember, Live
  <2>6. Listed'
    BY <2>1, <2>3 DEF MembersInv, Listed, Live
  <2> QED
    BY <1>0, <2>4, <2>5, <2>6 DEF MembersInv
<1>7. UNCHANGED <<room, members, services, erasing, overlap>> => MembersInv'
  BY <1>k, <1>r, <1>s, <1>m, <1>a
<1>13. ASSUME NEW q \in Requests, NEW u \in Users, NEW r \in RoomIds, BeginJoin(q, u, r)
       PROVE  MembersInv'
  BY <1>7, <1>13 DEF BeginJoin
<1>14. ASSUME NEW q \in Requests, NEW r \in RoomIds, BeginRemind(q, r) PROVE MembersInv'
  BY <1>7, <1>14 DEF BeginRemind
<1>15. ASSUME NEW q \in Requests, SendReminders(q) \/ Abandon(q) PROVE MembersInv'
  BY <1>7, <1>15 DEF SendReminders, Abandon
<1>8. ASSUME NEW q \in Requests, FinishJoin(q) PROVE MembersInv'
  <2> DEFINE r == request[q].room
             u == request[q].user
  <2>1. request[q] \in Held
    BY <1>0, <1>8 DEF FinishJoin, RoomTypeOK
  <2>2. r \in RoomIds
    BY <2>1 DEF Held
  <2>3. members' = IF Live(r) THEN [members EXCEPT ![r] = Joined(members[r], u)] ELSE members
    BY <1>0, <1>8, <2>2 DEF FinishJoin, RoomTypeOK, RoomReferenced
  <2> HIDE DEF r, u
  <2>4. \A p \in RoomIds : /\ DOMAIN members[p] \subseteq DOMAIN members'[p]
                           /\ ~Live(p) => members'[p] = members[p]
    BY <1>0, <2>2, <2>3 DEF RoomTypeOK, Joined
  <2>5. SameMembers
    BY <2>4 DEF SameMembers, MembersInv, NoOrphans
  <2>6. UNCHANGED <<room, services, erasing, overlap>>
    BY <1>8 DEF FinishJoin
  <2> QED
    BY <2>5, <2>6, <1>k, <1>r, <1>s, <1>a
<1>9. ASSUME NEW q \in Requests, FinishRemind(q) PROVE MembersInv'
  <2> DEFINE r == request[q].room
             row == [room[r] EXCEPT !.reminded = now]
  <2>1. request[q] \in Held
    BY <1>0, <1>9 DEF FinishRemind, RoomTypeOK
  <2>2. r \in RoomIds
    BY <2>1 DEF Held
  <2>3. now \in Moments
    BY <1>0 DEF RoomTypeOK
  <2>4. Live(r) => room[r] \in RoomRows
    BY <1>0, <2>2, RoomRowInType
  <2>5. Live(r) => row \in RoomRows /\ row.owner = room[r].owner
    BY <2>3, <2>4 DEF RoomRows
  <2>6. room' = IF Live(r) THEN [room EXCEPT ![r] = row] ELSE room
    BY <1>0, <1>9, <2>2 DEF FinishRemind, RoomTypeOK
  <2> HIDE DEF r, row
  <2>7. SameRooms
    BY <1>0, <2>2, <2>4, <2>5, <2>6, RowAssumption DEF SameRooms, RoomTypeOK, Live
  <2>8. UNCHANGED <<members, services, erasing, overlap>>
    BY <1>9 DEF FinishRemind
  <2> QED
    BY <2>7, <2>8, <1>k, <1>s, <1>m, <1>a
<1>10. ASSUME NEW u \in Users, BeginErase(u) PROVE MembersInv'
  <2>1. UNCHANGED <<room, members, services, overlap>>
    BY <1>10 DEF BeginErase
  <2>2. /\ erasing'[u] = Owned(u)
        /\ \A v \in Users \ {u} : erasing'[v] = erasing[v]
    BY <1>0, <1>10 DEF BeginErase, RoomTypeOK
  <2>3. NoOrphans' /\ OwnerIsMember'
    BY <2>1 DEF MembersInv, NoOrphans, OwnerIsMember, Live
  <2>4. Listed'
    BY <2>1, <2>2 DEF MembersInv, Listed, Live, Owned
  <2> QED
    BY <1>0, <2>3, <2>4 DEF MembersInv
<1>11. ASSUME NEW u \in Users, FinishErase(u) PROVE MembersInv'
  <2> DEFINE R == erasing[u]
  <2>1. /\ erasing[u] # NULL
        /\ \A q \in RoomIds : room'[q] = IF q \in R THEN NULL ELSE room[q]
        /\ \A q \in RoomIds : services'[q] = IF q \in R THEN {} ELSE services[q]
    BY <1>11 DEF FinishErase, DeleteRooms
  <2>2. \A q \in RoomIds : DOMAIN members'[q] = IF q \in R THEN {} ELSE DOMAIN members[q] \ {u}
    BY <1>11 DEF FinishErase, NoMembers, Without
  <2>3. /\ overlap' = overlap
        /\ \A v \in Users : erasing'[v] = erasing[v] \/ erasing'[v] = NULL
    BY <1>0, <1>11 DEF FinishErase, RoomTypeOK
  <2> HIDE DEF R
  <2>4. NoOrphans'
    BY <2>1, <2>2 DEF MembersInv, NoOrphans, Live
  <2>5. OwnerIsMember'
    BY <2>1, <2>2, <2>3 DEF MembersInv, OwnerIsMember, Listed, Live, R
  <2>6. Listed'
    BY <2>1, <2>3 DEF MembersInv, Listed, Live
  <2> QED
    BY <1>0, <2>4, <2>5, <2>6 DEF MembersInv
<1>12. ASSUME NEW u \in Users, AbortErase(u) \/ Revive(u) PROVE MembersInv'
  <2>1. UNCHANGED <<room, members, services, overlap>>
    BY <1>12 DEF AbortErase, Revive
  <2>2. SameAccounts
    BY <1>0, <1>12 DEF AbortErase, Revive, SameAccounts, RoomTypeOK
  <2> QED
    BY <2>1, <2>2, <1>k, <1>r, <1>s, <1>m
<1> QED
  BY <1>1, <1>2, <1>3, <1>4, <1>5, <1>6, <1>8, <1>9, <1>10, <1>11, <1>12, <1>13,
     <1>14, <1>15 DEF RoomStep, MarkPaid, MarkUnpaid

\* So do the start, the passing of an hour and a stutter.
LEMMA MembersAtStart == RoomInit => MembersInv
  BY RoomInitType DEF RoomInit, MembersInv, NoOrphans, OwnerIsMember, Listed, Live, NoMembers

\* No row moves as the hour passes.
LEMMA MembersHour ==
  ASSUME MembersInv, NextHour
  PROVE  MembersInv'
  BY NextHourType
     DEF NextHour, MembersInv, NoOrphans, OwnerIsMember, Listed, Live, tableVars, accountVars

\* Nor in a step that leaves the rooms alone.
LEMMA MembersIdle ==
  ASSUME MembersInv, UNCHANGED roomVars
  PROVE  MembersInv'
  BY DEF MembersInv, RoomTypeOK, NoOrphans, OwnerIsMember, Listed, Live,
         roomVars, tableVars, accountVars

\* The inductive invariant behind the two theorems below.
THEOREM MembersInvariant == RoomSpec => []MembersInv
<1>1. MembersInv /\ [RoomNext]_roomVars => MembersInv'
  BY MembersStep, MembersHour, MembersIdle DEF RoomNext
<1> QED
  BY MembersAtStart, <1>1, PTL DEF RoomSpec

\* No member or service row outlives its room, for any number of rooms and of
\* overlapping requests.
THEOREM NothingOutlivesItsRoom == RoomSpec => []NoOrphans
<1>1. MembersInv => NoOrphans
  BY DEF MembersInv
<1> QED
  BY <1>1, MembersInvariant, PTL

\* Kicks, joins and account deletions never take the owner out of a live room,
\* unless it was created while its owner was being deleted.
THEOREM OwnerStaysMember == RoomSpec => []OwnerIsMember
<1>1. MembersInv => OwnerIsMember
  BY DEF MembersInv
<1> QED
  BY <1>1, MembersInvariant, PTL

\* A join adds its caller and leaves the marks of the others as they are.
MarksStay ==
  \A q \in Requests, r \in RoomIds :
    FinishJoin(q) => \A u \in DOMAIN members[r] :
                       u \in DOMAIN members'[r] /\ members'[r][u] = members[r][u]

\* The INSERT of a join does nothing else.
LEMMA JoinLeavesMarks == RoomTypeOK => MarksStay
<1> SUFFICES ASSUME RoomTypeOK, NEW q \in Requests, FinishJoin(q), NEW r \in RoomIds
             PROVE  \A u \in DOMAIN members[r] :
                      u \in DOMAIN members'[r] /\ members'[r][u] = members[r][u]
  BY DEF MarksStay
<1> DEFINE p == request[q].room
           v == request[q].user
<1>1. request[q] \in Held
  BY DEF FinishJoin, RoomTypeOK
<1>2. p \in RoomIds
  BY <1>1 DEF Held
<1>3. members' = IF RoomReferenced(p) THEN [members EXCEPT ![p] = Joined(members[p], v)]
                 ELSE members
  BY <1>2 DEF FinishJoin, RoomTypeOK
<1> HIDE DEF p, v
<1>4. members'[r] = members[r] \/ members'[r] = Joined(members[r], v)
  BY <1>2, <1>3 DEF RoomTypeOK
<1>5. \A u \in DOMAIN members[r] : /\ u \in DOMAIN Joined(members[r], v)
                                   /\ Joined(members[r], v)[u] = members[r][u]
  BY DEF Joined
<1> QED
  BY <1>4, <1>5

\* room.go: a repeated or concurrent Join is "a silent no-op": whatever was marked
\* while it was in flight, the join that ends leaves every mark as it is.
THEOREM JoinsKeepPaidMarks == RoomSpec => JoinKeepsPaidMarks
<1>1. RoomTypeOK /\ [RoomNext]_roomVars => [MarksStay]_roomVars
  BY JoinLeavesMarks
<1> QED
  BY <1>1, RoomsTypeCorrect, PTL DEF RoomSpec, JoinKeepsPaidMarks, MarksStay

(***************************************************************************)
(* The cooldown of the owner's reminders.                                  *)
(***************************************************************************)
\* A new room has no stamps.  Afterwards no request writes those of the workers,
\* a reminder that ends writes the owner's, and a room that goes never comes back.
KeepsStamps(r) ==
  /\ room'[r] # NULL /\ Live(r) =>
       /\ room'[r].resetAt = room[r].resetAt
       /\ room'[r].billReminded = room[r].billReminded
       /\ \/ room'[r].reminded = room[r].reminded
          \/ \E q \in Requests : FinishRemind(q) /\ request[q].room = r
  /\ room'[r] # NULL /\ ~Live(r) =>
       /\ r \notin removed
       /\ room'[r].resetAt = NULL /\ room'[r].billReminded = NULL /\ room'[r].reminded = NULL
  /\ room'[r] = NULL /\ r \notin removed' => ~Live(r) /\ r \notin removed

\* The handlers leave the workers' stamps alone, but for rows they create or delete.
LEMMA RequestsKeepStamps ==
  ASSUME RoomTypeOK, RoomStep
  PROVE  now' = now /\ \A r \in RoomIds : KeepsStamps(r)
<1> USE DEF accountVars, tableVars
<1> DEFINE Kept == \A r \in RoomIds : KeepsStamps(r)
<1>0. room' = room /\ removed' = removed => Kept
  BY DEF Live, KeepsStamps
<1> HIDE DEF Kept
<1>1. ASSUME NEW u \in Users, NEW r \in RoomIds, Create(u, r) PROVE Kept /\ now' = now
  <2> DEFINE row == [owner |-> u, billing |-> Date[now.day].day,
                     reminded |-> NULL, resetAt |-> NULL, billReminded |-> NULL]
  <2>1. /\ room[r] = NULL /\ r \notin removed /\ room' = [room EXCEPT ![r] = row]
        /\ now' = now /\ removed' = removed
    BY <1>1 DEF Create
  <2>2. row.resetAt = NULL /\ row.billReminded = NULL /\ row.reminded = NULL
    OBVIOUS
  <2>3. row # NULL
    <3>1. now.day \in Days
      BY DEF RoomTypeOK, Moments
    <3>2. Date[now.day].day \in BillingDays
      BY <3>1, RoomAssumption DEF Days
    <3>3. row \in RoomRows
      BY <3>2 DEF RoomRows
    <3> QED
      BY <3>3, RowAssumption
  <2> HIDE DEF row
  <2>4. room'[r] = row /\ \A q \in RoomIds \ {r} : room'[q] = room[q]
    BY <2>1 DEF RoomTypeOK
  <2> QED
    BY <2>1, <2>2, <2>3, <2>4 DEF Kept, KeepsStamps, Live
<1>2. ASSUME NEW r \in RoomIds, NEW day \in BillingDays, UpdateRoom(r, day)
      PROVE  Kept /\ now' = now
  <2> DEFINE row == [room[r] EXCEPT !.billing = day]
  <2>1. room[r] \in RoomRows
    BY <1>2, RoomRowInType DEF UpdateRoom
  <2>2. /\ row.resetAt = room[r].resetAt /\ row.billReminded = room[r].billReminded
        /\ row.reminded = room[r].reminded
        /\ row # NULL
    <3>1. row \in RoomRows
      BY <2>1 DEF RoomRows
    <3> QED
      BY <2>1, <3>1, RowAssumption DEF RoomRows
  <2>3. Live(r) /\ room' = [room EXCEPT ![r] = row] /\ now' = now /\ removed' = removed
    BY <1>2 DEF UpdateRoom, RoomTypeOK
  <2> HIDE DEF row
  <2>4. room'[r] = row /\ \A q \in RoomIds \ {r} : room'[q] = room[q]
    BY <2>3 DEF RoomTypeOK
  <2> QED
    BY <2>2, <2>3, <2>4 DEF Kept, KeepsStamps, Live
<1>3. ASSUME NEW q \in Requests, FinishRemind(q) PROVE Kept /\ now' = now
  <2> DEFINE r == request[q].room
             row == [room[r] EXCEPT !.reminded = now]
  <2>1. request[q] \in Held /\ now \in Moments
    BY <1>3 DEF FinishRemind, RoomTypeOK
  <2>2. r \in RoomIds /\ r = request[q].room
    BY <2>1 DEF Held
  <2>3. Live(r) => room[r] \in RoomRows
    BY <2>2, RoomRowInType
  <2>4. Live(r) => /\ row.resetAt = room[r].resetAt /\ row.billReminded = room[r].billReminded
                   /\ row # NULL
    <3>1. Live(r) => row \in RoomRows
      BY <2>1, <2>3 DEF RoomRows
    <3> QED
      BY <2>3, <3>1, RowAssumption DEF RoomRows
  <2>5. /\ room' = (IF Live(r) THEN [room EXCEPT ![r] = row] ELSE room)
        /\ now' = now /\ removed' = removed
    BY <1>3, <2>2 DEF FinishRemind, RoomTypeOK
  <2> HIDE DEF r, row
  <2>6. /\ room'[r] = IF Live(r) THEN row ELSE room[r]
        /\ \A p \in RoomIds \ {r} : room'[p] = room[p]
    BY <2>2, <2>5 DEF RoomTypeOK
  <2> QED
    BY <1>3, <2>2, <2>4, <2>5, <2>6 DEF Kept, KeepsStamps, Live
<1>4. ASSUME NEW R, DeleteRooms(R) PROVE Kept
  BY <1>4 DEF DeleteRooms, Kept, KeepsStamps, Live
<1>5. ASSUME NEW r \in RoomIds, DeleteRoom(r) PROVE Kept /\ now' = now
  BY <1>4, <1>5 DEF DeleteRoom
<1>6. ASSUME NEW u \in Users, FinishErase(u) PROVE Kept /\ now' = now
  BY <1>4, <1>6 DEF FinishErase
<1>7. ASSUME NEW r \in RoomIds, NEW u \in Users,
             MarkPaid(r, u) \/ MarkUnpaid(r, u) \/ RemoveMember(r, u)
      PROVE  Kept /\ now' = now
  BY <1>0, <1>7 DEF MarkPaid, MarkUnpaid, MarkMember, RemoveMember
<1>8. ASSUME NEW r \in RoomIds, NEW x \in Services, AddService(r, x) \/ RemoveService(r, x)
      PROVE  Kept /\ now' = now
  BY <1>0, <1>8 DEF AddService, RemoveService
<1>9. ASSUME NEW q \in Requests, NEW u \in Users, NEW r \in RoomIds, BeginJoin(q, u, r)
      PROVE  Kept /\ now' = now
  BY <1>0, <1>9 DEF BeginJoin
<1>10. ASSUME NEW q \in Requests, NEW r \in RoomIds, BeginRemind(q, r) PROVE Kept /\ now' = now
  BY <1>0, <1>10 DEF BeginRemind
<1>11. ASSUME NEW q \in Requests, FinishJoin(q) \/ SendReminders(q) \/ Abandon(q)
       PROVE  Kept /\ now' = now
  BY <1>0, <1>11 DEF FinishJoin, SendReminders, Abandon
<1>12. ASSUME NEW u \in Users, BeginErase(u) \/ AbortErase(u) \/ Revive(u)
       PROVE  Kept /\ now' = now
  BY <1>0, <1>12 DEF BeginErase, AbortErase, Revive
<1>13. Kept /\ now' = now
  BY <1>1, <1>2, <1>3, <1>5, <1>6, <1>7, <1>8, <1>9, <1>10, <1>11, <1>12 DEF RoomStep
<1> QED
  BY <1>13 DEF Kept

\* The types of the rooms depend on the variables of the rooms only.
LEMMA RoomTypeKept ==
  ASSUME RoomTypeOK, UNCHANGED roomVars
  PROVE  RoomTypeOK'
  BY DEF RoomTypeOK, roomVars, tableVars, accountVars

\* A reminder of r's members in flight, and whether its messages are still to go out.
Rem(q, r) == request[q] # NULL /\ request[q].kind # "join" /\ request[q].room = r
Unsent(q) == request[q].kind = "remind"

Untold(r) ==
  room[r] = NULL /\ r \notin removed => sent[r].last = NULL /\ \A q \in Requests : ~Rem(q, r)

LastPassed(r) == sent[r].last # NULL => Elapsed(sent[r].last, now) >= 0

\* While no two reminders of r have overlapped and no stamp was lost: at most one
\* is in flight, it began a day after the last messages, and those are stamped
\* unless their own reminder is still to do it.
Alone(r) == \A p, q \in Requests : Rem(p, r) /\ Rem(q, r) => p = q
Waited(r) ==
  \A q \in Requests :
    Rem(q, r) /\ Unsent(q) /\ sent[r].last # NULL => Elapsed(sent[r].last, now) >= HoursPerDay
Stamped(r) ==
  Live(r) /\ sent[r].last # NULL /\ (\A q \in Requests : Rem(q, r) => Unsent(q))
  => room[r].reminded # NULL /\ Elapsed(sent[r].last, room[r].reminded) >= 0

InOrder(r) == ~sent[r].crossed => Alone(r) /\ Waited(r) /\ Stamped(r)
CoolRoom(r) == Untold(r) /\ LastPassed(r) /\ ~sent[r].early /\ InOrder(r)

CoolInv == RoomTypeOK /\ \A r \in RoomIds : CoolRoom(r)

\* A step that leaves the reminders of r, their history and r's stamp alone.
LEMMA CoolKept ==
  ASSUME RoomTypeOK, NEW r \in RoomIds, CoolRoom(r),
         now' = now, sent'[r] = sent[r],
         \A q \in Requests : Rem(q, r)' <=> Rem(q, r),
         \A q \in Requests : Rem(q, r) => request'[q].kind = request[q].kind,
         KeepsStamps(r),
         Live(r) /\ room'[r] # NULL => room'[r].reminded = room[r].reminded
  PROVE  CoolRoom(r)'
<1>1. Untold(r)'
  BY DEF CoolRoom, Untold, KeepsStamps, Live
<1>2. LastPassed(r)' /\ ~(sent[r].early)'
  BY DEF CoolRoom, LastPassed, Elapsed
<1>3. ASSUME ~sent[r].crossed PROVE Alone(r)' /\ Waited(r)' /\ Stamped(r)'
  <2>1. Alone(r) /\ Waited(r) /\ Stamped(r)
    BY <1>3 DEF CoolRoom, InOrder
  <2>2. \A q \in Requests : Rem(q, r) => (Unsent(q)' <=> Unsent(q))
    BY DEF Unsent
  <2>3. Alone(r)'
    BY <2>1 DEF Alone
  <2>4. Waited(r)'
    BY <2>1, <2>2 DEF Waited, Elapsed
  <2>5. Stamped(r)'
    <3>1. CASE Live(r)
      BY <2>1, <2>2, <3>1 DEF Stamped, Live, Elapsed
    <3>2. CASE ~Live(r)
      BY <3>2 DEF Stamped, Live, KeepsStamps, CoolRoom, Untold
    <3> QED
      BY <3>1, <3>2
  <2> QED
    BY <2>3, <2>4, <2>5
<1>4. InOrder(r)'
  BY <1>3 DEF InOrder
<1> QED
  BY <1>1, <1>2, <1>4 DEF CoolRoom

\* Reminders in flight when one request is answered, or changes its phase.
LEMMA OthersInFlight ==
  ASSUME RoomTypeOK, NEW q \in Requests, NEW held, request' = [request EXCEPT ![q] = held]
  PROVE  /\ request'[q] = held
         /\ \A p \in Requests \ {q} : request'[p] = request[p]
         /\ \A p \in Requests \ {q}, r \in RoomIds : Rem(p, r)' <=> Rem(p, r)
<1>1. request'[q] = held /\ \A p \in Requests \ {q} : request'[p] = request[p]
  BY DEF RoomTypeOK
<1> QED
  BY <1>1 DEF Rem

\* Every request keeps CoolInv.
LEMMA CoolStep ==
  ASSUME CoolInv, RoomStep
  PROVE  CoolInv'
<1> USE DEF accountVars, tableVars
<1>0. RoomTypeOK /\ RoomTypeOK'
  BY RoomStepType DEF CoolInv
<1>k. now' = now /\ \A r \in RoomIds : KeepsStamps(r)
  BY <1>0, RequestsKeepStamps
<1>c. \A r \in RoomIds : CoolRoom(r)
  BY DEF CoolInv
<1>t. now \in Moments /\ \A r \in RoomIds : sent[r] \in Histories
  BY <1>0 DEF RoomTypeOK
<1>1. ASSUME UNCHANGED <<request, sent>> PROVE CoolInv'
  <2>1. \A r \in RoomIds, q \in Requests : Rem(q, r)' <=> Rem(q, r)
    BY <1>1 DEF Rem
  <2>2. \A q \in Requests : ~FinishRemind(q)
    BY <1>0, <1>1 DEF FinishRemind, RoomTypeOK
  <2>3. \A r \in RoomIds : Live(r) /\ room'[r] # NULL => room'[r].reminded = room[r].reminded
    BY <1>k, <2>2 DEF KeepsStamps
  <2>4. \A r \in RoomIds : CoolRoom(r)'
    BY <1>0, <1>k, <1>c, <1>1, <2>1, <2>3, CoolKept
  <2> QED
    BY <1>0, <2>4 DEF CoolInv
\* Another room than the one a request is about.
<1>2. ASSUME NEW q \in Requests, NEW held, request' = [request EXCEPT ![q] = held],
             NEW r \in RoomIds, sent'[r] = sent[r], ~Rem(q, r), ~Rem(q, r)',
             Live(r) /\ room'[r] # NULL => room'[r].reminded = room[r].reminded
      PROVE  CoolRoom(r)'
  <2>1. \A p \in Requests : Rem(p, r)' <=> Rem(p, r)
    BY <1>0, <1>2, OthersInFlight
  <2>2. \A p \in Requests : Rem(p, r) => request'[p].kind = request[p].kind
    BY <1>0, <1>2, OthersInFlight
  <2> QED
    BY <1>0, <1>k, <1>c, <1>2, <2>1, <2>2, CoolKept
<1>3. ASSUME NEW q \in Requests, NEW u \in Users, NEW r \in RoomIds, BeginJoin(q, u, r)
      PROVE  CoolInv'
  <2> DEFINE held == [kind |-> "join", room |-> r, user |-> u]
  <2>1. /\ request[q] = NULL /\ request' = [request EXCEPT ![q] = held]
        /\ UNCHANGED <<room, sent>>
    BY <1>3 DEF BeginJoin
  <2>2. held.kind = "join"
    OBVIOUS
  <2> HIDE DEF held
  <2>3. \A p \in RoomIds : ~Rem(q, p) /\ ~Rem(q, p)'
    BY <1>0, <2>1, <2>2, OthersInFlight DEF Rem
  <2>4. \A p \in RoomIds : CoolRoom(p)'
    BY <1>2, <2>1, <2>3
  <2> QED
    BY <1>0, <2>4 DEF CoolInv
<1>4. ASSUME NEW q \in Requests, FinishJoin(q) PROVE CoolInv'
  <2>1. /\ request[q].kind = "join" /\ request' = [request EXCEPT ![q] = NULL]
        /\ UNCHANGED <<room, sent>>
    BY <1>4 DEF FinishJoin
  <2>2. \A p \in RoomIds : ~Rem(q, p) /\ ~Rem(q, p)'
    BY <1>0, <2>1, OthersInFlight DEF Rem
  <2>3. \A p \in RoomIds : CoolRoom(p)'
    BY <1>2, <2>1, <2>2
  <2> QED
    BY <1>0, <2>3 DEF CoolInv
<1>5. ASSUME NEW q \in Requests, NEW r \in RoomIds, BeginRemind(q, r) PROVE CoolInv'
  <2> DEFINE held == [kind |-> "remind", room |-> r, user |-> room[r].owner]
             b == sent[r].crossed \/ Reminding(Requests, r)
  <2>1. /\ request[q] = NULL /\ request' = [request EXCEPT ![q] = held]
        /\ sent' = [sent EXCEPT ![r].crossed = b]
        /\ Live(r) /\ CooledDown(r) /\ room' = room
    BY <1>5 DEF BeginRemind
  <2>2. held.kind = "remind" /\ held.room = r
    OBVIOUS
  <2>3. b <=> sent[r].crossed \/ \E p \in Requests : Rem(p, r)
    BY DEF Reminding, Rem
  <2>4. b \in BOOLEAN
    BY Zenon
  <2> HIDE DEF held, b
  <2>5. /\ sent'[r].last = sent[r].last /\ sent'[r].early = sent[r].early /\ sent'[r].crossed = b
        /\ \A p \in RoomIds \ {r} : sent'[p] = sent[p]
    BY <1>0, <1>t, <2>1 DEF RoomTypeOK, Histories
  <2>6. \A p \in RoomIds \ {r} : CoolRoom(p)'
    <3>1. \A p \in RoomIds \ {r} : ~Rem(q, p) /\ ~Rem(q, p)'
      BY <1>0, <2>1, <2>2, OthersInFlight DEF Rem
    <3> QED
      BY <1>2, <2>1, <2>5, <3>1
  <2>7. CoolRoom(r)'
    <3>1. CoolRoom(r)
      BY <1>c
    <3>2. Untold(r)' /\ LastPassed(r)' /\ ~(sent[r].early)'
      BY <1>k, <2>1, <2>5, <3>1 DEF CoolRoom, Untold, LastPassed, Live, Elapsed
    <3>3. ASSUME ~b PROVE Alone(r)' /\ Waited(r)' /\ Stamped(r)'
      <4>1. \A p \in Requests : ~Rem(p, r)
        BY <2>3, <3>3
      <4>2. \A p \in Requests : Rem(p, r)' => p = q
        BY <1>0, <2>1, <4>1, OthersInFlight
      <4>3. request'[q].kind = "remind"
        BY <1>0, <2>1, <2>2, OthersInFlight
      <4>4. sent[r].last # NULL =>
              room[r].reminded # NULL /\ Elapsed(sent[r].last, room[r].reminded) >= 0
        BY <2>1, <2>3, <3>1, <3>3, <4>1 DEF CoolRoom, InOrder, Stamped
      <4>5. sent[r].last # NULL => Elapsed(sent[r].last, now) >= HoursPerDay
        <5> SUFFICES ASSUME sent[r].last # NULL
                     PROVE  Elapsed(sent[r].last, now) >= HoursPerDay
          OBVIOUS
        <5>1. sent[r].last \in Moments
          BY <1>t DEF Histories
        <5>2. room[r].reminded \in Moments
          BY <1>0, <2>1, <4>4, RoomRowInType DEF RoomRows
        <5>3. Elapsed(room[r].reminded, now) >= HoursPerDay
          BY <2>1, <4>4 DEF CooledDown
        <5>4. /\ Elapsed(sent[r].last, now)
                   = Elapsed(sent[r].last, room[r].reminded) + Elapsed(room[r].reminded, now)
              /\ Elapsed(sent[r].last, room[r].reminded) \in Int
              /\ Elapsed(room[r].reminded, now) \in Int
          BY <1>t, <5>1, <5>2, ElapsedAdds
        <5> QED
          BY <4>4, <5>3, <5>4, RoomAssumption
      <4>6. Alone(r)'
        BY <4>2 DEF Alone
      <4>7. Waited(r)'
        BY <1>k, <2>5, <4>5 DEF Waited, Elapsed
      <4>8. Stamped(r)'
        BY <2>1, <2>5, <4>4 DEF Stamped, Elapsed
      <4> QED
        BY <4>6, <4>7, <4>8
    <3> QED
      BY <2>5, <3>2, <3>3 DEF CoolRoom, InOrder
  <2> QED
    BY <1>0, <2>6, <2>7 DEF CoolInv
<1>6. ASSUME NEW q \in Requests, SendReminders(q) PROVE CoolInv'
  <2>1. request[q] \in Held /\ request[q].kind = "remind"
    BY <1>0, <1>6 DEF SendReminders, RoomTypeOK
  <2>a. PICK r \in RoomIds : r = request[q].room
    BY <2>1 DEF Held
  <2> DEFINE soon == sent[r].last # NULL /\ Elapsed(sent[r].last, now) < HoursPerDay
             early == sent[r].early \/ (soon /\ ~sent[r].crossed)
             entry == [sent[r] EXCEPT !.last = now, !.early = early]
             held == [request[q] EXCEPT !.kind = "reminded"]
  <2>2. held.kind = "reminded" /\ held.room = r /\ Rem(q, r) /\ \A p \in RoomIds \ {r} : ~Rem(q, p)
    BY <1>6, <2>1, <2>a DEF Held, SendReminders, Rem
  <2>3. request' = [request EXCEPT ![q] = held] /\ room' = room
    BY <1>0, <1>6 DEF SendReminders, RoomTypeOK
  <2>4. sent' = [sent EXCEPT ![r] = entry] \/ sent' = sent
    BY <1>0, <1>6, <2>a DEF SendReminders, RoomTypeOK
  <2>5. early <=> sent[r].early \/ (soon /\ ~sent[r].crossed)
    OBVIOUS
  <2>6. entry.last = now /\ entry.early = early /\ entry.crossed = sent[r].crossed
    BY <1>t, <2>2 DEF Histories
  <2>7. held # NULL
    BY <2>1, RowAssumption DEF Held
  <2> HIDE DEF early, entry, held
  <2>8. \A p \in RoomIds \ {r} : sent'[p] = sent[p] /\ CoolRoom(p)'
    <3>1. \A p \in RoomIds \ {r} : sent'[p] = sent[p]
      BY <1>0, <2>4 DEF RoomTypeOK
    <3>2. \A p \in RoomIds \ {r} : ~Rem(q, p)'
      BY <1>0, <2>2, <2>3, OthersInFlight DEF Rem
    <3> QED
      BY <1>2, <2>2, <2>3, <3>1, <3>2
  <2>9. CoolRoom(r)'
    <3>1. CoolRoom(r)
      BY <1>c, <2>2
    <3>2. \A p \in Requests : Rem(p, r)' <=> Rem(p, r)
      BY <1>0, <2>2, <2>3, <2>7, OthersInFlight DEF Rem
    <3>3. ~Unsent(q)' /\ \A p \in Requests \ {q} : Unsent(p)' <=> Unsent(p)
      BY <1>0, <2>2, <2>3, OthersInFlight DEF Unsent
    <3>4. sent'[r] = sent[r] \/ sent'[r] = entry
      BY <1>0, <2>2, <2>4 DEF RoomTypeOK
    <3>5. Untold(r)'
      BY <1>k, <2>2, <2>3, <3>1 DEF CoolRoom, Untold, KeepsStamps, Live
    <3>6. LastPassed(r)'
      BY <1>k, <1>t, <2>6, <3>1, <3>4, ElapsedAdds DEF CoolRoom, LastPassed, Elapsed
    <3>7. ~(sent[r].early)'
      <4>1. ~sent[r].early /\ (~sent[r].crossed => ~soon)
        <5>1. sent[r].last # NULL => Elapsed(sent[r].last, now) \in Int
          BY <1>t, ElapsedAdds DEF Histories
        <5>2. ~sent[r].crossed /\ sent[r].last # NULL => Elapsed(sent[r].last, now) >= HoursPerDay
          BY <2>1, <2>2, <3>1 DEF CoolRoom, InOrder, Waited, Unsent
        <5> QED
          BY <3>1, <5>1, <5>2, RoomAssumption DEF CoolRoom
      <4>2. ~early
        BY <2>5, <4>1
      <4> QED
        BY <2>6, <3>4, <4>1, <4>2
    <3>8. ASSUME ~(sent[r].crossed)' PROVE Alone(r)' /\ Waited(r)' /\ Stamped(r)'
      <4>1. ~sent[r].crossed
        BY <2>6, <3>4, <3>8
      <4>2. Alone(r)
        BY <3>1, <4>1 DEF CoolRoom, InOrder
      <4>3. Alone(r)'
        BY <3>2, <4>2 DEF Alone
      <4>4. Waited(r)'
        BY <2>2, <3>2, <3>3, <4>2 DEF Alone, Waited
      <4>5. Stamped(r)'
        BY <2>2, <3>2, <3>3 DEF Stamped
      <4> QED
        BY <4>3, <4>4, <4>5
    <3> QED
      BY <3>5, <3>6, <3>7, <3>8 DEF CoolRoom, InOrder
  <2> QED
    BY <1>0, <2>8, <2>9 DEF CoolInv
<1>7. ASSUME NEW q \in Requests, FinishRemind(q) PROVE CoolInv'
  <2>1. request[q] \in Held /\ request[q].kind = "reminded"
    BY <1>0, <1>7 DEF FinishRemind, RoomTypeOK
  <2>a. PICK r \in RoomIds : r = request[q].room
    BY <2>1 DEF Held
  <2> DEFINE row == [room[r] EXCEPT !.reminded = now]
             b == sent[r].crossed /\ Reminding(Requests \ {q}, r)
  <2>2. Rem(q, r) /\ \A p \in RoomIds \ {r} : ~Rem(q, p)
    BY <1>7, <2>1, <2>a DEF FinishRemind, Rem
  <2>3. /\ room' = IF Live(r) THEN [room EXCEPT ![r] = row] ELSE room
        /\ request' = [request EXCEPT ![q] = NULL]
        /\ sent' = [sent EXCEPT ![r].crossed = b]
    BY <1>0, <1>7, <2>a DEF FinishRemind, RoomTypeOK
  <2>4. b <=> sent[r].crossed /\ \E p \in Requests \ {q} : Rem(p, r)
    BY DEF Reminding, Rem
  <2>5. b \in BOOLEAN
    BY Zenon
  <2>6. Live(r) => row.reminded = now
    BY <1>0, <2>2, RoomRowInType DEF RoomRows
  <2> HIDE DEF row, b
  <2>7. /\ sent'[r].last = sent[r].last /\ sent'[r].early = sent[r].early /\ sent'[r].crossed = b
        /\ \A p \in RoomIds \ {r} : sent'[p] = sent[p]
    BY <1>0, <1>t, <2>2, <2>3 DEF RoomTypeOK, Histories
  <2>8. /\ room'[r] = IF Live(r) THEN row ELSE room[r]
        /\ \A p \in RoomIds \ {r} : room'[p] = room[p]
    BY <1>0, <2>2, <2>3 DEF RoomTypeOK
  <2>9. \A p \in RoomIds \ {r} : CoolRoom(p)'
    <3>1. \A p \in RoomIds \ {r} : ~Rem(q, p)'
      BY <1>0, <2>3, OthersInFlight DEF Rem
    <3> QED
      BY <1>2, <2>2, <2>3, <2>7, <2>8, <3>1
  <2>10. CoolRoom(r)'
    <3>1. CoolRoom(r)
      BY <1>c, <2>2
    <3>2. ~Rem(q, r)' /\ \A p \in Requests \ {q} : Rem(p, r)' <=> Rem(p, r)
      BY <1>0, <2>2, <2>3, OthersInFlight DEF Rem
    <3>3. Untold(r)' /\ LastPassed(r)' /\ ~(sent[r].early)'
      BY <1>k, <2>2, <2>7, <3>1, <3>2
         DEF CoolRoom, Untold, LastPassed, KeepsStamps, Live, Elapsed
    <3>4. ASSUME ~b PROVE Alone(r)' /\ Waited(r)' /\ Stamped(r)'
      <4>1. \A p \in Requests : ~Rem(p, r)'
        BY <2>2, <2>4, <3>1, <3>2, <3>4 DEF CoolRoom, InOrder, Alone
      <4>2. Alone(r)' /\ Waited(r)'
        BY <4>1 DEF Alone, Waited
      <4>3. Stamped(r)'
        <5>1. Live(r)' => Live(r) /\ room'[r].reminded = now /\ now' = now
          BY <1>k, <2>6, <2>8 DEF Live
        <5>2. sent[r].last # NULL => Elapsed(sent[r].last, now) >= 0
          BY <3>1 DEF CoolRoom, LastPassed
        <5>3. now # NULL
          BY <1>t, RowAssumption
        <5> QED
          BY <2>7, <5>1, <5>2, <5>3 DEF Stamped, Elapsed
      <4> QED
        BY <4>2, <4>3
    <3> QED
      BY <2>7, <3>3, <3>4 DEF CoolRoom, InOrder
  <2> QED
    BY <1>0, <2>9, <2>10 DEF CoolInv
<1>8. ASSUME NEW q \in Requests, Abandon(q) PROVE CoolInv'
  <2>1. request[q] \in Held /\ request[q] # NULL
    BY <1>0, <1>8 DEF Abandon, RoomTypeOK
  <2>a. PICK r \in RoomIds : r = request[q].room
    BY <2>1 DEF Held
  <2>2. \A p \in RoomIds \ {r} : ~Rem(q, p)
    BY <2>a DEF Rem
  <2>3. /\ room' = room /\ request' = [request EXCEPT ![q] = NULL]
        /\ sent' = IF request[q].kind = "reminded" THEN [sent EXCEPT ![r].crossed = TRUE] ELSE sent
    BY <1>8, <2>a DEF Abandon
  <2>4. request[q].kind = "join" => ~Rem(q, r)
    BY DEF Rem
  <2>5. \A p \in RoomIds \ {r} : sent'[p] = sent[p]
    BY <1>0, <2>2, <2>3 DEF RoomTypeOK
  <2>6. \A p \in RoomIds : ~Rem(q, p)'
    BY <1>0, <2>3, OthersInFlight DEF Rem
  <2>7. \A p \in RoomIds \ {r} : CoolRoom(p)'
    BY <1>2, <2>2, <2>3, <2>5, <2>6
  <2>8. CoolRoom(r)'
    <3>1. CoolRoom(r)
      BY <1>c, <2>2
    <3>2. \A p \in Requests \ {q} : Rem(p, r)' <=> Rem(p, r)
      BY <1>0, <2>2, <2>3, OthersInFlight
    <3>3. \A p \in Requests \ {q} : Unsent(p)' <=> Unsent(p)
      BY <1>0, <2>3, OthersInFlight DEF Unsent
    <3>4. CASE request[q].kind = "join"
      BY <1>2, <2>2, <2>3, <2>4, <2>6, <3>4
    <3>5. CASE request[q].kind = "remind"
      <4>1. sent'[r] = sent[r] /\ Unsent(q)
        BY <2>3, <3>5 DEF Unsent
      <4>2. Untold(r)' /\ LastPassed(r)' /\ ~(sent[r].early)'
        BY <1>k, <2>2, <2>6, <3>1, <3>2, <4>1
           DEF CoolRoom, Untold, LastPassed, KeepsStamps, Live, Elapsed
      <4>3. ASSUME ~sent[r].crossed PROVE Alone(r)' /\ Waited(r)' /\ Stamped(r)'
        <5>1. Alone(r) /\ Waited(r) /\ Stamped(r)
          BY <3>1, <4>3 DEF CoolRoom, InOrder
        <5>2. Alone(r)'
          BY <2>2, <2>6, <3>2, <5>1 DEF Alone
        <5>3. Waited(r)'
          BY <1>k, <2>2, <2>6, <3>2, <3>3, <4>1, <5>1 DEF Waited, Elapsed
        <5>4. Stamped(r)'
          BY <2>3, <3>2, <3>3, <4>1, <5>1 DEF Stamped, Live, Elapsed
        <5> QED
          BY <5>2, <5>3, <5>4
      <4> QED
        BY <4>1, <4>2, <4>3 DEF CoolRoom, InOrder
    <3>6. CASE request[q].kind = "reminded"
      <4>1. /\ sent'[r].last = sent[r].last /\ sent'[r].early = sent[r].early
            /\ sent'[r].crossed = TRUE
        BY <1>0, <1>t, <2>2, <2>3, <3>6 DEF RoomTypeOK, Histories
      <4>2. Untold(r)' /\ LastPassed(r)' /\ ~(sent[r].early)'
        BY <1>k, <2>2, <2>6, <3>1, <3>2, <4>1
           DEF CoolRoom, Untold, LastPassed, KeepsStamps, Live, Elapsed
      <4> QED
        BY <4>1, <4>2 DEF CoolRoom, InOrder
    <3> QED
      BY <2>1, <3>4, <3>5, <3>6 DEF Held
  <2> QED
    BY <1>0, <2>7, <2>8 DEF CoolInv
<1>9. ASSUME NEW r \in RoomIds, NEW u \in Users,
             MarkPaid(r, u) \/ MarkUnpaid(r, u) \/ RemoveMember(r, u)
      PROVE  CoolInv'
  BY <1>1, <1>9 DEF MarkPaid, MarkUnpaid, MarkMember, RemoveMember
<1>10. ASSUME NEW r \in RoomIds, NEW x \in Services, AddService(r, x) \/ RemoveService(r, x)
       PROVE  CoolInv'
  BY <1>1, <1>10 DEF AddService, RemoveService
<1>11. ASSUME NEW u \in Users, NEW r \in RoomIds, Create(u, r) PROVE CoolInv'
  BY <1>1, <1>11 DEF Create
<1>12. ASSUME NEW r \in RoomIds, NEW day \in BillingDays, UpdateRoom(r, day) PROVE CoolInv'
  BY <1>1, <1>12 DEF UpdateRoom
<1>13. ASSUME NEW u \in Users, BeginErase(u) \/ FinishErase(u) \/ AbortErase(u) \/ Revive(u)
       PROVE  CoolInv'
  BY <1>1, <1>13 DEF BeginErase, FinishErase, AbortErase, Revive
<1>14. ASSUME NEW r \in RoomIds, DeleteRoom(r) PROVE CoolInv'
  BY <1>1, <1>14 DEF DeleteRoom
<1> QED
  BY <1>3, <1>4, <1>5, <1>6, <1>7, <1>8, <1>9, <1>10, <1>11, <1>12, <1>13, <1>14 DEF RoomStep

\* So does the passing of an hour.
LEMMA CoolHour ==
  ASSUME CoolInv, NextHour
  PROVE  CoolInv'
<1>1. RoomTypeOK /\ RoomTypeOK' /\ NextMoment.day \in Days /\ now' = NextMoment
  BY NextHourType DEF CoolInv, NextHour
<1>2. UNCHANGED <<room, removed, request, sent>>
  BY DEF NextHour, tableVars
<1>3. \A r \in RoomIds : sent[r].last # NULL =>
        /\ Elapsed(sent[r].last, now') = Elapsed(sent[r].last, now) + 1
        /\ Elapsed(sent[r].last, now) \in Int
  BY <1>1, ElapsedGrows, ElapsedAdds DEF RoomTypeOK, Histories
<1>4. \A r \in RoomIds : CoolRoom(r)'
  <2> SUFFICES ASSUME NEW r \in RoomIds PROVE CoolRoom(r)'
    OBVIOUS
  <2>1. CoolRoom(r)
    BY DEF CoolInv
  <2>2. Untold(r)' /\ ~(sent[r].early)' /\ \A q \in Requests : Rem(q, r)' <=> Rem(q, r)
    BY <1>2, <2>1 DEF CoolRoom, Untold, Rem
  <2>3. LastPassed(r)'
    <3>1. sent[r].last # NULL => Elapsed(sent[r].last, now') >= 0
      BY <1>3, <2>1 DEF CoolRoom, LastPassed
    <3> QED
      BY <1>2, <3>1 DEF LastPassed, Elapsed
  <2>4. ASSUME ~sent[r].crossed PROVE Alone(r)' /\ Waited(r)' /\ Stamped(r)'
    <3>1. Alone(r) /\ Waited(r) /\ Stamped(r)
      BY <2>1, <2>4 DEF CoolRoom, InOrder
    <3>2. \A q \in Requests : Rem(q, r) /\ Unsent(q) /\ sent[r].last # NULL
            => Elapsed(sent[r].last, now') >= HoursPerDay
      BY <1>3, <3>1, RoomAssumption DEF Waited
    <3>3. Waited(r)'
      BY <1>2, <2>2, <3>2 DEF Waited, Unsent, Elapsed
    <3>4. Alone(r)' /\ Stamped(r)'
      BY <1>2, <2>2, <3>1 DEF Alone, Stamped, Unsent, Live, Elapsed
    <3> QED
      BY <3>3, <3>4
  <2> QED
    BY <1>2, <2>2, <2>3, <2>4 DEF CoolRoom, InOrder
<1> QED
  BY <1>1, <1>4 DEF CoolInv

\* CoolInv at the start, and over a stutter.
LEMMA CoolAtStart == RoomInit => CoolInv
<1> SUFFICES ASSUME RoomInit PROVE CoolInv
  OBVIOUS
<1>1. RoomTypeOK
  BY RoomInitType
<1>2. \A r \in RoomIds : CoolRoom(r)
  BY DEF RoomInit, CoolRoom, Untold, LastPassed, InOrder, Alone, Waited, Stamped, Rem, Live
<1> QED
  BY <1>1, <1>2 DEF CoolInv

\* The cooldown is kept in a step that leaves the rooms alone.
LEMMA CoolIdle ==
  ASSUME CoolInv, UNCHANGED roomVars
  PROVE  CoolInv'
<1>1. RoomTypeOK'
  BY RoomTypeKept DEF CoolInv
<1>2. UNCHANGED <<now, room, removed, request, sent>>
  BY DEF roomVars, tableVars
<1>3. \A r \in RoomIds : CoolRoom(r)'
  BY <1>2 DEF CoolInv, CoolRoom, Untold, LastPassed, InOrder, Alone, Waited, Stamped, Rem,
              Unsent, Live, Elapsed
<1> QED
  BY <1>1, <1>3 DEF CoolInv

\* The inductive invariant behind the theorem below.
THEOREM CoolInvariant == RoomSpec => []CoolInv
<1>1. CoolInv /\ [RoomNext]_roomVars => CoolInv'
  BY CoolIdle, CoolHour, CoolStep DEF RoomNext
<1> QED
  BY CoolAtStart, <1>1, PTL DEF RoomSpec

\* room.go: "Anti-spam: 24-hour cooldown per room".  For any number of rooms,
\* owners and requests, members are not messaged twice within a day except after
\* requests that overlapped or a stamp that was lost.
THEOREM CooldownIsHonoured == RoomSpec => []CooldownHonoured
<1>1. CoolInv => CooldownHonoured
  BY DEF CoolInv, CoolRoom, CooldownHonoured
<1> QED
  BY <1>1, CoolInvariant, PTL

(***************************************************************************)
(* The monthly workers.                                                    *)
(***************************************************************************)
\* A room the reset worker still has to look at has not been reset today.
NotYetReset == \A r \in DOMAIN resetting : Live(r) => Stale(room[r].resetAt)

ResetInv == BillTypeOK /\ NotYetReset

\* What is written to a room by the two workers.
LEMMA WorkerWrites ==
  ASSUME RoomTypeOK, NEW r \in RoomIds, Live(r)
  PROVE  /\ [room[r] EXCEPT !.resetAt = now] \in RoomRows
         /\ [room[r] EXCEPT !.billReminded = now] \in RoomRows
         /\ [room[r] EXCEPT !.billReminded = now].resetAt = room[r].resetAt
<1>1. room[r] \in RoomRows /\ now \in Moments
  BY RoomRowInType DEF RoomTypeOK
<1> QED
  BY <1>1 DEF RoomRows

\* Every step keeps ResetInv.
LEMMA ResetStep ==
  ASSUME ResetInv, BillNext
  PROVE  ResetInv'
<1> USE DEF accountVars, tableVars
<1>0. RoomTypeOK
  BY DEF ResetInv, BillTypeOK
<1>1. CASE RequestStep
  <2>1. RoomTypeOK' /\ now \in Moments
    BY <1>0, <1>1, RoomStepType DEF RequestStep, RoomTypeOK
  <2>2. settled' \in [RoomIds -> Moments \cup {NULL}]
    BY <1>1, <2>1 DEF RequestStep, ResetInv, BillTypeOK
  <2>3. BillTypeOK'
    BY <1>1, <2>1, <2>2 DEF RequestStep, workerVars, ResetInv, BillTypeOK
  <2>4. \A r \in RoomIds :
          room'[r] # NULL => (IF Live(r) THEN room'[r].resetAt = room[r].resetAt
                                         ELSE room'[r].resetAt = NULL)
    BY <1>0, <1>1, RequestsKeepStamps DEF RequestStep, KeepsStamps
  <2>5. now' = now /\ resetting' = resetting
    BY <1>0, <1>1, RequestsKeepStamps DEF RequestStep, workerVars
  <2>6. NotYetReset'
    BY <2>4, <2>5 DEF NotYetReset, Live, Stale, Elapsed, ResetInv, BillTypeOK
  <2> QED
    BY <2>3, <2>6 DEF ResetInv
<1>2. CASE ResetRead
  <2>1. RoomTypeOK'
    BY <1>0, <1>2, RoomTypeKept DEF ResetRead
  <2>2. \A r \in {v \in RoomIds : Live(v) /\ Stale(room[v].resetAt)} : room[r] \in RoomRows
    BY <1>0, RoomRowInType
  <2>3. BillTypeOK'
    BY <1>2, <2>1, <2>2 DEF ResetRead, ResetInv, BillTypeOK
  <2>4. NotYetReset'
    BY <1>2 DEF ResetRead, NotYetReset, Live, Stale, Elapsed, roomVars
  <2> QED
    BY <2>3, <2>4 DEF ResetInv
<1>3. ASSUME NEW r \in RoomIds, ResetRoom(r) PROVE ResetInv'
  <2> DEFINE row == [room[r] EXCEPT !.resetAt = now]
             Acts == roomDueForResetNow(resetting[r]) /\ Live(r)
  <2>1. Live(r) => row \in RoomRows
    BY <1>0, WorkerWrites
  <2>2. /\ room' = IF Acts THEN [room EXCEPT ![r] = row] ELSE room
        /\ members' = IF Acts THEN [members EXCEPT ![r] = [u \in DOMAIN members[r] |-> FALSE]]
                       ELSE members
    BY <1>0, <1>3 DEF ResetRoom, RoomTypeOK
  <2>3. resetting' = Without(resetting, r)
    BY <1>3 DEF ResetRoom
  <2>4. UNCHANGED <<now, removed, services, request, gone, erasing, erasures, overlap, sent,
                    pending, reminding, faults, stops, settled, told, torn>>
    BY <1>3 DEF ResetRoom
  <2>5. Acts => Live(r)
    OBVIOUS
  <2> HIDE DEF row, Acts
  <2>6. room' \in [RoomIds -> RoomRows \cup {NULL}]
    BY <1>0, <2>1, <2>2, <2>5 DEF RoomTypeOK
  <2>7. members' \in [RoomIds -> Paid]
    <3>1. members[r] \in Paid
      BY <1>0 DEF RoomTypeOK
    <3>2. [u \in DOMAIN members[r] |-> FALSE] \in [DOMAIN members[r] -> BOOLEAN]
      OBVIOUS
    <3>3. [u \in DOMAIN members[r] |-> FALSE] \in Paid
      BY <3>1, <3>2, PaidDomain, PaidMaps
    <3> QED
      BY <1>0, <2>2, <3>3 DEF RoomTypeOK
  <2>8. RoomTypeOK'
    BY <1>0, <2>4, <2>6, <2>7 DEF RoomTypeOK
  <2>9. /\ DOMAIN resetting' = DOMAIN resetting \ {r}
        /\ \A q \in DOMAIN resetting' : resetting'[q] = resetting[q]
    BY <2>3 DEF Without
  <2>10. BillTypeOK'
    BY <2>4, <2>8, <2>9 DEF ResetInv, BillTypeOK
  <2>11. \A q \in RoomIds \ {r} : room'[q] = room[q]
    BY <1>0, <2>2 DEF RoomTypeOK
  <2>12. NotYetReset'
    BY <2>4, <2>9, <2>11 DEF ResetInv, BillTypeOK, NotYetReset, Live, Stale, Elapsed
  <2> QED
    BY <2>10, <2>12 DEF ResetInv
<1>4. ASSUME NEW r \in RoomIds, ResetRoomFails(r) PROVE ResetInv'
  <2>1. RoomTypeOK'
    BY <1>0, <1>4, RoomTypeKept DEF ResetRoomFails
  <2>2. resetting' = Without(resetting, r) /\ faults' \in Nat
    BY <1>4 DEF ResetRoomFails, Fault, ResetInv, BillTypeOK
  <2>3. /\ DOMAIN resetting' = DOMAIN resetting \ {r}
        /\ \A q \in DOMAIN resetting' : resetting'[q] = resetting[q]
    BY <2>2 DEF Without
  <2>4. BillTypeOK'
    BY <1>4, <2>1, <2>2, <2>3 DEF ResetRoomFails, ResetInv, BillTypeOK
  <2>5. NotYetReset'
    BY <1>4, <2>3 DEF ResetRoomFails, ResetInv, NotYetReset, Live, Stale, Elapsed, roomVars
  <2> QED
    BY <2>4, <2>5 DEF ResetInv
<1>5. CASE RemindRead
  <2>1. RoomTypeOK'
    BY <1>0, <1>5, RoomTypeKept DEF RemindRead
  <2>2. \A r \in RoomIds : DOMAIN members[r] \subseteq Users
    BY <1>0, PaidDomain DEF RoomTypeOK
  <2>3. DOMAIN reminding' \subseteq RoomIds /\ \A r \in DOMAIN reminding' : reminding'[r] \subseteq Users
    BY <1>5, <2>2 DEF RemindRead, Nothing
  <2>4. BillTypeOK'
    BY <1>5, <2>1, <2>3 DEF RemindRead, ResetInv, BillTypeOK
  <2>5. NotYetReset'
    BY <1>5 DEF RemindRead, ResetInv, NotYetReset, Live, Stale, Elapsed, roomVars
  <2> QED
    BY <2>4, <2>5 DEF ResetInv
<1>6. ASSUME NEW r \in RoomIds, NEW u \in Users, NEW ok \in BOOLEAN, TellMember(r, u, ok)
      PROVE  ResetInv'
  <2>1. RoomTypeOK'
    BY <1>0, <1>6, RoomTypeKept DEF TellMember
  <2>2. DOMAIN reminding' \subseteq RoomIds /\ \A q \in DOMAIN reminding' : reminding'[q] \subseteq Users
    BY <1>6 DEF TellMember, ResetInv, BillTypeOK
  <2>3. told' \in [RoomIds -> [Users -> Nat]]
    <3>1. told \in [RoomIds -> [Users -> Nat]]
      BY DEF ResetInv, BillTypeOK
    <3>2. told' = IF ok THEN [told EXCEPT ![r] = [told[r] EXCEPT ![u] = told[r][u] + 1]] ELSE told
      BY <1>6, <3>1 DEF TellMember
    <3>3. [told[r] EXCEPT ![u] = told[r][u] + 1] \in [Users -> Nat]
      BY <3>1
    <3> QED
      BY <3>1, <3>2, <3>3
  <2>4. BillTypeOK'
    BY <1>6, <2>1, <2>2, <2>3 DEF TellMember, ResetInv, BillTypeOK
  <2>5. NotYetReset'
    BY <1>6 DEF TellMember, ResetInv, NotYetReset, Live, Stale, Elapsed, roomVars
  <2> QED
    BY <2>4, <2>5 DEF ResetInv
<1>7. ASSUME NEW r \in RoomIds, StampRoom(r) PROVE ResetInv'
  <2> DEFINE row == [room[r] EXCEPT !.billReminded = now]
  <2>1. Live(r) => row \in RoomRows /\ row.resetAt = room[r].resetAt
    BY <1>0, WorkerWrites
  <2>2. room' = IF Live(r) THEN [room EXCEPT ![r] = row] ELSE room
    BY <1>0, <1>7 DEF StampRoom, StampMatches, RoomTypeOK
  <2>3. reminding' = Without(reminding, r)
    BY <1>7 DEF StampRoom
  <2>4. UNCHANGED <<now, removed, members, services, request, gone, erasing, erasures, overlap,
                    sent, pending, resetting, faults, stops, settled, told, torn>>
    BY <1>7 DEF StampRoom
  <2> HIDE DEF row
  <2>5. room' \in [RoomIds -> RoomRows \cup {NULL}]
    BY <1>0, <2>1, <2>2 DEF RoomTypeOK
  <2>6. RoomTypeOK'
    BY <1>0, <2>4, <2>5 DEF RoomTypeOK
  <2>7. /\ DOMAIN reminding' = DOMAIN reminding \ {r}
        /\ \A q \in DOMAIN reminding' : reminding'[q] = reminding[q]
    BY <2>3 DEF Without
  <2>8. BillTypeOK'
    BY <2>4, <2>6, <2>7 DEF ResetInv, BillTypeOK
  <2>9. \A q \in RoomIds : room'[q] # NULL => Live(q) /\ room'[q].resetAt = room[q].resetAt
    BY <1>0, <2>1, <2>2 DEF RoomTypeOK, Live
  <2>10. NotYetReset'
    BY <2>4, <2>9 DEF ResetInv, BillTypeOK, NotYetReset, Live, Stale, Elapsed
  <2> QED
    BY <2>8, <2>10 DEF ResetInv
<1>8. ASSUME NEW r \in RoomIds, StampFails(r) PROVE ResetInv'
  <2>1. RoomTypeOK'
    BY <1>0, <1>8, RoomTypeKept DEF StampFails
  <2>2. reminding' = Without(reminding, r) /\ faults' \in Nat /\ torn' \subseteq RoomIds
    BY <1>8 DEF StampFails, Fault, ResetInv, BillTypeOK
  <2>3. /\ DOMAIN reminding' = DOMAIN reminding \ {r}
        /\ \A q \in DOMAIN reminding' : reminding'[q] = reminding[q]
    BY <2>2 DEF Without
  <2>4. BillTypeOK'
    BY <1>8, <2>1, <2>2, <2>3 DEF StampFails, ResetInv, BillTypeOK
  <2>5. NotYetReset'
    BY <1>8 DEF StampFails, ResetInv, NotYetReset, Live, Stale, Elapsed, roomVars
  <2> QED
    BY <2>4, <2>5 DEF ResetInv
<1>9. CASE Shutdown \/ CrashRestart
  <2>1. RoomTypeOK'
    BY <1>0, <1>9, RoomTypeKept DEF Shutdown, CrashRestart
  <2>2. /\ pending' = Workers /\ resetting' = Nothing /\ reminding' = Nothing
        /\ faults' \in Nat /\ stops' \in Nat /\ torn' = torn \cup HalfTold
        /\ UNCHANGED <<settled, told>>
    BY <1>9 DEF Shutdown, CrashRestart, Fault, ResetInv, BillTypeOK
  <2>3. HalfTold \subseteq RoomIds
    BY DEF HalfTold, ResetInv, BillTypeOK
  <2>4. BillTypeOK'
    BY <2>1, <2>2, <2>3 DEF Nothing, ResetInv, BillTypeOK
  <2>5. NotYetReset'
    BY <2>2 DEF NotYetReset, Nothing
  <2> QED
    BY <2>4, <2>5 DEF ResetInv
<1>10. ASSUME NEW w \in Workers, MissTick(w) PROVE ResetInv'
  <2>1. RoomTypeOK'
    BY <1>0, <1>10, RoomTypeKept DEF MissTick
  <2>2. BillTypeOK'
    BY <1>10, <2>1 DEF MissTick, Fault, ResetInv, BillTypeOK
  <2>3. NotYetReset'
    BY <1>10 DEF MissTick, ResetInv, NotYetReset, Live, Stale, Elapsed, roomVars
  <2> QED
    BY <2>2, <2>3 DEF ResetInv
<1>11. CASE Hour
  <2>1. RoomTypeOK'
    BY <1>0, <1>11, NextHourType DEF Hour
  <2>2. told' \in [RoomIds -> [Users -> Nat]]
    BY <1>11 DEF Hour, ResetInv, BillTypeOK
  <2>3. BillTypeOK'
    BY <1>11, <2>1, <2>2 DEF Hour, ResetInv, BillTypeOK
  <2>4. NotYetReset'
    BY <1>11 DEF Hour, NotYetReset, Nothing
  <2> QED
    BY <2>3, <2>4 DEF ResetInv
<1> QED
  BY <1>1, <1>2, <1>3, <1>4, <1>5, <1>6, <1>7, <1>8, <1>9, <1>10, <1>11 DEF BillNext

\* The inductive invariant behind the two theorems below.
THEOREM ResetInvariant == BillSpec => []ResetInv
<1>1. BillInit => ResetInv
  <2> SUFFICES ASSUME BillInit PROVE ResetInv
    OBVIOUS
  <2>1. RoomTypeOK
    BY RoomInitType DEF BillInit
  <2> QED
    BY <2>1 DEF BillInit, ResetInv, BillTypeOK, NotYetReset, Nothing
<1>2. ResetInv /\ [BillNext]_billVars => ResetInv'
  <2>1. ASSUME ResetInv, UNCHANGED billVars PROVE ResetInv'
    <3>1. RoomTypeOK'
      BY <2>1, RoomTypeKept DEF ResetInv, BillTypeOK, billVars
    <3>2. BillTypeOK'
      BY <2>1, <3>1 DEF ResetInv, BillTypeOK, billVars, workerVars
    <3>3. NotYetReset'
      BY <2>1 DEF ResetInv, NotYetReset, Live, Stale, Elapsed, billVars, workerVars, roomVars, tableVars
    <3> QED
      BY <3>2, <3>3 DEF ResetInv
  <2> QED
    BY <2>1, ResetStep
<1> QED
  BY <1>1, <1>2, PTL DEF BillSpec

\* Types of the workers and their histories, for any number of rooms and users.
THEOREM BillingTypeCorrect == BillSpec => []BillTypeOK
<1>1. ResetInv => BillTypeOK
  BY DEF ResetInv
<1> QED
  BY <1>1, ResetInvariant, PTL

\* However often the worker ticks, restarts or fails, and whatever owners and
\* members do in between, no room is reset twice on one day.
THEOREM NoRoomIsResetTwiceADay == BillSpec => ResetOncePerDay
<1> DEFINE Once == \A r \in RoomIds :
                     Live(r) /\ room'[r] # NULL /\ room'[r].resetAt # room[r].resetAt
                     => room[r].resetAt = NULL \/ room[r].resetAt.day # now.day
<1>1. ASSUME ResetInv, BillNext PROVE Once
  <2>0. RoomTypeOK /\ NotYetReset
    BY <1>1 DEF ResetInv, BillTypeOK
  <2>1. CASE RequestStep
    BY <2>0, <2>1, RequestsKeepStamps DEF RequestStep, KeepsStamps
  <2>2. ASSUME NEW r \in RoomIds, ResetRoom(r) PROVE Once
    <3>1. \A q \in RoomIds \ {r} : room'[q] = room[q]
      BY <2>0, <2>2 DEF ResetRoom, RoomTypeOK
    <3>2. Live(r) => Stale(room[r].resetAt)
      BY <2>0, <2>2 DEF ResetRoom, NotYetReset
    <3>3. Live(r) => room[r].resetAt \in Moments \cup {NULL}
      BY <2>0, RoomRowInType DEF RoomRows
    <3>4. now \in Moments
      BY <2>0 DEF RoomTypeOK
    <3>5. Live(r) => room[r].resetAt = NULL \/ room[r].resetAt.day # now.day
      BY <3>2, <3>3, <3>4, StaleIsAnotherDay DEF Stale
    <3> QED
      BY <3>1, <3>5
  <2>3. ASSUME NEW r \in RoomIds, StampRoom(r) PROVE Once
    <3> DEFINE row == [room[r] EXCEPT !.billReminded = now]
    <3>1. Live(r) => row.resetAt = room[r].resetAt
      BY <2>0, WorkerWrites
    <3>2. room' = IF Live(r) THEN [room EXCEPT ![r] = row] ELSE room
      BY <2>0, <2>3 DEF StampRoom, StampMatches, RoomTypeOK
    <3> HIDE DEF row
    <3> QED
      BY <2>0, <3>1, <3>2 DEF RoomTypeOK, Live
  <2>4. room' = room => Once
    OBVIOUS
  <2>5. CASE ResetRead \/ RemindRead \/ Shutdown \/ CrashRestart
    BY <2>4, <2>5 DEF ResetRead, RemindRead, Shutdown, CrashRestart, roomVars, tableVars
  <2>6. ASSUME NEW r \in RoomIds, ResetRoomFails(r) \/ StampFails(r) PROVE Once
    BY <2>4, <2>6 DEF ResetRoomFails, StampFails, roomVars, tableVars
  <2>7. ASSUME NEW r \in RoomIds, NEW u \in Users, NEW ok \in BOOLEAN, TellMember(r, u, ok)
        PROVE  Once
    BY <2>4, <2>7 DEF TellMember, roomVars, tableVars
  <2>8. ASSUME NEW w \in Workers, MissTick(w) PROVE Once
    BY <2>4, <2>8 DEF MissTick, roomVars, tableVars
  <2>9. CASE Hour
    BY <2>4, <2>9 DEF Hour, NextHour, tableVars
  <2> HIDE DEF Once
  <2> QED
    BY <1>1, <2>1, <2>2, <2>3, <2>5, <2>6, <2>7, <2>8, <2>9 DEF BillNext
<1>2. UNCHANGED billVars => Once
  BY DEF billVars, roomVars, tableVars
<1>3. ResetInv /\ [BillNext]_billVars => [Once]_billVars
  BY <1>1, <1>2
<1> QED
  BY <1>3, ResetInvariant, PTL DEF BillSpec, ResetOncePerDay

(***************************************************************************)
(* What the steps of the workers leave of the rooms.                       *)
(***************************************************************************)
\* The row of a room outlives the steps of the workers.  The reset stamp is written
\* when the copy of the row is due, the reminder stamp after the last member.
KeepsRow(r) ==
  /\ room'[r] = NULL <=> room[r] = NULL
  /\ Live(r) => /\ room'[r].owner = room[r].owner /\ room'[r].billing = room[r].billing
                /\ room'[r].reminded = room[r].reminded
                /\ \/ room'[r].resetAt = room[r].resetAt
                   \/ /\ r \in DOMAIN resetting /\ roomDueForResetNow(resetting[r])
                      /\ room'[r].resetAt = now
                /\ \/ room'[r].billReminded = room[r].billReminded
                   \/ r \in DOMAIN reminding /\ room'[r].billReminded = now

\* A step of the reset worker on r leaves the other rooms alone.
LEMMA ResetKeepsRows ==
  ASSUME BillTypeOK, NEW r \in RoomIds, ResetRoom(r)
  PROVE  /\ \A q \in RoomIds : KeepsRow(q)
         /\ \A q \in RoomIds \ {r} : room'[q] = room[q]
         /\ Live(r) => room'[r].billReminded = room[r].billReminded
         /\ Live(r) /\ roomDueForResetNow(resetting[r]) => room'[r].resetAt = now
         /\ ~roomDueForResetNow(resetting[r]) => room' = room
<1> DEFINE row == [room[r] EXCEPT !.resetAt = now]
           Acts == roomDueForResetNow(resetting[r]) /\ Live(r)
<1>1. RoomTypeOK /\ now \in Moments
  BY DEF BillTypeOK, RoomTypeOK
<1>2. Live(r) => /\ row # NULL /\ row.billing = room[r].billing /\ row.owner = room[r].owner
                 /\ row.reminded = room[r].reminded /\ row.resetAt = now
                 /\ row.billReminded = room[r].billReminded
  <2>1. Live(r) => room[r] \in RoomRows /\ row \in RoomRows
    BY <1>1, RoomRowInType DEF RoomRows
  <2> QED
    BY <2>1, RowAssumption DEF RoomRows
<1>3. room' = IF Acts THEN [room EXCEPT ![r] = row] ELSE room
  BY <1>1 DEF ResetRoom, RoomTypeOK
<1>4. r \in DOMAIN resetting
  BY DEF ResetRoom
<1> HIDE DEF row
<1>5. /\ room'[r] = IF Acts THEN row ELSE room[r]
      /\ \A q \in RoomIds \ {r} : room'[q] = room[q]
  BY <1>1, <1>3 DEF RoomTypeOK
<1> QED
  BY <1>2, <1>3, <1>4, <1>5 DEF KeepsRow, Live

\* So does a stamp of the reminder worker.
LEMMA StampKeepsRows ==
  ASSUME BillTypeOK, NEW r \in RoomIds, StampRoom(r)
  PROVE  /\ \A q \in RoomIds : KeepsRow(q)
         /\ \A q \in RoomIds \ {r} : room'[q] = room[q]
         /\ Live(r) => /\ room'[r].resetAt = room[r].resetAt
                       /\ room'[r].billReminded = now
<1> DEFINE row == [room[r] EXCEPT !.billReminded = now]
<1>1. RoomTypeOK /\ now \in Moments
  BY DEF BillTypeOK, RoomTypeOK
<1>2. Live(r) => /\ row # NULL /\ row.billing = room[r].billing /\ row.owner = room[r].owner
                 /\ row.reminded = room[r].reminded /\ row.billReminded = now
                 /\ row.resetAt = room[r].resetAt
  <2>1. Live(r) => room[r] \in RoomRows /\ row \in RoomRows
    BY <1>1, RoomRowInType DEF RoomRows
  <2> QED
    BY <2>1, RowAssumption DEF RoomRows
<1>3. room' = IF Live(r) THEN [room EXCEPT ![r] = row] ELSE room
  BY <1>1 DEF StampRoom, StampMatches, RoomTypeOK
<1>4. r \in DOMAIN reminding
  BY DEF StampRoom
<1> HIDE DEF row
<1>5. /\ room'[r] = IF Live(r) THEN row ELSE room[r]
      /\ \A q \in RoomIds \ {r} : room'[q] = room[q]
  BY <1>1, <1>3 DEF RoomTypeOK
<1> QED
  BY <1>2, <1>4, <1>5 DEF KeepsRow, Live

\* A request settles the billing day of a room it creates or whose day it changes.
LEMMA RequestsSettle ==
  ASSUME BillTypeOK, RequestStep
  PROVE  /\ now' = now /\ UNCHANGED <<workerVars, told, torn>>
         /\ \A r \in RoomIds :
              /\ KeepsStamps(r)
              /\ settled'[r] \in {settled[r], now}
              /\ room'[r] # NULL /\ settled'[r] # now =>
                   Live(r) /\ room'[r].billing = room[r].billing /\ settled'[r] = settled[r]
<1>1. RoomStep /\ RoomTypeOK /\ UNCHANGED <<workerVars, told, torn>>
  BY DEF RequestStep, BillTypeOK
<1>2. \A r \in RoomIds :
        settled'[r] = IF room'[r] # NULL /\ (Live(r) => room'[r].billing # room[r].billing)
                      THEN now ELSE settled[r]
  BY DEF RequestStep
<1> QED
  BY <1>1, <1>2, RequestsKeepStamps

(***************************************************************************)
(* The messages of the day before.                                         *)
(***************************************************************************)
Quiet(r) == \A u \in Users : told[r][u] = 0

\* A room being worked on: only those no longer in the worker's list were told.  Any
\* other: nobody was told today, or the reminder of today is stamped.
ToldRoom(r) ==
  /\ room[r] = NULL /\ r \notin removed => r \notin DOMAIN reminding /\ Quiet(r)
  /\ r \notin torn /\ r \in DOMAIN reminding =>
       \A u \in Users : told[r][u] <= (IF u \in reminding[r] THEN 0 ELSE 1)
  /\ r \notin torn /\ r \notin DOMAIN reminding =>
       /\ \A u \in Users : told[r][u] <= 1
       /\ \/ Quiet(r) \/ ~Live(r)
          \/ room[r].billReminded # NULL /\ room[r].billReminded.day = now.day

ToldInv ==
  /\ BillTypeOK
  /\ "reminder" \in pending => reminding = Nothing
  /\ \A r \in RoomIds : ToldRoom(r)

\* Every step keeps ToldInv.
LEMMA ToldStep ==
  ASSUME ToldInv, BillTypeOK', BillNext
  PROVE  ToldInv'
<1> USE DEF accountVars, tableVars
<1>0. BillTypeOK /\ RoomTypeOK
  BY DEF ToldInv, BillTypeOK
<1>t. now \in Moments /\ told \in [RoomIds -> [Users -> Nat]]
  BY <1>0 DEF BillTypeOK, RoomTypeOK
<1>i. ("reminder" \in pending => reminding = Nothing) /\ \A r \in RoomIds : ToldRoom(r)
  BY DEF ToldInv
<1>n. DOMAIN Nothing = {}
  BY DEF Nothing
<1>1. CASE RequestStep
  <2>1. /\ now' = now /\ UNCHANGED <<pending, reminding, told, torn>>
        /\ \A r \in RoomIds : KeepsStamps(r)
    BY <1>0, <1>1, RequestsSettle DEF workerVars
  <2>2. \A r \in RoomIds : ToldRoom(r)'
    BY <1>i, <2>1 DEF ToldRoom, Quiet, KeepsStamps, Live
  <2> QED
    BY <1>i, <2>1, <2>2 DEF ToldInv
<1>2. ASSUME NEW r \in RoomIds, ResetRoom(r) PROVE ToldInv'
  <2>1. UNCHANGED <<now, removed, pending, reminding, told, torn>>
    BY <1>2 DEF ResetRoom
  <2>2. \A q \in RoomIds : /\ room'[q] = NULL <=> room[q] = NULL
                           /\ Live(q) => room'[q].billReminded = room[q].billReminded
    BY <1>0, <1>2, ResetKeepsRows DEF KeepsRow
  <2>3. \A q \in RoomIds : ToldRoom(q)'
    BY <1>i, <2>1, <2>2 DEF ToldRoom, Quiet, Live
  <2> QED
    BY <1>i, <2>1, <2>3 DEF ToldInv
<1>3. ASSUME UNCHANGED <<room, removed, now, pending, reminding, told, torn>> PROVE ToldInv'
  <2>1. \A q \in RoomIds : ToldRoom(q)'
    BY <1>i, <1>3 DEF ToldRoom, Quiet, Live
  <2> QED
    BY <1>i, <1>3, <2>1 DEF ToldInv
<1>4. CASE ResetRead
  <2>1. UNCHANGED <<room, removed, now, reminding, told, torn>> /\ pending' \subseteq pending
    BY <1>4 DEF ResetRead, roomVars
  <2>2. \A q \in RoomIds : ToldRoom(q)'
    BY <1>i, <2>1 DEF ToldRoom, Quiet, Live
  <2> QED
    BY <1>i, <2>1, <2>2 DEF ToldInv
<1>5. ASSUME NEW r \in RoomIds, ResetRoomFails(r) PROVE ToldInv'
  BY <1>3, <1>5 DEF ResetRoomFails, roomVars
<1>6. CASE RemindRead
  <2>1. /\ UNCHANGED <<room, removed, now, told, torn>>
        /\ "reminder" \in pending /\ "reminder" \notin pending'
    BY <1>6 DEF RemindRead, roomVars
  <2>2. DOMAIN reminding = {}
    BY <1>i, <1>n, <2>1
  <2>3. \A r \in DOMAIN reminding' : r \in RoomIds /\ Live(r) /\ Stale(room[r].billReminded)
    BY <1>6, <1>n DEF RemindRead
  <2>4. \A r \in DOMAIN reminding' : r \notin torn => Quiet(r)
    <3> SUFFICES ASSUME NEW r \in DOMAIN reminding', r \notin torn PROVE Quiet(r)
      OBVIOUS
    <3>1. room[r].billReminded \in Moments \cup {NULL}
      BY <1>0, <2>3, RoomRowInType DEF RoomRows
    <3>2. ~(room[r].billReminded # NULL /\ room[r].billReminded.day = now.day)
      BY <1>t, <2>3, <3>1, StaleIsAnotherDay DEF Stale
    <3> QED
      BY <1>i, <2>2, <2>3, <3>2 DEF ToldRoom
  <2>5. \A r \in RoomIds : ToldRoom(r)'
    <3> SUFFICES ASSUME NEW r \in RoomIds PROVE ToldRoom(r)'
      OBVIOUS
    <3>1. CASE r \in DOMAIN reminding'
      BY <2>1, <2>3, <2>4, <3>1 DEF ToldRoom, Quiet, Live
    <3>2. CASE r \notin DOMAIN reminding'
      BY <1>i, <2>1, <2>2, <3>2 DEF ToldRoom, Quiet, Live
    <3> QED
      BY <3>1, <3>2
  <2> QED
    BY <2>1, <2>5 DEF ToldInv
<1>7. ASSUME NEW r \in RoomIds, NEW u \in Users, NEW ok \in BOOLEAN, TellMember(r, u, ok)
      PROVE  ToldInv'
  <2>1. /\ UNCHANGED <<room, removed, now, pending, torn>>
        /\ r \in DOMAIN reminding /\ u \in reminding[r]
        /\ reminding' = [reminding EXCEPT ![r] = reminding[r] \ {u}]
    BY <1>7 DEF TellMember, roomVars
  <2>2. /\ DOMAIN reminding' = DOMAIN reminding /\ reminding'[r] = reminding[r] \ {u}
        /\ \A q \in RoomIds \ {r} : q \in DOMAIN reminding => reminding'[q] = reminding[q]
    BY <2>1
  <2>3. /\ \A q \in RoomIds \ {r} : told'[q] = told[q]
        /\ \A v \in Users \ {u} : told'[r][v] = told[r][v]
        /\ told'[r][u] \in {told[r][u], told[r][u] + 1}
    BY <1>7, <1>t DEF TellMember
  <2>4. \A q \in RoomIds \ {r} : ToldRoom(q)'
    BY <1>i, <2>1, <2>2, <2>3 DEF ToldRoom, Quiet, Live
  <2>5. ToldRoom(r)'
    <3>1. r \notin torn => \A v \in Users : told'[r][v] <= (IF v \in reminding'[r] THEN 0 ELSE 1)
      BY <1>i, <1>t, <2>1, <2>2, <2>3 DEF ToldRoom
    <3> QED
      BY <1>i, <2>1, <2>2, <3>1 DEF ToldRoom
  <2>6. "reminder" \notin pending
    BY <1>i, <1>n, <2>1
  <2> QED
    BY <2>1, <2>4, <2>5, <2>6 DEF ToldInv
<1>8. ASSUME NEW r \in RoomIds, StampRoom(r) PROVE ToldInv'
  <2>1. /\ UNCHANGED <<removed, now, pending, told, torn>>
        /\ r \in DOMAIN reminding /\ reminding[r] = {}
        /\ reminding' = Without(reminding, r)
    BY <1>8 DEF StampRoom
  <2>2. /\ DOMAIN reminding' = DOMAIN reminding \ {r}
        /\ \A q \in DOMAIN reminding' : reminding'[q] = reminding[q]
    BY <2>1 DEF Without
  <2>3. /\ \A q \in RoomIds \ {r} : room'[q] = room[q]
        /\ room'[r] = NULL <=> room[r] = NULL
        /\ Live(r) => room'[r].billReminded = now
    BY <1>0, <1>8, StampKeepsRows DEF KeepsRow
  <2>4. \A q \in RoomIds \ {r} : ToldRoom(q)'
    BY <1>i, <2>1, <2>2, <2>3 DEF ToldRoom, Quiet, Live
  <2>5. ToldRoom(r)'
    <3>1. now # NULL
      BY <1>t, RowAssumption
    <3>2. ToldRoom(r)
      BY <1>i
    <3> QED
      BY <2>1, <2>2, <2>3, <3>1, <3>2 DEF ToldRoom, Quiet, Live
  <2>6. "reminder" \notin pending
    BY <1>i, <1>n, <2>1
  <2> QED
    BY <2>1, <2>4, <2>5, <2>6 DEF ToldInv
<1>9. ASSUME NEW r \in RoomIds, StampFails(r) PROVE ToldInv'
  <2>1. /\ UNCHANGED <<room, removed, now, pending, told>>
        /\ torn' = torn \cup {r} /\ r \in DOMAIN reminding
        /\ reminding' = Without(reminding, r)
    BY <1>9 DEF StampFails, roomVars
  <2>2. /\ DOMAIN reminding' = DOMAIN reminding \ {r}
        /\ \A q \in DOMAIN reminding' : reminding'[q] = reminding[q]
    BY <2>1 DEF Without
  <2>3. \A q \in RoomIds : ToldRoom(q)'
    BY <1>i, <2>1, <2>2 DEF ToldRoom, Quiet, Live
  <2>4. "reminder" \notin pending
    BY <1>i, <1>n, <2>1
  <2> QED
    BY <2>1, <2>3, <2>4 DEF ToldInv
<1>10. CASE Shutdown \/ CrashRestart
  <2>1. /\ UNCHANGED <<room, removed, now, told>>
        /\ torn' = torn \cup HalfTold /\ reminding' = Nothing
    BY <1>10 DEF Shutdown, CrashRestart, roomVars
  <2>2. \A r \in RoomIds : ToldRoom(r)'
    <3> SUFFICES ASSUME NEW r \in RoomIds PROVE ToldRoom(r)'
      OBVIOUS
    <3>1. r \in DOMAIN reminding /\ r \notin HalfTold => Quiet(r)
      BY <1>t DEF HalfTold, Quiet
    <3>2. ToldRoom(r)
      BY <1>i
    <3>3. Quiet(r) => \A u \in Users : told[r][u] <= 1
      BY DEF Quiet
    <3> QED
      BY <1>n, <2>1, <3>1, <3>2, <3>3 DEF ToldRoom, Quiet, Live
  <2> QED
    BY <2>1, <2>2 DEF ToldInv, Nothing
<1>11. ASSUME NEW w \in Workers, MissTick(w) PROVE ToldInv'
  <2>1. UNCHANGED <<room, removed, now, reminding, told, torn>> /\ pending' \subseteq pending
    BY <1>11 DEF MissTick, roomVars
  <2>2. \A q \in RoomIds : ToldRoom(q)'
    BY <1>i, <2>1 DEF ToldRoom, Quiet, Live
  <2> QED
    BY <1>i, <2>1, <2>2 DEF ToldInv
<1>12. CASE Hour
  <2>1. /\ UNCHANGED <<room, removed, reminding, torn>> /\ reminding = Nothing
        /\ told' = IF now'.day = now.day THEN told ELSE [r \in RoomIds |-> [u \in Users |-> 0]]
    BY <1>12 DEF Hour, NextHour
  <2>2. \A r \in RoomIds : ToldRoom(r)'
    <3>1. CASE now'.day = now.day
      BY <1>i, <2>1, <3>1 DEF ToldRoom, Quiet, Live
    <3>2. CASE now'.day # now.day
      <4>1. \A r \in RoomIds, u \in Users : told'[r][u] = 0
        BY <2>1, <3>2
      <4> QED
        BY <1>n, <2>1, <4>1 DEF ToldRoom, Quiet
    <3> QED
      BY <3>1, <3>2
  <2> QED
    BY <2>1, <2>2 DEF ToldInv, Nothing
<1> QED
  BY <1>1, <1>2, <1>4, <1>5, <1>6, <1>7, <1>8, <1>9, <1>10, <1>11, <1>12 DEF BillNext

(***************************************************************************)
(* The billing day and the day before.                                     *)
(***************************************************************************)
EveOf(d) == [day |-> d, hour |-> reminderHour]

\* The room's billing day stood before the reminder of day d.
StoodOn(r, d) == Live(r) /\ Before(settled[r], EveOf(d))

\* The reminders of today are over for r.
EveOver(r) ==
  \/ now.hour > reminderHour
  \/ now.hour = reminderHour /\ "reminder" \notin pending /\ r \notin DOMAIN reminding

SettledKnown(r) == Live(r) => settled[r] # NULL

StampedToday(r) ==
  /\ faults = 0 /\ StoodOn(r, now.day)
  /\ billsTomorrow(room[r].billing, now.day) /\ EveOver(r)
  => room[r].billReminded = EveOf(now.day)

StampedYesterday(r) ==
  faults = 0 /\ StoodOn(r, now.day - 1) /\ DueOn(room[r].billing, now.day)
  => room[r].billReminded = EveOf(now.day - 1)

\* What the workers' copies say of the rows still holds, or was changed this hour.
RemindsForTomorrow(r) ==
  r \in DOMAIN reminding =>
    /\ now.hour = reminderHour
    /\ Live(r) => billsTomorrow(room[r].billing, now.day) \/ settled[r] = now
CopyHolds(r) ==
  r \in DOMAIN resetting /\ Live(r) => resetting[r].billing = room[r].billing \/ settled[r] = now

\* When the stamps can have been written.
ReminderStamp(r) ==
  Live(r) /\ room[r].billReminded # NULL =>
    room[r].billReminded.hour = reminderHour /\ room[r].billReminded.day <= now.day
ResetStamp(r) ==
  Live(r) /\ room[r].resetAt # NULL =>
    room[r].resetAt.hour < ResetHours /\ Elapsed(room[r].resetAt, now) >= 0
ResetWasDue(r) ==
  Live(r) /\ room[r].resetAt = now => DueOn(room[r].billing, now.day) \/ settled[r] = now

EveRoom(r) ==
  /\ SettledKnown(r) /\ StampedToday(r) /\ StampedYesterday(r)
  /\ RemindsForTomorrow(r) /\ CopyHolds(r)
  /\ ReminderStamp(r) /\ ResetStamp(r) /\ ResetWasDue(r)

EveInv == BillTypeOK /\ \A r \in RoomIds : EveRoom(r)

\* Types of what the invariants below compare.
LEMMA EveFacts ==
  ASSUME BillTypeOK, NEW r \in RoomIds
  PROVE  /\ now \in Moments /\ now # NULL /\ now.day \in Nat /\ now.hour \in 0 .. HoursPerDay - 1
         /\ settled[r] # NULL => /\ settled[r] \in Moments /\ settled[r].day \in Nat
                                 /\ settled[r].hour \in 0 .. HoursPerDay - 1
         /\ Live(r) => /\ room[r] \in RoomRows /\ room[r].billing \in Nat \ {0}
                       /\ room[r].resetAt \in Moments \cup {NULL}
                       /\ room[r].billReminded \in Moments \cup {NULL}
         /\ reminderHour \in Nat /\ HoursPerDay \in Nat \ {0} /\ ResetHours \in Nat
<1>1. RoomTypeOK
  BY DEF BillTypeOK
<1>2. now \in Moments /\ now # NULL /\ (settled[r] # NULL => settled[r] \in Moments)
  BY <1>1, RowAssumption DEF BillTypeOK, RoomTypeOK
<1>3. \A t \in Moments : t.day \in Nat /\ t.hour \in 0 .. HoursPerDay - 1
  <2> SUFFICES ASSUME NEW t \in Moments PROVE t.day \in Nat /\ t.hour \in 0 .. HoursPerDay - 1
    OBVIOUS
  <2>1. t.day \in Days /\ t.hour \in 0 .. HoursPerDay - 1
    BY DEF Moments
  <2> QED
    BY <2>1, DaysAreNumbers, Zenon
<1>4. Live(r) => /\ room[r] \in RoomRows /\ room[r].billing \in BillingDays
                 /\ room[r].resetAt \in Moments \cup {NULL}
                 /\ room[r].billReminded \in Moments \cup {NULL}
  BY <1>1, RoomRowInType DEF RoomRows
<1>5. reminderHour \in Nat /\ HoursPerDay \in Nat \ {0} /\ ResetHours \in Nat
  BY RoomAssumption, BillingAssumption
<1> QED
  BY <1>2, <1>3, <1>4, <1>5, RoomAssumption

\* A moment is not before the reminder of the day before, nor, once its hour has
\* come, before that of its own day.
LEMMA NowIsNotBefore ==
  ASSUME BillTypeOK
  PROVE  ~Before(now, EveOf(now.day - 1)) /\ (now.hour >= reminderHour => ~Before(now, EveOf(now.day)))
<1>1. now \in Moments /\ now.day \in Nat /\ now.hour \in 0 .. HoursPerDay - 1
  <2>1. now \in Moments
    BY DEF BillTypeOK, RoomTypeOK
  <2>2. now.day \in Days /\ now.hour \in 0 .. HoursPerDay - 1
    BY <2>1 DEF Moments
  <2> QED
    BY <2>1, <2>2, DaysAreNumbers, Zenon
<1> QED
  BY <1>1, BillingAssumption, RoomAssumption DEF Before, EveOf

\* A stamp of the reminder hour, seen at that hour within a day, is of today.
LEMMA RecentIsToday ==
  ASSUME NEW t \in Moments, now \in Moments, now.hour = reminderHour, t.hour = reminderHour,
         t.day <= now.day, ~(Elapsed(t, now) > HoursPerDay - 1)
  PROVE  t = EveOf(now.day)
<1>1. t.day \in Days /\ now.day \in Days
  BY DEF Moments
<1>2. t.day \in Nat /\ now.day \in Nat
  BY <1>1, DaysAreNumbers, Zenon
<1>3. HoursPerDay \in Nat \ {0} /\ reminderHour \in Nat
  BY RoomAssumption, BillingAssumption
<1>4. ASSUME t.day < now.day PROVE FALSE
  <2>1. PICK k \in Nat : now.day - t.day = k + 1
    <3>1. now.day - t.day - 1 \in Nat /\ now.day - t.day = (now.day - t.day - 1) + 1
      BY <1>2, <1>4
    <3> QED
      BY <3>1
  <2>2. HoursPerDay * (k + 1) = HoursPerDay * k + HoursPerDay /\ HoursPerDay * k >= 0
    BY <1>3, <2>1
  <2>3. HoursPerDay * (now.day - t.day) >= HoursPerDay
    BY <1>3, <2>1, <2>2
  <2> QED
    BY <1>2, <1>3, <2>3 DEF Elapsed
<1>5. t.day = now.day
  BY <1>2, <1>4
<1> QED
  BY <1>5 DEF Moments, EveOf

\* A step that leaves the stamps of r, its billing day and the clock alone, and
\* starts no tick on r.
LEMMA EveKept ==
  ASSUME BillTypeOK, NEW r \in RoomIds, EveRoom(r), now' = now,
         Live(r)' => /\ Live(r) /\ settled'[r] = settled[r]
                     /\ room'[r].billing = room[r].billing
                     /\ room'[r].resetAt = room[r].resetAt
                     /\ room'[r].billReminded = room[r].billReminded,
         r \in DOMAIN reminding' => r \in DOMAIN reminding,
         r \in DOMAIN resetting' => r \in DOMAIN resetting /\ resetting'[r] = resetting[r],
         faults' = 0 => faults = 0 /\ (EveOver(r)' => EveOver(r))
  PROVE  EveRoom(r)'
<1>1. SettledKnown(r)'
  BY DEF EveRoom, SettledKnown
<1>2. \A d \in Int : StoodOn(r, d)' => StoodOn(r, d)
  BY DEF StoodOn, Before, EveOf
<1>3. now.day \in Int /\ now.day - 1 \in Int
  BY EveFacts
<1>4. StampedToday(r)'
  BY <1>2, <1>3 DEF EveRoom, StampedToday, StoodOn, EveOf, billsTomorrow
<1>5. StampedYesterday(r)'
  BY <1>2, <1>3 DEF EveRoom, StampedYesterday, StoodOn, EveOf, DueOn
<1>6. RemindsForTomorrow(r)' /\ CopyHolds(r)'
  BY DEF EveRoom, RemindsForTomorrow, CopyHolds, billsTomorrow
<1>7. ReminderStamp(r)' /\ ResetStamp(r)' /\ ResetWasDue(r)'
  BY DEF EveRoom, ReminderStamp, ResetStamp, ResetWasDue, Elapsed, DueOn
<1> QED
  BY <1>1, <1>4, <1>5, <1>6, <1>7 DEF EveRoom

\* Every step keeps EveInv.
LEMMA EveStep ==
  ASSUME EveInv, BillTypeOK', BillNext
  PROVE  EveInv'
<1> USE DEF accountVars, tableVars
<1>0. BillTypeOK /\ RoomTypeOK
  BY DEF EveInv, BillTypeOK
<1>i. \A r \in RoomIds : EveRoom(r)
  BY DEF EveInv
<1>n. DOMAIN Nothing = {}
  BY DEF Nothing
<1>t. now.day \in Int /\ now.day - 1 \in Int /\ now # NULL /\ now.hour \in Int /\ reminderHour \in Int
      /\ now \in Moments /\ faults \in Nat
  <2>1. now \in Moments /\ faults \in Nat /\ now # NULL
    BY <1>0, RowAssumption DEF BillTypeOK, RoomTypeOK
  <2>2. now.day \in Days /\ now.hour \in 0 .. HoursPerDay - 1
    BY <2>1 DEF Moments
  <2>3. now.day \in Nat
    BY <2>2, DaysAreNumbers, Zenon
  <2> QED
    BY <2>1, <2>2, <2>3, BillingAssumption, RoomAssumption
<1>1. CASE RequestStep
  <2>1. /\ now' = now /\ UNCHANGED <<pending, resetting, reminding, faults>>
        /\ \A r \in RoomIds :
             /\ KeepsStamps(r)
             /\ settled'[r] \in {settled[r], now}
             /\ room'[r] # NULL /\ settled'[r] # now =>
                  Live(r) /\ room'[r].billing = room[r].billing /\ settled'[r] = settled[r]
    BY <1>0, <1>1, RequestsSettle DEF workerVars
  <2>2. \A r \in RoomIds : EveRoom(r)'
    <3> SUFFICES ASSUME NEW r \in RoomIds PROVE EveRoom(r)'
      OBVIOUS
    <3>1. EveOver(r)' <=> EveOver(r)
      BY <2>1 DEF EveOver
    <3>2. Live(r)' => IF Live(r) THEN /\ room'[r].resetAt = room[r].resetAt
                                      /\ room'[r].billReminded = room[r].billReminded
                                 ELSE room'[r].resetAt = NULL /\ room'[r].billReminded = NULL
      BY <2>1 DEF KeepsStamps, Live
    <3>3. CASE Live(r)' /\ settled'[r] = now
      <4>1. SettledKnown(r)' /\ CopyHolds(r)' /\ ResetWasDue(r)'
        BY <1>t, <2>1, <3>3 DEF SettledKnown, CopyHolds, ResetWasDue
      <4>2. RemindsForTomorrow(r)'
        BY <1>i, <2>1, <3>3 DEF EveRoom, RemindsForTomorrow
      <4>3. ~StoodOn(r, now.day - 1)' /\ (EveOver(r) => ~StoodOn(r, now.day)')
        BY <1>0, <1>t, <2>1, <3>3, NowIsNotBefore DEF StoodOn, Before, EveOf, EveOver
      <4>4. StampedToday(r)' /\ StampedYesterday(r)'
        BY <2>1, <3>1, <4>3 DEF StampedToday, StampedYesterday
      <4>5. ReminderStamp(r)' /\ ResetStamp(r)'
        BY <1>i, <2>1, <3>2 DEF EveRoom, ReminderStamp, ResetStamp, Live, Elapsed
      <4> QED
        BY <4>1, <4>2, <4>4, <4>5 DEF EveRoom
    <3>4. CASE ~(Live(r)' /\ settled'[r] = now)
      <4>1. Live(r)' => /\ Live(r) /\ settled'[r] = settled[r]
                        /\ room'[r].billing = room[r].billing
                        /\ room'[r].resetAt = room[r].resetAt
                        /\ room'[r].billReminded = room[r].billReminded
        BY <2>1, <3>2, <3>4 DEF Live
      <4> QED
        BY <1>0, <1>i, <2>1, <3>1, <4>1, EveKept
    <3> QED
      BY <3>3, <3>4
  <2> QED
    BY <2>2 DEF EveInv
\* Steps of the workers that only shorten their lists, or stop.
<1>2. ASSUME UNCHANGED <<now, room, settled>>,
             \A r \in DOMAIN reminding' : r \in DOMAIN reminding,
             \A r \in DOMAIN resetting' : r \in DOMAIN resetting /\ resetting'[r] = resetting[r],
             faults' = 0 => faults = 0 /\ \A r \in RoomIds : EveOver(r)' => EveOver(r)
      PROVE  EveInv'
  <2>1. \A r \in RoomIds : EveRoom(r)'
    BY <1>0, <1>i, <1>2, EveKept DEF Live
  <2> QED
    BY <2>1 DEF EveInv
<1>f. Fault => faults' # 0
  BY <1>t DEF Fault
<1>3. CASE ResetRead
  <2>1. /\ UNCHANGED <<now, room, settled, reminding, faults>>
        /\ "reminder" \in pending' <=> "reminder" \in pending
        /\ \A r \in DOMAIN resetting' : resetting'[r] = room[r]
    BY <1>3 DEF ResetRead, roomVars
  <2>2. \A r \in RoomIds : EveRoom(r)'
    <3> SUFFICES ASSUME NEW r \in RoomIds PROVE EveRoom(r)'
      OBVIOUS
    <3>1. EveOver(r)' <=> EveOver(r)
      BY <2>1 DEF EveOver
    <3>2. CopyHolds(r)'
      BY <2>1 DEF CopyHolds
    <3>3. SettledKnown(r)' /\ StampedToday(r)' /\ StampedYesterday(r)' /\ RemindsForTomorrow(r)'
      BY <1>i, <2>1, <3>1 DEF EveRoom, SettledKnown, StampedToday, StampedYesterday, StoodOn,
           RemindsForTomorrow, Live, Before, EveOf
    <3>4. ReminderStamp(r)' /\ ResetStamp(r)' /\ ResetWasDue(r)'
      BY <1>i, <2>1 DEF EveRoom, ReminderStamp, ResetStamp, ResetWasDue, Live, Elapsed
    <3> QED
      BY <3>2, <3>3, <3>4 DEF EveRoom
  <2> QED
    BY <2>2 DEF EveInv
<1>4. ASSUME NEW r \in RoomIds, ResetRoom(r) PROVE EveInv'
  <2>1. /\ UNCHANGED <<now, settled, pending, reminding, faults>>
        /\ r \in DOMAIN resetting /\ resetting' = Without(resetting, r)
    BY <1>4 DEF ResetRoom
  <2>2. /\ DOMAIN resetting' = DOMAIN resetting \ {r}
        /\ \A q \in DOMAIN resetting' : resetting'[q] = resetting[q]
    BY <2>1 DEF Without
  <2>3. \A q \in RoomIds : EveOver(q)' <=> EveOver(q)
    BY <2>1 DEF EveOver
  <2>4. /\ KeepsRow(r)
        /\ \A q \in RoomIds \ {r} : room'[q] = room[q]
        /\ Live(r) => room'[r].billReminded = room[r].billReminded
    BY <1>0, <1>4, ResetKeepsRows
  <2>5. \A q \in RoomIds \ {r} : EveRoom(q)'
    <3> SUFFICES ASSUME NEW q \in RoomIds \ {r} PROVE EveRoom(q)'
      OBVIOUS
    <3>1. q \in RoomIds /\ room'[q] = room[q]
      BY <2>4
    <3> QED
      BY <1>0, <1>i, <2>1, <2>2, <2>3, <3>1, EveKept DEF Live
  <2>6. EveRoom(r)'
    <3>1. Live(r)' <=> Live(r)
      BY <2>4 DEF KeepsRow, Live
    <3>2. CASE Live(r) /\ room'[r].resetAt # room[r].resetAt
      <4>1. /\ room'[r].resetAt = now /\ roomDueForResetNow(resetting[r])
            /\ room'[r].billing = room[r].billing
            /\ room'[r].billReminded = room[r].billReminded
        BY <2>4, <3>2 DEF KeepsRow
      <4>2. SettledKnown(r)' /\ CopyHolds(r)'
        BY <1>i, <2>1, <2>2, <3>2 DEF EveRoom, SettledKnown, CopyHolds
      <4>3. StampedToday(r)' /\ StampedYesterday(r)'
        BY <1>i, <2>1, <2>3, <3>2, <4>1
           DEF EveRoom, StampedToday, StampedYesterday, StoodOn, Before, EveOf, DueOn, billsTomorrow
      <4>4. RemindsForTomorrow(r)' /\ ReminderStamp(r)'
        BY <1>i, <2>1, <3>1, <3>2, <4>1
           DEF EveRoom, RemindsForTomorrow, ReminderStamp, billsTomorrow
      <4>5. now.hour < ResetHours /\ Elapsed(now, now) = 0
        BY <1>t, <4>1, ElapsedAdds DEF roomDueForResetNow
      <4>6. ResetStamp(r)'
        BY <2>1, <4>1, <4>5 DEF ResetStamp, Elapsed
      <4>7. DueOn(room[r].billing, now.day) \/ settled[r] = now
        BY <1>i, <2>1, <3>2, <4>1 DEF EveRoom, CopyHolds, roomDueForResetNow
      <4>8. ResetWasDue(r)'
        BY <2>1, <4>1, <4>7 DEF ResetWasDue, DueOn
      <4> QED
        BY <4>2, <4>3, <4>4, <4>6, <4>8 DEF EveRoom
    <3>3. CASE ~(Live(r) /\ room'[r].resetAt # room[r].resetAt)
      <4>1. Live(r)' => /\ Live(r) /\ settled'[r] = settled[r]
                        /\ room'[r].billing = room[r].billing
                        /\ room'[r].resetAt = room[r].resetAt
                        /\ room'[r].billReminded = room[r].billReminded
        BY <2>1, <2>4, <3>1, <3>3 DEF KeepsRow
      <4> QED
        BY <1>0, <1>i, <2>1, <2>2, <2>3, <4>1, EveKept
    <3> QED
      BY <3>2, <3>3
  <2> QED
    BY <2>5, <2>6 DEF EveInv
<1>5. ASSUME NEW r \in RoomIds, ResetRoomFails(r) PROVE EveInv'
  <2>1. /\ UNCHANGED <<now, room, settled, reminding>> /\ faults' # 0
        /\ resetting' = Without(resetting, r)
    BY <1>5, <1>f DEF ResetRoomFails, roomVars
  <2> QED
    BY <1>2, <2>1 DEF Without
<1>6. CASE RemindRead
  <2>1. /\ UNCHANGED <<now, room, settled, resetting, faults>>
        /\ "reminder" \notin pending'
        /\ now.hour # reminderHour => reminding' = Nothing
        /\ now.hour = reminderHour =>
             DOMAIN reminding' = {v \in RoomIds : /\ Live(v) /\ Stale(room[v].billReminded)
                                                  /\ billsTomorrow(room[v].billing, now.day)}
    BY <1>6 DEF RemindRead, roomVars
  <2>2. \A r \in RoomIds : EveRoom(r)'
    <3> SUFFICES ASSUME NEW r \in RoomIds PROVE EveRoom(r)'
      OBVIOUS
    <3>1. StampedToday(r)'
      <4> SUFFICES ASSUME faults = 0, StoodOn(r, now.day),
                          billsTomorrow(room[r].billing, now.day), EveOver(r)'
                   PROVE  room[r].billReminded = EveOf(now.day)
        BY <2>1 DEF StampedToday, StoodOn, Live, Before, EveOf
      <4>1. CASE now.hour > reminderHour
        BY <1>i, <4>1 DEF EveRoom, StampedToday, EveOver
      <4>2. CASE now.hour = reminderHour
        <5> DEFINE t == room[r].billReminded
        <5>1. r \in RoomIds /\ Live(r) /\ r \notin DOMAIN reminding'
          BY <1>t, <2>1, <4>2 DEF EveOver, StoodOn
        <5>2. ~Stale(t)
          BY <2>1, <4>2, <5>1
        <5>3. t \in Moments /\ t.hour = reminderHour /\ t.day <= now.day
              /\ ~(Elapsed(t, now) > HoursPerDay - 1)
          BY <1>0, <1>i, <5>1, <5>2, EveFacts DEF EveRoom, ReminderStamp, Stale
        <5> HIDE DEF t
        <5>4. t = EveOf(now.day)
          BY <1>t, <4>2, <5>3, RecentIsToday
        <5> QED
          BY <5>4 DEF t
      <4>3. now.hour >= reminderHour
        BY <1>t, <2>1 DEF EveOver
      <4> QED
        BY <1>t, <4>1, <4>2, <4>3
    <3>2. RemindsForTomorrow(r)'
      BY <1>n, <2>1 DEF RemindsForTomorrow
    <3>3. SettledKnown(r)' /\ StampedYesterday(r)' /\ CopyHolds(r)'
      BY <1>i, <2>1 DEF EveRoom, SettledKnown, StampedYesterday, StoodOn,
           CopyHolds, Live, Before, EveOf
    <3>4. ReminderStamp(r)' /\ ResetStamp(r)' /\ ResetWasDue(r)'
      BY <1>i, <2>1 DEF EveRoom, ReminderStamp, ResetStamp, ResetWasDue, Live, Elapsed
    <3> QED
      BY <3>1, <3>2, <3>3, <3>4 DEF EveRoom
  <2> QED
    BY <2>2 DEF EveInv
<1>7. ASSUME NEW r \in RoomIds, NEW u \in Users, NEW ok \in BOOLEAN, TellMember(r, u, ok)
      PROVE  EveInv'
  <2>1. /\ UNCHANGED <<now, room, settled, pending, resetting, faults>>
        /\ DOMAIN reminding' = DOMAIN reminding
    BY <1>7 DEF TellMember, roomVars
  <2>2. \A q \in RoomIds : EveOver(q)' <=> EveOver(q)
    BY <2>1 DEF EveOver
  <2> QED
    BY <1>2, <2>1, <2>2
<1>8. ASSUME NEW r \in RoomIds, StampRoom(r) PROVE EveInv'
  <2>1. /\ UNCHANGED <<now, settled, pending, resetting, faults>>
        /\ r \in DOMAIN reminding /\ reminding' = Without(reminding, r)
    BY <1>8 DEF StampRoom
  <2>2. DOMAIN reminding' = DOMAIN reminding \ {r}
    BY <2>1 DEF Without
  <2>3. \A q \in RoomIds \ {r} : EveOver(q)' <=> EveOver(q)
    BY <2>1, <2>2 DEF EveOver
  <2>4. /\ KeepsRow(r)
        /\ \A q \in RoomIds \ {r} : room'[q] = room[q]
        /\ Live(r) => room'[r].resetAt = room[r].resetAt /\ room'[r].billReminded = now
    BY <1>0, <1>8, StampKeepsRows
  <2>5. \A q \in RoomIds \ {r} : EveRoom(q)'
    <3> SUFFICES ASSUME NEW q \in RoomIds \ {r} PROVE EveRoom(q)'
      OBVIOUS
    <3>1. q \in RoomIds /\ room'[q] = room[q]
      BY <2>4
    <3> QED
      BY <1>0, <1>i, <2>1, <2>2, <2>3, <3>1, EveKept DEF Live
  <2>6. EveRoom(r)'
    <3>1. Live(r)' <=> Live(r)
      BY <2>4 DEF KeepsRow, Live
    <3>2. now = EveOf(now.day)
      <4>1. now.hour = reminderHour
        BY <1>i, <2>1 DEF EveRoom, RemindsForTomorrow
      <4> QED
        BY <1>t, <4>1 DEF Moments, EveOf
    <3>3. CASE Live(r)
      <4>1. /\ room'[r].billing = room[r].billing /\ room'[r].resetAt = room[r].resetAt
            /\ room'[r].billReminded = now
        BY <2>4, <3>3 DEF KeepsRow
      <4>2. SettledKnown(r)' /\ CopyHolds(r)' /\ RemindsForTomorrow(r)'
        BY <1>i, <2>1, <2>2, <3>3, <4>1
           DEF EveRoom, SettledKnown, CopyHolds, RemindsForTomorrow
      <4>3. StampedToday(r)'
        BY <2>1, <3>2, <4>1 DEF StampedToday, EveOf
      <4>4. StampedYesterday(r)'
        <5>1. ~(StoodOn(r, now.day - 1) /\ DueOn(room[r].billing, now.day))
          <6> SUFFICES ASSUME StoodOn(r, now.day - 1), DueOn(room[r].billing, now.day) PROVE FALSE
            OBVIOUS
          <6>1. settled[r] # now
            BY <1>0, NowIsNotBefore DEF StoodOn
          <6>2. billsTomorrow(room[r].billing, now.day)
            BY <1>i, <2>1, <3>3, <6>1 DEF EveRoom, RemindsForTomorrow
          <6>3. now.day \in Nat /\ now.day \in Days /\ room[r].billing \in Nat \ {0}
            BY <1>0, <1>t, <3>3, EveFacts DEF Moments
          <6>4. settled[r].day \in Nat
            BY <1>0, <1>i, <3>3, EveFacts DEF EveRoom, SettledKnown
          <6>5. now.day - 1 \in Days
            <7>1. settled[r].day <= now.day - 1
              BY <1>t, <6>4 DEF StoodOn, Before, EveOf
            <7> QED
              BY <6>3, <6>4, <7>1, DaysAreNumbers DEF Days
          <6> QED
            BY <6>2, <6>3, <6>5, NeverDueTwice
        <5>2. ~(StoodOn(r, now.day - 1)' /\ DueOn(room[r].billing, now.day)')
          BY <2>1, <3>1, <4>1, <5>1 DEF StoodOn, Before, EveOf, DueOn
        <5> QED
          BY <5>2 DEF StampedYesterday
      <4>5. ReminderStamp(r)'
        BY <1>t, <2>1, <3>2, <4>1 DEF ReminderStamp, EveOf
      <4>6. ResetStamp(r)' /\ ResetWasDue(r)'
        BY <1>i, <2>1, <3>3, <4>1 DEF EveRoom, ResetStamp, ResetWasDue, Elapsed, DueOn
      <4> QED
        BY <4>2, <4>3, <4>4, <4>5, <4>6 DEF EveRoom
    <3>4. CASE ~Live(r)
      BY <1>i, <2>1, <2>2, <3>1, <3>4 DEF EveRoom, SettledKnown, StampedToday, StampedYesterday, StoodOn,
         RemindsForTomorrow, CopyHolds, ReminderStamp, ResetStamp, ResetWasDue
    <3> QED
      BY <3>3, <3>4
  <2> QED
    BY <2>5, <2>6 DEF EveInv
<1>9. ASSUME NEW r \in RoomIds, StampFails(r) PROVE EveInv'
  <2>1. /\ UNCHANGED <<now, room, settled, resetting>> /\ faults' # 0
        /\ reminding' = Without(reminding, r)
    BY <1>9, <1>f DEF StampFails, roomVars
  <2> QED
    BY <1>2, <2>1 DEF Without
<1>10. CASE Shutdown
  <2>1. /\ UNCHANGED <<now, room, settled, faults>>
        /\ pending' = Workers /\ resetting' = Nothing /\ reminding' = Nothing
    BY <1>10 DEF Shutdown, roomVars
  <2>2. \A r \in RoomIds : EveOver(r)' => EveOver(r)
    BY <2>1 DEF EveOver, Workers
  <2> QED
    BY <1>2, <1>n, <2>1, <2>2
<1>11. CASE CrashRestart
  <2>1. /\ UNCHANGED <<now, room, settled>> /\ faults' # 0
        /\ resetting' = Nothing /\ reminding' = Nothing
    BY <1>11, <1>f DEF CrashRestart, roomVars
  <2> QED
    BY <1>2, <1>n, <2>1
<1>12. ASSUME NEW w \in Workers, MissTick(w) PROVE EveInv'
  <2>1. UNCHANGED <<now, room, settled, resetting, reminding>> /\ faults' # 0
    BY <1>12, <1>f DEF MissTick, roomVars
  <2> QED
    BY <1>2, <2>1
<1>13. CASE Hour
  <2>1. /\ pending = {} /\ resetting = Nothing /\ reminding = Nothing
        /\ UNCHANGED <<room, settled, resetting, reminding, faults>>
        /\ pending' = Workers
        /\ now' = NextMoment /\ NextMoment.day \in Days
    BY <1>13 DEF Hour, NextHour
  <2>2. now' \in Moments /\ now.hour \in 0 .. HoursPerDay - 1
    BY <1>0, <1>t, <2>1, MomentsInType DEF Moments
  <2>3. \/ now'.day = now.day /\ now'.hour = now.hour + 1
        \/ now'.day = now.day + 1 /\ now'.hour = 0 /\ now.hour = HoursPerDay - 1
    BY <1>t, <2>1, <2>2, RoomAssumption DEF NextMoment
  <2>4. \A r \in RoomIds : EveRoom(r)'
    <3> SUFFICES ASSUME NEW r \in RoomIds PROVE EveRoom(r)'
      OBVIOUS
    <3>1. SettledKnown(r)' /\ RemindsForTomorrow(r)' /\ CopyHolds(r)'
      BY <1>i, <1>n, <2>1 DEF EveRoom, SettledKnown, RemindsForTomorrow, CopyHolds, Live
    <3>2. ReminderStamp(r)'
      <4>1. Live(r) /\ room[r].billReminded # NULL =>
              /\ room[r].billReminded.hour = reminderHour /\ room[r].billReminded.day <= now.day
              /\ room[r].billReminded.day \in Int
        <5>1. Live(r) /\ room[r].billReminded # NULL => room[r].billReminded \in Moments
          BY <1>0, EveFacts
        <5>2. \A t \in Moments : t.day \in Int
          BY DaysAreNumbers DEF Moments, Days
        <5> QED
          BY <1>i, <5>1, <5>2 DEF EveRoom, ReminderStamp
      <4>2. now.day <= now'.day /\ now'.day \in Int
        BY <1>t, <2>3
      <4> QED
        BY <1>t, <2>1, <4>1, <4>2 DEF ReminderStamp, Live
    <3>3. Live(r) /\ room[r].resetAt # NULL =>
            /\ room[r].resetAt.hour < ResetHours
            /\ Elapsed(room[r].resetAt, now') = Elapsed(room[r].resetAt, now) + 1
            /\ Elapsed(room[r].resetAt, now) \in Int /\ Elapsed(room[r].resetAt, now) >= 0
      <4>1. Live(r) /\ room[r].resetAt # NULL => room[r].resetAt \in Moments
        BY <1>0, EveFacts
      <4> QED
        BY <1>0, <1>i, <1>t, <2>1, <4>1, ElapsedAdds, ElapsedGrows DEF EveRoom, ResetStamp
    <3>4. ResetStamp(r)'
      BY <2>1, <3>3 DEF ResetStamp, Live, Elapsed
    <3>5. ResetWasDue(r)'
      <4>1. Elapsed(now', now') = 0 /\ now' # NULL
        BY <2>2, ElapsedAdds, RowAssumption
      <4>2. ~(Live(r) /\ room[r].resetAt = now')
        BY <3>3, <4>1
      <4> QED
        BY <2>1, <4>2 DEF ResetWasDue, Live
    <3>6. CASE now'.day = now.day
      <4>1. EveOver(r)' => EveOver(r)
        BY <1>t, <1>n, <2>1, <2>3, <3>6 DEF EveOver, Workers
      <4> QED
        BY <1>i, <2>1, <3>1, <3>2, <3>4, <3>5, <3>6, <4>1
           DEF EveRoom, StampedToday, StampedYesterday, StoodOn, Live, Before, EveOf
    <3>7. CASE now'.day # now.day
      <4>1. now'.day - 1 = now.day /\ now'.day = now.day + 1 /\ now'.hour = 0
            /\ now.hour = HoursPerDay - 1
        BY <1>t, <2>3, <3>7
      <4>2. StampedToday(r)'
        <5>1. ~EveOver(r)'
          BY <1>t, <2>1, <4>1, BillingAssumption DEF EveOver, Workers
        <5> QED
          BY <5>1 DEF StampedToday
      <4>3. EveOver(r)
        BY <1>t, <1>n, <2>1, <4>1, BillingAssumption, RoomAssumption DEF EveOver
      <4>4. Live(r) /\ DueOn(room[r].billing, now.day + 1) => billsTomorrow(room[r].billing, now.day)
        BY <1>0, <1>t, EveFacts, ReminderAndResetAgree DEF Moments
      <4>5. faults = 0 /\ StoodOn(r, now.day) /\ DueOn(room[r].billing, now.day + 1)
            => room[r].billReminded = EveOf(now.day)
        BY <1>i, <4>3, <4>4 DEF EveRoom, StampedToday, StoodOn
      <4>6. StampedYesterday(r)'
        BY <2>1, <4>1, <4>5 DEF StampedYesterday, StoodOn, Live, Before, EveOf, DueOn
      <4> QED
        BY <3>1, <3>2, <3>4, <3>5, <4>2, <4>6 DEF EveRoom
    <3> QED
      BY <3>6, <3>7
  <2> QED
    BY <2>4 DEF EveInv
<1> QED
  BY <1>1, <1>3, <1>4, <1>5, <1>6, <1>7, <1>8, <1>9, <1>10, <1>11, <1>12, <1>13 DEF BillNext

(***************************************************************************)
(* The window after midnight.                                              *)
(***************************************************************************)
\* The reset tick of this hour, and of the first n hours of the day, is over for r.
TickOver(r) == "reset" \notin pending /\ r \notin DOMAIN resetting
TicksOver(r, n) == now.hour >= n \/ (now.hour = n - 1 /\ TickOver(r))

DueToday(r) == Live(r) /\ DueOn(room[r].billing, now.day) /\ settled[r].day < now.day
ResetOn(r, D) == room[r].resetAt # NULL /\ room[r].resetAt.day \in D
Recently == {now.day - 1, now.day}

\* A tick leaves a room that is due reset today or yesterday; the last tick of the
\* window, reset today.  One fault costs one tick.
WindowRoom(r) ==
  DueToday(r) =>
    /\ faults = 0 /\ TicksOver(r, 1) => ResetOn(r, Recently)
    /\ faults = 0 /\ TicksOver(r, ResetHours) => ResetOn(r, {now.day})
    /\ faults = 1 /\ TicksOver(r, 2) => ResetOn(r, Recently)

WindowInv == EveInv /\ \A r \in RoomIds : WindowRoom(r)

\* A room whose stamp is not stale was reset today or yesterday; seen in the last
\* hour of the window or later, today.
LEMMA NotStaleIsRecent ==
  ASSUME BillTypeOK, NEW r \in RoomIds, Live(r), ResetStamp(r), ~Stale(room[r].resetAt)
  PROVE  /\ ResetOn(r, Recently)
         /\ now.hour >= ResetHours - 1 => ResetOn(r, {now.day})
<1> DEFINE t == room[r].resetAt
<1>1. t # NULL /\ ~(Elapsed(t, now) > HoursPerDay - 1)
  BY DEF Stale
<1>2. t.hour < ResetHours /\ Elapsed(t, now) >= 0
  BY <1>1 DEF ResetStamp
<1>3. t \in Moments /\ now \in Moments
  BY <1>1, EveFacts
<1> HIDE DEF t
<1>4. /\ t.day \in Days /\ now.day \in Days
      /\ t.hour \in 0 .. HoursPerDay - 1 /\ now.hour \in 0 .. HoursPerDay - 1
  BY <1>3 DEF Moments
<1>5. t.day \in Nat /\ now.day \in Nat
  BY <1>4, DaysAreNumbers, Zenon
<1>6. HoursPerDay \in Nat \ {0} /\ ResetHours \in Nat
  BY RoomAssumption, BillingAssumption
<1>7. ASSUME now.day < t.day PROVE FALSE
  <2>1. PICK k \in Nat : t.day - now.day = k + 1
    <3>1. t.day - now.day - 1 \in Nat /\ t.day - now.day = (t.day - now.day - 1) + 1
      BY <1>5, <1>7
    <3> QED
      BY <3>1
  <2>2. HoursPerDay * (now.day - t.day) = 0 - HoursPerDay * k - HoursPerDay /\ HoursPerDay * k >= 0
    <3>1. now.day - t.day = 0 - k - 1
      BY <1>5, <2>1
    <3> QED
      BY <1>6, <2>1, <3>1
  <2> QED
    BY <1>2, <1>4, <1>6, <2>1, <2>2 DEF Elapsed
<1>8. ASSUME t.day < now.day - 1 PROVE FALSE
  <2>1. PICK k \in Nat : now.day - t.day = k + 2
    <3>1. now.day - t.day - 2 \in Nat /\ now.day - t.day = (now.day - t.day - 2) + 2
      BY <1>5, <1>8
    <3> QED
      BY <3>1
  <2>2. HoursPerDay * (now.day - t.day) = HoursPerDay * k + HoursPerDay + HoursPerDay /\ HoursPerDay * k >= 0
    BY <1>6, <2>1
  <2> QED
    BY <1>1, <1>4, <1>6, <2>1, <2>2 DEF Elapsed
<1>9. ASSUME t.day = now.day - 1, now.hour >= ResetHours - 1 PROVE FALSE
  <2>1. HoursPerDay * (now.day - t.day) = HoursPerDay
    <3>1. now.day - t.day = 1
      BY <1>5, <1>9
    <3> QED
      BY <1>6, <3>1
  <2> QED
    BY <1>1, <1>2, <1>4, <1>6, <1>9, <2>1 DEF Elapsed
<1>10. t.day \in Recently /\ (now.hour >= ResetHours - 1 => t.day = now.day)
  BY <1>5, <1>7, <1>8, <1>9 DEF Recently
<1> QED
  BY <1>1, <1>10 DEF ResetOn, t

\* A step that leaves the reset stamp of r, its billing day and the clock alone, and
\* ends no tick on r, unless by a fault.
LEMMA WindowKept ==
  ASSUME BillTypeOK, BillTypeOK', NEW r \in RoomIds, WindowRoom(r), now' = now,
         DueToday(r)' => DueToday(r) /\ room'[r].resetAt = room[r].resetAt,
         \/ faults' = faults /\ (TickOver(r)' => TickOver(r))
         \/ faults' = faults + 1
  PROVE  WindowRoom(r)'
<1> SUFFICES ASSUME DueToday(r)'
             PROVE  /\ faults' = 0 /\ TicksOver(r, 1)' => ResetOn(r, Recently)'
                    /\ faults' = 0 /\ TicksOver(r, ResetHours)' => ResetOn(r, {now.day})'
                    /\ faults' = 1 /\ TicksOver(r, 2)' => ResetOn(r, Recently)'
  BY DEF WindowRoom
<1>1. faults \in Nat /\ faults' \in Nat /\ now.hour \in Int
  BY EveFacts DEF BillTypeOK
<1>2. /\ ResetOn(r, Recently) => ResetOn(r, Recently)'
      /\ ResetOn(r, {now.day}) => ResetOn(r, {now.day})'
  BY DEF ResetOn, Recently
<1>3. CASE faults' = faults /\ (TickOver(r)' => TickOver(r))
  <2>1. \A n \in Int : TicksOver(r, n)' => TicksOver(r, n)
    BY <1>3 DEF TicksOver
  <2> QED
    BY <1>2, <1>3, <2>1, BillingAssumption DEF WindowRoom
<1>4. CASE faults' = faults + 1
  <2>1. TicksOver(r, 2)' => TicksOver(r, 1)
    BY <1>1 DEF TicksOver
  <2> QED
    BY <1>1, <1>2, <1>4, <2>1 DEF WindowRoom
<1> QED
  BY <1>3, <1>4

\* Every step keeps WindowInv.
LEMMA WindowStep ==
  ASSUME WindowInv, EveInv', BillNext
  PROVE  WindowInv'
<1> USE DEF accountVars, tableVars
<1>0. BillTypeOK /\ BillTypeOK'
  BY DEF WindowInv, EveInv
<1>i. \A r \in RoomIds : EveRoom(r) /\ WindowRoom(r)
  BY DEF WindowInv, EveInv
<1>n. DOMAIN Nothing = {}
  BY DEF Nothing
<1>t. now.day \in Int /\ now # NULL /\ now.hour \in Int /\ now \in Moments /\ faults \in Nat
  <2>1. now \in Moments /\ faults \in Nat /\ now # NULL
    BY <1>0, RowAssumption DEF BillTypeOK, RoomTypeOK
  <2>2. now.day \in Days /\ now.hour \in 0 .. HoursPerDay - 1
    BY <2>1 DEF Moments
  <2>3. now.day \in Nat
    BY <2>2, DaysAreNumbers, Zenon
  <2> QED
    BY <2>1, <2>2, <2>3, RoomAssumption
<1>s. \A r \in RoomIds : DueToday(r) => settled[r] # now
  BY <1>t DEF DueToday
<1>1. CASE RequestStep
  <2>1. /\ now' = now /\ UNCHANGED <<pending, resetting, faults>>
        /\ \A r \in RoomIds :
             /\ KeepsStamps(r)
             /\ settled'[r] \in {settled[r], now}
             /\ room'[r] # NULL /\ settled'[r] # now =>
                  Live(r) /\ room'[r].billing = room[r].billing /\ settled'[r] = settled[r]
    BY <1>0, <1>1, RequestsSettle DEF workerVars
  <2>2. \A r \in RoomIds : WindowRoom(r)'
    <3> SUFFICES ASSUME NEW r \in RoomIds PROVE WindowRoom(r)'
      OBVIOUS
    <3>1. DueToday(r)' => DueToday(r) /\ room'[r].resetAt = room[r].resetAt
      <4> SUFFICES ASSUME DueToday(r)' PROVE DueToday(r) /\ room'[r].resetAt = room[r].resetAt
        OBVIOUS
      <4>1. room'[r] # NULL /\ settled'[r] # now
        BY <1>t, <2>1 DEF DueToday, Live
      <4> QED
        BY <2>1, <4>1 DEF DueToday, KeepsStamps, Live, DueOn
    <3>2. TickOver(r)' <=> TickOver(r)
      BY <2>1 DEF TickOver
    <3> QED
      BY <1>0, <1>i, <2>1, <3>1, <3>2, WindowKept
  <2> QED
    BY <2>2 DEF WindowInv
\* Steps that leave the rooms alone.
<1>2. ASSUME UNCHANGED <<now, room, settled>>,
             \A r \in RoomIds : \/ faults' = faults /\ (TickOver(r)' => TickOver(r))
                                \/ faults' = faults + 1
      PROVE  WindowInv'
  <2>1. \A r \in RoomIds : DueToday(r)' => DueToday(r) /\ room'[r].resetAt = room[r].resetAt
    BY <1>2 DEF DueToday, Live
  <2>2. \A r \in RoomIds : WindowRoom(r)'
    BY <1>0, <1>i, <1>2, <2>1, WindowKept
  <2> QED
    BY <2>2 DEF WindowInv
<1>3. CASE ResetRead
  <2>1. /\ UNCHANGED <<now, room, settled, faults>>
        /\ DOMAIN resetting' = {v \in RoomIds : Live(v) /\ Stale(room[v].resetAt)}
    BY <1>3 DEF ResetRead, roomVars
  <2>2. \A r \in RoomIds : WindowRoom(r)'
    <3> SUFFICES ASSUME NEW r \in RoomIds, DueToday(r)
                 PROVE  /\ faults = 0 /\ TicksOver(r, 1)' => ResetOn(r, Recently)
                        /\ faults = 0 /\ TicksOver(r, ResetHours)' => ResetOn(r, {now.day})
                        /\ faults = 1 /\ TicksOver(r, 2)' => ResetOn(r, Recently)
      BY <2>1 DEF WindowRoom, DueToday, Live, ResetOn, Recently
    <3>1. Live(r) /\ ResetStamp(r)
      BY <1>i DEF DueToday, EveRoom
    <3>2. TickOver(r)' => /\ ResetOn(r, Recently)
                          /\ now.hour >= ResetHours - 1 => ResetOn(r, {now.day})
      BY <1>0, <2>1, <3>1, NotStaleIsRecent DEF TickOver
    <3>3. \A n \in Int : TicksOver(r, n)' => now.hour >= n \/ (now.hour = n - 1 /\ TickOver(r)')
      BY <2>1 DEF TicksOver
    <3>4. \A n \in Int : now.hour >= n => TicksOver(r, n)
      BY DEF TicksOver
    <3> QED
      BY <1>i, <1>t, <3>2, <3>3, <3>4, BillingAssumption DEF WindowRoom
  <2> QED
    BY <2>2 DEF WindowInv
<1>4. ASSUME NEW r \in RoomIds, ResetRoom(r) PROVE WindowInv'
  <2>1. /\ UNCHANGED <<now, settled, pending, faults>>
        /\ r \in DOMAIN resetting /\ resetting' = Without(resetting, r)
    BY <1>4 DEF ResetRoom
  <2>2. DOMAIN resetting' = DOMAIN resetting \ {r}
    BY <2>1 DEF Without
  <2>3. /\ KeepsRow(r)
        /\ \A q \in RoomIds \ {r} : room'[q] = room[q]
        /\ Live(r) /\ roomDueForResetNow(resetting[r]) => room'[r].resetAt = now
        /\ ~roomDueForResetNow(resetting[r]) => room' = room
    BY <1>0, <1>4, ResetKeepsRows
  <2>4. \A q \in RoomIds \ {r} : WindowRoom(q)'
    <3> SUFFICES ASSUME NEW q \in RoomIds \ {r} PROVE WindowRoom(q)'
      OBVIOUS
    <3>1. q \in RoomIds /\ room'[q] = room[q] /\ (TickOver(q)' <=> TickOver(q))
      BY <2>1, <2>2, <2>3 DEF TickOver
    <3>2. DueToday(q)' => DueToday(q) /\ room'[q].resetAt = room[q].resetAt
      BY <2>1, <3>1 DEF DueToday, Live
    <3> QED
      BY <1>0, <1>i, <2>1, <3>1, <3>2, WindowKept
  <2>5. WindowRoom(r)'
    <3> SUFFICES ASSUME DueToday(r)'
                 PROVE  /\ faults' = 0 /\ TicksOver(r, 1)' => ResetOn(r, Recently)'
                        /\ faults' = 0 /\ TicksOver(r, ResetHours)' => ResetOn(r, {now.day})'
                        /\ faults' = 1 /\ TicksOver(r, 2)' => ResetOn(r, Recently)'
      BY DEF WindowRoom
    <3>1. Live(r) /\ DueToday(r)
      BY <2>1, <2>3 DEF DueToday, Live, KeepsRow, DueOn
    <3>2. roomDueForResetNow(resetting[r]) <=> now.hour < ResetHours
      BY <1>i, <1>s, <2>1, <3>1 DEF EveRoom, CopyHolds, roomDueForResetNow, DueToday
    <3>3. CASE now.hour < ResetHours
      <4>1. room'[r].resetAt = now
        BY <2>3, <3>1, <3>2, <3>3
      <4> QED
        BY <1>t, <2>1, <4>1 DEF ResetOn, Recently
    <3>4. CASE ~(now.hour < ResetHours)
      <4>1. room' = room
        BY <2>3, <3>2, <3>4
      <4>2. TicksOver(r, 1) /\ TicksOver(r, ResetHours) /\ TicksOver(r, 2)
        BY <1>t, <3>4, BillingAssumption, RoomAssumption DEF TicksOver
      <4> QED
        BY <1>i, <2>1, <3>1, <4>1, <4>2 DEF WindowRoom, ResetOn, Recently
    <3> QED
      BY <3>3, <3>4
  <2> QED
    BY <2>4, <2>5 DEF WindowInv
<1>5. ASSUME NEW r \in RoomIds, ResetRoomFails(r) \/ StampFails(r) PROVE WindowInv'
  <2>1. UNCHANGED <<now, room, settled>> /\ faults' = faults + 1
    BY <1>5 DEF ResetRoomFails, StampFails, Fault, roomVars
  <2> QED
    BY <1>2, <2>1
<1>6. CASE CrashRestart
  <2>1. UNCHANGED <<now, room, settled>> /\ faults' = faults + 1
    BY <1>6 DEF CrashRestart, Fault, roomVars
  <2> QED
    BY <1>2, <2>1
<1>7. ASSUME NEW w \in Workers, MissTick(w) PROVE WindowInv'
  <2>1. UNCHANGED <<now, room, settled>> /\ faults' = faults + 1
    BY <1>7 DEF MissTick, Fault, roomVars
  <2> QED
    BY <1>2, <2>1
<1>8. CASE RemindRead
  <2>1. /\ UNCHANGED <<now, room, settled, resetting, faults>>
        /\ "reset" \in pending' <=> "reset" \in pending
    BY <1>8 DEF RemindRead, roomVars
  <2> QED
    BY <1>2, <2>1 DEF TickOver
<1>9. ASSUME NEW r \in RoomIds, NEW u \in Users, NEW ok \in BOOLEAN, TellMember(r, u, ok)
      PROVE  WindowInv'
  <2>1. UNCHANGED <<now, room, settled, resetting, pending, faults>>
    BY <1>9 DEF TellMember, roomVars
  <2> QED
    BY <1>2, <2>1 DEF TickOver
<1>10. ASSUME NEW r \in RoomIds, StampRoom(r) PROVE WindowInv'
  <2>1. UNCHANGED <<now, settled, resetting, pending, faults>>
    BY <1>10 DEF StampRoom
  <2>2. \A q \in RoomIds : /\ room'[q] = NULL <=> room[q] = NULL
                           /\ Live(q) => /\ room'[q].resetAt = room[q].resetAt
                                         /\ room'[q].billing = room[q].billing
    BY <1>0, <1>10, StampKeepsRows DEF KeepsRow
  <2>3. \A q \in RoomIds : DueToday(q)' => DueToday(q) /\ room'[q].resetAt = room[q].resetAt
    BY <2>1, <2>2 DEF DueToday, Live, DueOn
  <2>4. \A q \in RoomIds : TickOver(q)' <=> TickOver(q)
    BY <2>1 DEF TickOver
  <2>5. \A q \in RoomIds : WindowRoom(q)'
    BY <1>0, <1>i, <2>1, <2>3, <2>4, WindowKept
  <2> QED
    BY <2>5 DEF WindowInv
<1>11. CASE Shutdown
  <2>1. UNCHANGED <<now, room, settled, faults>> /\ pending' = Workers
    BY <1>11 DEF Shutdown, roomVars
  <2> QED
    BY <1>2, <2>1 DEF TickOver, Workers
<1>12. CASE Hour
  <2>1. /\ pending = {} /\ resetting = Nothing
        /\ UNCHANGED <<room, settled, faults>>
        /\ pending' = Workers
        /\ now' = NextMoment
    BY <1>12 DEF Hour, NextHour
  <2>2. \/ now'.day = now.day /\ now'.hour = now.hour + 1
        \/ now'.hour = 0
    BY <2>1 DEF NextMoment
  <2>3. \A r \in RoomIds : ~TickOver(r)' /\ TickOver(r)
    BY <1>n, <2>1 DEF TickOver, Workers
  <2>4. \A r \in RoomIds : WindowRoom(r)'
    <3> SUFFICES ASSUME NEW r \in RoomIds PROVE WindowRoom(r)'
      OBVIOUS
    <3>1. CASE now'.hour = 0
      <4>1. \A n \in Nat \ {0} : ~TicksOver(r, n)'
        BY <2>3, <3>1 DEF TicksOver
      <4> QED
        BY <4>1, BillingAssumption, RoomAssumption DEF WindowRoom
    <3>2. CASE now'.day = now.day /\ now'.hour = now.hour + 1
      <4>1. \A n \in Int : TicksOver(r, n)' => TicksOver(r, n)
        BY <1>t, <2>3, <3>2 DEF TicksOver
      <4>2. DueToday(r)' => DueToday(r)
        BY <2>1, <3>2 DEF DueToday, Live
      <4>3. ResetHours \in Int
        BY BillingAssumption
      <4> QED
        BY <1>i, <2>1, <3>2, <4>1, <4>2, <4>3 DEF WindowRoom, ResetOn, Recently
    <3> QED
      BY <2>2, <3>1, <3>2
  <2> QED
    BY <2>4 DEF WindowInv
<1> QED
  BY <1>1, <1>3, <1>4, <1>5, <1>6, <1>7, <1>8, <1>9, <1>10, <1>11, <1>12 DEF BillNext

\* The inductive invariant behind MembersToldOnce.
THEOREM ToldInvariant == BillSpec => []ToldInv
<1>1. BillTypeOK /\ BillInit => ToldInv
  BY DEF BillInit, ToldInv, ToldRoom, Quiet, Nothing, Workers, RoomInit
<1>2. ToldInv /\ BillTypeOK' /\ [BillNext]_billVars => ToldInv'
  <2>1. ASSUME ToldInv, BillTypeOK', UNCHANGED billVars PROVE ToldInv'
    BY <2>1 DEF ToldInv, ToldRoom, Quiet, Live, billVars, workerVars, roomVars, tableVars
  <2> QED
    BY <2>1, ToldStep
<1> QED
  BY <1>1, <1>2, BillingTypeCorrect, PTL DEF BillSpec

\* The inductive invariant of the billing day, behind the last two theorems here.
THEOREM WindowInvariant == BillSpec => []WindowInv
<1>1. BillTypeOK /\ BillInit => WindowInv
  <2> SUFFICES ASSUME BillTypeOK, BillInit PROVE WindowInv
    OBVIOUS
  <2>1. \A r \in RoomIds : ~Live(r)
    BY DEF BillInit, RoomInit, Live
  <2>2. DOMAIN resetting = {} /\ DOMAIN reminding = {}
    BY DEF BillInit, Nothing
  <2>3. \A r \in RoomIds : EveRoom(r) /\ WindowRoom(r)
    BY <2>1, <2>2 DEF EveRoom, SettledKnown, StampedToday, StampedYesterday, StoodOn,
       RemindsForTomorrow, CopyHolds, ReminderStamp, ResetStamp, ResetWasDue, WindowRoom, DueToday
  <2> QED
    BY <2>3 DEF WindowInv, EveInv
<1>2. WindowInv /\ BillTypeOK' /\ [BillNext]_billVars => WindowInv'
  <2>1. ASSUME WindowInv, BillTypeOK', UNCHANGED billVars PROVE WindowInv'
    <3>1. UNCHANGED <<now, room, settled, pending, resetting, reminding, faults>>
      BY <2>1 DEF billVars, workerVars, roomVars, tableVars
    <3>2. \A r \in RoomIds : (EveOver(r)' <=> EveOver(r)) /\ (TickOver(r)' <=> TickOver(r))
      BY <3>1 DEF EveOver, TickOver
    <3>3. \A r \in RoomIds : EveRoom(r)'
      BY <2>1, <3>1, <3>2, EveKept DEF WindowInv, EveInv, Live
    <3>4. \A r \in RoomIds : DueToday(r)' => DueToday(r) /\ room'[r].resetAt = room[r].resetAt
      BY <3>1 DEF DueToday, Live
    <3>5. \A r \in RoomIds : WindowRoom(r)'
      BY <2>1, <3>1, <3>2, <3>4, WindowKept DEF WindowInv, EveInv
    <3> QED
      BY <2>1, <3>3, <3>5 DEF WindowInv, EveInv
  <2>2. ASSUME WindowInv, BillTypeOK', BillNext PROVE WindowInv'
    BY <2>2, EveStep, WindowStep DEF WindowInv
  <2> QED
    BY <2>1, <2>2
<1> QED
  BY <1>1, <1>2, BillingTypeCorrect, PTL DEF BillSpec

\* room_reminder.go: a member is messaged about a room at most once a day, however
\* the worker is stopped and started, unless a stamp was lost after the messages.
THEOREM MembersToldOnce == BillSpec => []ToldOnce
<1>1. ToldInv => ToldOnce
  <2> SUFFICES ASSUME ToldInv, NEW r \in RoomIds \ torn, NEW u \in Users PROVE told[r][u] <= 1
    BY DEF ToldOnce
  <2>1. ToldRoom(r) /\ told[r][u] \in Nat
    BY DEF ToldInv, BillTypeOK
  <2> QED
    BY <2>1 DEF ToldRoom
<1> QED
  BY <1>1, ToldInvariant, PTL

\* room_reminder.go: "so the reminder and the reset agree on the date": as long as
\* nothing fails, every room is stamped as reminded the day before it is reset.
THEOREM RemindedBeforeReset == BillSpec => []ReminderBeforeReset
<1>1. WindowInv => ReminderBeforeReset
  <2> SUFFICES ASSUME WindowInv, NEW r \in RoomIds, faults = 0, Live(r), room[r].resetAt = now,
                      Before(settled[r], [day |-> now.day - 1, hour |-> reminderHour])
               PROVE  room[r].billReminded # NULL /\ room[r].billReminded.day = now.day - 1
    BY DEF ReminderBeforeReset
  <2>1. BillTypeOK /\ EveRoom(r)
    BY DEF WindowInv, EveInv
  <2>2. StoodOn(r, now.day - 1)
    BY DEF StoodOn, EveOf
  <2>3. settled[r] # now
    BY <2>1, <2>2, NowIsNotBefore DEF StoodOn
  <2>4. room[r].billReminded = EveOf(now.day - 1)
    BY <2>1, <2>2, <2>3 DEF EveRoom, ResetWasDue, StampedYesterday
  <2>5. EveOf(now.day - 1) \in Moments
    <3>1. settled[r].day \in Nat /\ now.day \in Nat /\ now \in Moments /\ settled[r].hour \in Nat
      BY <2>1, EveFacts, RoomAssumption DEF EveRoom, SettledKnown
    <3>2. now.day - 1 \in Nat /\ now.day \in Days
      BY <3>1 DEF Before, Moments
    <3>3. now.day - 1 \in Days
      BY <3>1, <3>2, DaysAreNumbers DEF Days
    <3> QED
      BY <3>3, BillingAssumption DEF EveOf, Moments
  <2> QED
    BY <2>4, <2>5, RowAssumption DEF EveOf
<1> QED
  BY <1>1, WindowInvariant, PTL

\* billing_reset.go: the window is "the safety net for a worker that misses one
\* tick": a room whose billing day is today, and was before today, has been reset
\* when the window is over, in spite of one fault.
THEOREM ResetByTheEndOfTheWindow == BillSpec => []ResetOnBillingDay
<1>1. WindowInv => ResetOnBillingDay
  <2> SUFFICES ASSUME WindowInv, NEW r \in RoomIds, faults <= 1,
                      Live(r), DueOn(room[r].billing, now.day),
                      now.hour >= ResetHours, settled[r].day < now.day
               PROVE  /\ room[r].resetAt # NULL
                      /\ room[r].resetAt.day = now.day
                           \/ (faults = 1 /\ room[r].resetAt.day = now.day - 1)
    BY DEF ResetOnBillingDay
  <2>1. WindowRoom(r) /\ DueToday(r) /\ faults \in Nat /\ now.hour \in Int
    BY EveFacts DEF WindowInv, EveInv, DueToday, BillTypeOK
  <2>2. TicksOver(r, ResetHours) /\ TicksOver(r, 2)
    BY <2>1, BillingAssumption, RoomAssumption DEF TicksOver
  <2>3. faults = 0 \/ faults = 1
    BY <2>1
  <2> QED
    BY <2>1, <2>2, <2>3 DEF WindowRoom, ResetOn, Recently
<1> QED
  BY <1>1, WindowInvariant, PTL

(***************************************************************************)
(* The rooms beside the workers.                                           *)
(***************************************************************************)
\* The workers write stamps and paid marks only: no room, owner or member comes or
\* goes, and no request is touched.
SameRoom(r) ==
  /\ room'[r] = NULL <=> room[r] = NULL
  /\ Live(r) => room'[r].owner = room[r].owner /\ room'[r].reminded = room[r].reminded
  /\ DOMAIN members'[r] = DOMAIN members[r]

\* Each step of a worker is such a step.
LEMMA WorkersKeepRooms ==
  ASSUME BillTypeOK, BillNext, ~RequestStep, ~Hour
  PROVE  /\ UNCHANGED <<now, removed, services, request, accountVars, overlap, sent>>
         /\ \A r \in RoomIds : SameRoom(r)
<1> DEFINE
      Same == UNCHANGED <<now, removed, services, request, accountVars, overlap, sent>>
      Rows == \A r \in RoomIds : SameRoom(r)
<1>1. UNCHANGED roomVars => Same /\ Rows
  BY DEF roomVars, tableVars, SameRoom
<1>2. ASSUME NEW r \in RoomIds, ResetRoom(r) PROVE Same /\ Rows
  <2>1. \A q \in RoomIds : KeepsRow(q)
    BY <1>2, ResetKeepsRows
  <2>2. \A q \in RoomIds : DOMAIN members'[q] = DOMAIN members[q]
    BY <1>2 DEF ResetRoom, BillTypeOK, RoomTypeOK
  <2> QED
    BY <1>2, <2>1, <2>2 DEF KeepsRow, ResetRoom, SameRoom
<1>3. ASSUME NEW r \in RoomIds, StampRoom(r) PROVE Same /\ Rows
  <2>1. \A q \in RoomIds : KeepsRow(q)
    BY <1>3, StampKeepsRows
  <2> QED
    BY <1>3, <2>1 DEF KeepsRow, StampRoom, SameRoom
<1>4. ASSUME ResetRead \/ RemindRead \/ Shutdown \/ CrashRestart PROVE Same /\ Rows
  BY <1>1, <1>4 DEF ResetRead, RemindRead, Shutdown, CrashRestart
<1>5. ASSUME NEW r \in RoomIds, ResetRoomFails(r) \/ StampFails(r) PROVE Same /\ Rows
  BY <1>1, <1>5 DEF ResetRoomFails, StampFails
<1>6. ASSUME NEW r \in RoomIds, NEW u \in Users, NEW ok \in BOOLEAN, TellMember(r, u, ok)
      PROVE  Same /\ Rows
  BY <1>1, <1>6 DEF TellMember
<1>7. ASSUME NEW w \in Workers, MissTick(w) PROVE Same /\ Rows
  BY <1>1, <1>7 DEF MissTick
<1> HIDE DEF Same, Rows
<1>8. Same /\ Rows
  BY <1>2, <1>3, <1>4, <1>5, <1>6, <1>7 DEF BillNext
<1> QED
  BY <1>8 DEF Same, Rows

\* What holds of the rooms by themselves holds while the workers run beside them, the
\* billing reset that clears every paid mark included.
THEOREM RoomsBesideWorkers ==
  BillSpec => [](NoOrphans /\ OwnerIsMember /\ CooldownHonoured) /\ JoinKeepsPaidMarks
<1> DEFINE Inv == MembersInv /\ CoolInv
<1>1. BillInit => Inv
  <2>1. RoomInit => MembersInv /\ CoolInv
    BY MembersAtStart, CoolAtStart
  <2> QED
    BY <2>1 DEF BillInit
<1>2. ASSUME Inv, BillTypeOK, BillTypeOK', BillNext PROVE Inv'
  <2>1. CASE RequestStep
    BY <1>2, <2>1, MembersStep, CoolStep DEF RequestStep
  <2>2. CASE Hour
    BY <1>2, <2>2, MembersHour, CoolHour DEF Hour
  <2>3. CASE ~RequestStep /\ ~Hour
    <3>1. /\ UNCHANGED <<now, removed, services, request, erasing, overlap, sent>>
          /\ \A r \in RoomIds : SameRoom(r)
      BY <1>2, <2>3, WorkersKeepRooms DEF accountVars
    <3>2. RoomTypeOK'
      BY <1>2 DEF BillTypeOK
    <3>3. \A r \in RoomIds : ~Live(r) => DOMAIN members'[r] = {} /\ services'[r] = {}
      BY <1>2, <3>1 DEF MembersInv, NoOrphans, SameRoom
    <3>4. MembersInv'
      BY <1>2, <3>1, <3>2, <3>3, MembersKept DEF SameRoom
    <3>5. \A r \in RoomIds : CoolRoom(r)'
      BY <1>2, <3>1 DEF CoolInv, CoolRoom, Untold, LastPassed, InOrder, Alone, Waited, Stamped,
         Rem, Unsent, Live, Elapsed, SameRoom
    <3> QED
      BY <3>2, <3>4, <3>5 DEF CoolInv
  <2> QED
    BY <2>1, <2>2, <2>3
<1>3. ASSUME Inv, UNCHANGED billVars PROVE Inv'
  <2>1. UNCHANGED roomVars
    BY <1>3 DEF billVars
  <2> QED
    BY <1>3, <2>1, MembersIdle, CoolIdle
<1>4. Inv => NoOrphans /\ OwnerIsMember /\ CooldownHonoured
  BY DEF MembersInv, CoolInv, CoolRoom, CooldownHonoured
<1>5. Inv /\ BillTypeOK /\ BillTypeOK' /\ [BillNext]_billVars => Inv'
  BY <1>2, <1>3
<1>6. BillTypeOK /\ [BillNext]_billVars => [MarksStay]_roomVars
  BY JoinLeavesMarks DEF BillTypeOK
<1> HIDE DEF Inv
<1> QED
  BY <1>1, <1>4, <1>5, <1>6, BillingTypeCorrect, PTL
     DEF BillSpec, JoinKeepsPaidMarks, MarksStay
=============================================================================
