------------------------------- MODULE Rooms -------------------------------
(***************************************************************************)
(* Shared rooms: the tables shared_rooms, room_members and room_services,  *)
(* the owner's and the members' requests, and the deletion of an account   *)
(* that owns or joined rooms.                                              *)
(*                                                                         *)
(* Most handlers check the owner, which never changes, and then run one    *)
(* statement that matches nothing once the room is gone: they are one      *)
(* step.  Join and Remind keep what they read over a slow part, and        *)
(* DeleteMe lists the rooms it will delete before it deletes.              *)
(***************************************************************************)
EXTENDS Calendar, FiniteSets

CONSTANTS
  RoomIds,        \* ids of rooms, each used once
  Users,
  Services,       \* ids of room_services rows
  Requests,       \* concurrent Join and Remind requests
  NULL,           \* SQL NULL, and "nothing"
  BillingDays,    \* days of the month an owner may choose
  HoursPerDay,    \* the clock's step is an hour of a shorter day
  Limited,        \* users the paywall applies to: not donators
  FreeRoomLimit,  \* its limit
  MaxErasures     \* bound on account deletions

ASSUME RoomAssumption ==
  /\ BillingDays \subseteq Nat \ {0}
  /\ HoursPerDay \in Nat \ {0}
  /\ Limited \subseteq Users /\ NULL \notin Users
  /\ FreeRoomLimit \in Nat /\ MaxErasures \in Nat
  /\ \A d \in 0 .. LastDay : Date[d].day \in BillingDays

VARIABLES
  now,      \* the rooms' local clock: [day, hour]
  room,     \* row of each room, NULL before Create and after deletion
  removed,  \* ids of deleted rooms
  members,  \* of each room: has_paid of each member
  services, \* of each room
  request,  \* Join and Remind requests in flight
  gone,     \* soft-deleted users
  erasing,  \* the rooms a running DeleteMe has listed
  erasures, \* account deletions so far
  overlap,  \* history: rooms created while their owner was being deleted
  sent      \* history of each room's manual reminders, see CooldownHonoured

accountVars == <<gone, erasing, erasures>>
tableVars   == <<room, removed, members, services>>
roomVars    == <<now, tableVars, request, accountVars, overlap, sent>>

Days    == 0 .. LastDay
Moments == [day : Days, hour : 0 .. HoursPerDay - 1]

Elapsed(t, u) == HoursPerDay * (u.day - t.day) + u.hour - t.hour

Live(r)    == room[r] # NULL
Owned(u)   == {r \in RoomIds : Live(r) /\ room[r].owner = u}
Without(f, x) == [y \in DOMAIN f \ {x} |-> f[y]]
NoMembers  == [u \in {} |-> TRUE]

RoomInit ==
  /\ now = [day |-> 0, hour |-> 0]
  /\ room = [r \in RoomIds |-> NULL]
  /\ removed = {}
  /\ members = [r \in RoomIds |-> NoMembers]
  /\ services = [r \in RoomIds |-> {}]
  /\ request = [q \in Requests |-> NULL]
  /\ gone = {}
  /\ erasing = [u \in Users |-> NULL]
  /\ erasures = 0
  /\ overlap = {}
  /\ sent = [r \in RoomIds |-> [last |-> NULL, early |-> FALSE, crossed |-> FALSE]]

(***************************************************************************)
(* The owner.                                                              *)
(***************************************************************************)
\* Under a lock of the owner's row, which must not be deleted.  The owner is a
\* member who has paid; today is the billing day.
Create(u, r) ==
  /\ room[r] = NULL /\ r \notin removed
  /\ u \notin gone
  /\ u \in Limited => Cardinality(Owned(u)) < FreeRoomLimit
  /\ room' = [room EXCEPT ![r] = [owner |-> u, billing |-> Date[now.day].day,
                                  reminded |-> NULL, resetAt |-> NULL, billReminded |-> NULL]]
  /\ members' = [members EXCEPT ![r] = [v \in {u} |-> TRUE]]
  /\ overlap' = IF erasing[u] # NULL THEN overlap \cup {r} ELSE overlap
  /\ UNCHANGED <<now, removed, services, request, accountVars, sent>>

MarkMember(r, u, paid) ==
  /\ u \in DOMAIN members[r]
  /\ members' = [members EXCEPT ![r][u] = paid]
  /\ UNCHANGED <<now, room, removed, services, request, accountVars, overlap, sent>>

MarkPaid(r, u)   == MarkMember(r, u, TRUE)
MarkUnpaid(r, u) == MarkMember(r, u, FALSE)

UpdateRoom(r, day) ==
  /\ Live(r)
  /\ room' = [room EXCEPT ![r].billing = day]
  /\ UNCHANGED <<now, removed, members, services, request, accountVars, overlap, sent>>

MayRemoveAnyone(r, u) == TRUE   \* mutant: no "cannot remove yourself"
MayRemove(r, u) == u # room[r].owner

RemoveMember(r, u) ==
  /\ Live(r) /\ MayRemove(r, u)
  /\ u \in DOMAIN members[r]
  /\ members' = [members EXCEPT ![r] = Without(@, u)]
  /\ UNCHANGED <<now, room, removed, services, request, accountVars, overlap, sent>>

\* The inserts of services and members reference their room.
RoomReferencedNever(r) == TRUE   \* mutant: no foreign key
RoomReferenced(r) == Live(r)

AddService(r, x) ==
  /\ Live(r)
  /\ x \notin UNION {services[q] : q \in RoomIds}
  /\ services' = [services EXCEPT ![r] = @ \cup {x}]
  /\ UNCHANGED <<now, room, removed, members, request, accountVars, overlap, sent>>

RemoveService(r, x) ==
  /\ x \in services[r]
  /\ services' = [services EXCEPT ![r] = @ \ {x}]
  /\ UNCHANGED <<now, room, removed, members, request, accountVars, overlap, sent>>

\* Services, members and the room in one transaction.
DeleteRooms(R) ==
  /\ room' = [r \in RoomIds |-> IF r \in R THEN NULL ELSE room[r]]
  /\ removed' = removed \cup R
  /\ services' = [r \in RoomIds |-> IF r \in R THEN {} ELSE services[r]]

DeleteRoom(r) ==
  /\ Live(r)
  /\ DeleteRooms({r})
  /\ members' = [members EXCEPT ![r] = NoMembers]
  /\ UNCHANGED <<now, request, accountVars, overlap, sent>>

(***************************************************************************)
(* Join: look the room up by its invite code, then insert, doing nothing   *)
(* on conflict.                                                            *)
(***************************************************************************)
BeginJoin(q, u, r) ==
  /\ request[q] = NULL
  /\ Live(r) /\ u \notin gone
  /\ request' = [request EXCEPT ![q] = [kind |-> "join", room |-> r, user |-> u]]
  /\ UNCHANGED <<now, tableVars, accountVars, overlap, sent>>

JoinedUpsert(ms, u) == [v \in DOMAIN ms \cup {u} |-> IF v = u THEN FALSE ELSE ms[v]]   \* mutant
Joined(ms, u) ==
  [v \in DOMAIN ms \cup {u} |-> IF v \in DOMAIN ms THEN ms[v] ELSE FALSE]

FinishJoin(q) ==
  /\ request[q] # NULL /\ request[q].kind = "join"
  /\ members' = IF RoomReferenced(request[q].room)
                THEN [members EXCEPT ![request[q].room] = Joined(@, request[q].user)]
                ELSE members
  /\ request' = [request EXCEPT ![q] = NULL]
  /\ UNCHANGED <<now, room, removed, services, accountVars, overlap, sent>>

(***************************************************************************)
(* Remind: check the cooldown, message the unpaid, then set                *)
(* last_reminded_at.                                                       *)
(***************************************************************************)
CooledDownHourEarly(r) ==   \* mutant: one hour too short
  room[r].reminded # NULL => Elapsed(room[r].reminded, now) >= HoursPerDay - 1
CooledDown(r) ==
  room[r].reminded # NULL => Elapsed(room[r].reminded, now) >= HoursPerDay

\* One of these requests is reminding the members of r.
Reminding(Q, r) ==
  \E q \in Q : request[q] # NULL /\ request[q].kind # "join" /\ request[q].room = r

BeginRemind(q, r) ==
  /\ request[q] = NULL
  /\ Live(r) /\ CooledDown(r)
  /\ request' = [request EXCEPT ![q] = [kind |-> "remind", room |-> r, user |-> room[r].owner]]
  /\ sent' = [sent EXCEPT ![r].crossed = @ \/ Reminding(Requests, r)]
  /\ UNCHANGED <<now, tableVars, accountVars, overlap>>

Unpaid(r) == {u \in DOMAIN members[r] \ gone : ~members[r][u]}

SendReminders(q) ==
  /\ request[q] # NULL /\ request[q].kind = "remind"
  /\ request' = [request EXCEPT ![q].kind = "reminded"]
  /\ LET r    == request[q].room
         last == sent[r].last
         soon == last # NULL /\ Elapsed(last, now) < HoursPerDay
     IN sent' = IF Unpaid(r) # {}
                THEN [sent EXCEPT ![r].last = now, ![r].early = @ \/ (soon /\ ~sent[r].crossed)]
                ELSE sent
  /\ UNCHANGED <<now, tableVars, accountVars, overlap>>

FinishRemind(q) ==
  /\ request[q] # NULL /\ request[q].kind = "reminded"
  /\ LET r == request[q].room IN
       /\ room' = IF Live(r) THEN [room EXCEPT ![r].reminded = now] ELSE room
       /\ sent' = [sent EXCEPT ![r].crossed = @ /\ Reminding(Requests \ {q}, r)]
  /\ request' = [request EXCEPT ![q] = NULL]
  /\ UNCHANGED <<now, removed, members, services, accountVars, overlap>>

\* A failed statement, a lost request or a crash.
Abandon(q) ==
  /\ request[q] # NULL
  /\ request' = [request EXCEPT ![q] = NULL]
  /\ sent' = IF request[q].kind = "reminded" THEN [sent EXCEPT ![request[q].room].crossed = TRUE]
             ELSE sent
  /\ UNCHANGED <<now, tableVars, accountVars, overlap>>

(***************************************************************************)
(* DeleteMe, one transaction at READ COMMITTED: the owned rooms are listed *)
(* first, and what it deletes is gone at the commit.  Memberships are      *)
(* matched by a later statement, so they include those made meanwhile.     *)
(***************************************************************************)
BeginErase(u) ==
  /\ u \notin gone /\ erasing[u] = NULL
  /\ erasures < MaxErasures
  /\ erasing' = [erasing EXCEPT ![u] = Owned(u)]
  /\ erasures' = erasures + 1
  /\ UNCHANGED <<now, tableVars, request, gone, overlap, sent>>

FinishErase(u) ==
  /\ erasing[u] # NULL
  /\ DeleteRooms(erasing[u])
  /\ members' = [r \in RoomIds |-> IF r \in erasing[u] THEN NoMembers
                                   ELSE Without(members[r], u)]
  /\ gone' = gone \cup {u}
  /\ erasing' = [erasing EXCEPT ![u] = NULL]
  /\ UNCHANGED <<now, request, erasures, overlap, sent>>

AbortErase(u) ==
  /\ erasing[u] # NULL
  /\ erasing' = [erasing EXCEPT ![u] = NULL]
  /\ UNCHANGED <<now, tableVars, request, gone, erasures, overlap, sent>>

\* The next authenticated request clears deleted_at.
Revive(u) ==
  /\ u \in gone
  /\ gone' = gone \ {u}
  /\ UNCHANGED <<now, tableVars, request, erasing, erasures, overlap, sent>>

RoomStep ==
  \/ \E u \in Users, r \in RoomIds : Create(u, r)
  \/ \E r \in RoomIds, u \in Users : MarkPaid(r, u) \/ MarkUnpaid(r, u) \/ RemoveMember(r, u)
  \/ \E r \in RoomIds, day \in BillingDays : UpdateRoom(r, day)
  \/ \E r \in RoomIds, x \in Services : AddService(r, x) \/ RemoveService(r, x)
  \/ \E r \in RoomIds : DeleteRoom(r)
  \/ \E q \in Requests, u \in Users, r \in RoomIds : BeginJoin(q, u, r)
  \/ \E q \in Requests, r \in RoomIds : BeginRemind(q, r)
  \/ \E q \in Requests : FinishJoin(q) \/ SendReminders(q) \/ FinishRemind(q) \/ Abandon(q)
  \/ \E u \in Users : BeginErase(u) \/ FinishErase(u) \/ AbortErase(u) \/ Revive(u)

NextMoment ==
  IF now.hour + 1 < HoursPerDay
  THEN [day |-> now.day, hour |-> now.hour + 1]
  ELSE [day |-> now.day + 1, hour |-> 0]

NextHour ==
  /\ NextMoment.day \in Days
  /\ now' = NextMoment
  /\ UNCHANGED <<tableVars, request, accountVars, overlap, sent>>

RoomNext == RoomStep \/ NextHour

RoomSpec == RoomInit /\ [][RoomNext]_roomVars
-----------------------------------------------------------------------------
RoomRows == [owner : Users, billing : BillingDays, reminded : Moments \cup {NULL},
             resetAt : Moments \cup {NULL}, billReminded : Moments \cup {NULL}]
Paid     == UNION {[S -> BOOLEAN] : S \in SUBSET Users}
Held     == [kind : {"join", "remind", "reminded"}, room : RoomIds, user : Users]

\* The owner's last reminder; whether one came within a day of another; whether a
\* reminder began beside another one or lost its stamp, until one has ended alone.
Histories == [last : Moments \cup {NULL}, early : BOOLEAN, crossed : BOOLEAN]

ASSUME RowAssumption == NULL \notin RoomRows \cup Moments \cup Held

\* Type invariant.
RoomTypeOK ==
  /\ now \in Moments
  /\ room \in [RoomIds -> RoomRows \cup {NULL}]
  /\ removed \subseteq RoomIds
  /\ members \in [RoomIds -> Paid]
  /\ services \in [RoomIds -> SUBSET Services]
  /\ request \in [Requests -> Held \cup {NULL}]
  /\ gone \subseteq Users
  /\ erasing \in [Users -> (SUBSET RoomIds) \cup {NULL}]
  /\ erasures \in Nat
  /\ overlap \subseteq RoomIds
  /\ sent \in [RoomIds -> Histories]

\* No member or service row outlives its room, whatever Join requests were in
\* flight when it was deleted.
NoOrphans == \A r \in RoomIds : ~Live(r) => DOMAIN members[r] = {} /\ services[r] = {}

\* The owner is a member of the room, through kicks, repeated joins and account
\* deletions; a room created while its owner was being deleted is the exception.
OwnerIsMember ==
  \A r \in RoomIds : Live(r) /\ r \notin overlap => room[r].owner \in DOMAIN members[r]

\* room.go: a repeated or concurrent Join is "a silent no-op": it never undoes a paid mark.
JoinKeepsPaidMarks ==
  [][\A q \in Requests, r \in RoomIds :
       FinishJoin(q) => \A u \in DOMAIN members[r] :
                          u \in DOMAIN members'[r] /\ members'[r][u] = members[r][u]]_roomVars

\* room.go: "Anti-spam: 24-hour cooldown per room": members are not messaged twice
\* within a day, though the cooldown is read before the messages go out and written
\* after.  Two requests that overlap, and one whose stamp is lost, are the exception.
CooldownHonoured == \A r \in RoomIds : ~sent[r].early

\* user.go: DeleteMe removes the account's rooms and memberships.
NothingOfDeletedAccount ==
  \A u \in gone : Owned(u) = {} /\ \A r \in RoomIds : u \notin DOMAIN members[r]
=============================================================================
