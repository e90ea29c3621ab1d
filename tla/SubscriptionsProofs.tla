------------------------ MODULE SubscriptionsProofs ------------------------
(***************************************************************************)
(* Proofs about Subscriptions, for any subscriptions, taps, concurrent     *)
(* requests, periods and bounds.                                           *)
(***************************************************************************)
EXTENDS Subscriptions, TLAPS

\* A request that holds something holds a row of a subscription.
LEMMA HeldFacts ==
  ASSUME TypeOK, NEW r \in Requests, request[r] # NULL
  PROVE  /\ request[r].kind \in {"patch", "renew"}
         /\ request[r].sub \in Subs
         /\ request[r].read \in Rows
         /\ request[r].since \in SUBSET {"edited", "renewed"}
<1>1. request[r] \in Held
  BY DEF TypeOK
<1> QED
  BY <1>1 DEF Held

\* Telling the other requests about a change, and forgetting what one held,
\* keeps what requests hold well typed.
LEMMA NotedType ==
  ASSUME TypeOK, NEW s \in Subs, NEW what \in {"edited", "renewed"}, NEW r \in Requests
  PROVE  /\ Noted(s, what) \in [Requests -> Held \cup {NULL}]
         /\ [Noted(s, what) EXCEPT ![r] = NULL] \in [Requests -> Held \cup {NULL}]
<1>1. ASSUME NEW q \in Requests PROVE Noted(s, what)[q] \in Held \cup {NULL}
  <2>1. CASE request[q] # NULL /\ request[q].sub = s
    <3>1. Noted(s, what)[q] = [request[q] EXCEPT !.since = @ \cup {what}]
      BY <2>1 DEF Noted
    <3>2. request[q] \in Held
      BY <2>1 DEF TypeOK
    <3>3. [request[q] EXCEPT !.since = @ \cup {what}] \in Held
      BY <3>2 DEF Held
    <3> QED
      BY <3>1, <3>3
  <2>2. CASE ~(request[q] # NULL /\ request[q].sub = s)
    BY <2>2 DEF Noted, TypeOK
  <2> QED
    BY <2>1, <2>2
<1>2. Noted(s, what) \in [Requests -> Held \cup {NULL}]
  BY <1>1 DEF Noted
<1> QED
  BY <1>2

\* A step that neither adds nor removes a row.
SameRowsLive == \A v \in Subs : (sub'[v] # NULL) <=> (sub[v] # NULL)

\* What a request writes is a row, over a row.
LEMMA WrittenRows ==
  ASSUME TypeOK, NEW r \in Requests
  PROVE  /\ \A date \in Dates, period \in Periods, trial \in BodyTrials :
              FinishUpdate(r, date, period, trial)
                => sub' \in [Subs -> Rows \cup {NULL}] /\ SameRowsLive
         /\ FinishRenew(r) => sub' \in [Subs -> Rows \cup {NULL}] /\ SameRowsLive
<1> DEFINE s == request[r].sub
           read == request[r].read
<1>1. ASSUME NEW date \in Dates, NEW period \in Periods, NEW trial \in BodyTrials,
             FinishUpdate(r, date, period, trial)
      PROVE  sub' \in [Subs -> Rows \cup {NULL}] /\ SameRowsLive
  <2>1. s \in Subs /\ read \in Rows
    BY <1>1, HeldFacts DEF FinishUpdate
  <2>2. CASE UpdateMatches(s)
    <3> DEFINE row == Edited(IF Live(s) THEN sub[s] ELSE read, read, date, period, TrialOf(trial, read))
    <3>1. Live(s) /\ sub[s] \in Rows
      BY <2>1, <2>2 DEF UpdateMatches, Live, TypeOK
    <3>2. row \in Rows
      <4>1. TrialOf(trial, read) \in BOOLEAN
        BY <2>1 DEF TrialOf, BodyTrials, Rows
      <4> QED
        BY <3>1, <4>1 DEF Edited, Rows
    <3>3. sub' = [sub EXCEPT ![s] = row]
      BY <1>1, <2>2 DEF FinishUpdate
    <3> HIDE DEF row
    <3> QED
      BY <2>1, <3>1, <3>2, <3>3, RowAssumption DEF TypeOK, SameRowsLive, Live
  <2>3. CASE ~UpdateMatches(s)
    BY <1>1, <2>3 DEF FinishUpdate, TypeOK, SameRowsLive
  <2> QED
    BY <2>2, <2>3
<1>2. ASSUME FinishRenew(r)
      PROVE  sub' \in [Subs -> Rows \cup {NULL}] /\ SameRowsLive
  <2> DEFINE next == advancePayment(read.next, read.period)
             row == [next |-> next, period |-> sub[s].period,
                     trial |-> IF read.trial THEN FALSE ELSE sub[s].trial,
                     trialEnds |-> IF read.trial THEN NULL ELSE sub[s].trialEnds,
                     notified |-> NULL]
  <2>1. s \in Subs /\ read \in Rows
    BY <1>2, HeldFacts DEF FinishRenew
  <2>2. CASE DateStill(s, read.next)
    <3>1. Live(s) /\ sub[s] \in Rows
      BY <2>1, <2>2 DEF DateStill, Live, TypeOK
    <3>2. next \in Dates /\ sub' = [sub EXCEPT ![s] = row]
      BY <1>2, <2>2 DEF FinishRenew
    <3>3. row \in Rows
      BY <2>1, <3>1, <3>2 DEF Rows
    <3> HIDE DEF row
    <3> QED
      BY <2>1, <3>1, <3>2, <3>3, RowAssumption DEF TypeOK, SameRowsLive, Live
  <2>3. CASE ~DateStill(s, read.next)
    BY <1>2, <2>3 DEF FinishRenew, TypeOK, SameRowsLive
  <2> QED
    BY <2>2, <2>3
<1> QED
  BY <1>1, <1>2

\* Every step of users, callbacks, the sweep and the clock keeps the types.
LEMMA TypeStep == TypeOK /\ [Next]_vars => TypeOK'
<1> SUFFICES ASSUME TypeOK, [Next]_vars PROVE TypeOK'
  OBVIOUS
<1> USE CalendarAssumption, LimitAssumption, TapAssumption, NullAssumption
<1>0. /\ now \in Moments /\ sub \in [Subs -> Rows \cup {NULL}]
      /\ request \in [Requests -> Held \cup {NULL}]
      /\ deleted \subseteq Subs /\ delivered \in [Taps -> Nat] /\ endless \subseteq Subs
  BY DEF TypeOK
<1> USE DEF rowVars
<1>1. CASE CreateAny
  <2>1. PICK s \in Subs, date \in Dates, period \in Periods, trial \in BOOLEAN :
          \E ends \in {NULL, date} : Create(s, date, period, trial, ends)
    BY <1>1 DEF CreateAny
  <2>2. PICK ends \in {NULL, date} : Create(s, date, period, trial, ends)
    BY <2>1
  <2> DEFINE row == [next |-> date, period |-> period, trial |-> trial,
                     trialEnds |-> IF trial THEN ends ELSE NULL, notified |-> NULL]
  <2>3. row \in Rows
    BY DEF Rows
  <2>4. sub' = [sub EXCEPT ![s] = row]
    BY <2>2 DEF Create
  <2> HIDE DEF row
  <2>5. sub' \in [Subs -> Rows \cup {NULL}]
    BY <1>0, <2>3, <2>4
  <2> QED
    BY <1>0, <2>2, <2>5 DEF Create, TypeOK
<1>2. ASSUME NEW r \in Requests, NEW s \in Subs, BeginUpdate(r, s) PROVE TypeOK'
  <2> DEFINE held == [kind |-> "patch", sub |-> s, read |-> sub[s], since |-> {}]
  <2>1. held \in Held
    BY <1>0, <1>2 DEF BeginUpdate, Held, Live
  <2>2. request' = [request EXCEPT ![r] = held]
    BY <1>2 DEF BeginUpdate
  <2> HIDE DEF held
  <2> QED
    BY <1>0, <1>2, <2>1, <2>2 DEF BeginUpdate, TypeOK
<1>3. ASSUME NEW r \in Requests, NEW t \in Taps, BeginRenew(r, t) PROVE TypeOK'
  <2> DEFINE held == [kind |-> "renew", sub |-> TapSub[t], read |-> sub[TapSub[t]],
                      since |-> {}]
  <2>1. held \in Held
    BY <1>0, <1>3 DEF BeginRenew, Held, Live
  <2>2. request' = [request EXCEPT ![r] = held]
    BY <1>3 DEF BeginRenew
  <2> HIDE DEF held
  <2>3. delivered' \in [Taps -> Nat]
    BY <1>0, <1>3 DEF BeginRenew
  <2> QED
    BY <1>0, <1>3, <2>1, <2>2, <2>3 DEF BeginRenew, TypeOK
<1>4. ASSUME NEW r \in Requests, Update(r) PROVE TypeOK'
  <2>1. PICK date \in Dates, period \in Periods, trial \in BodyTrials :
          FinishUpdate(r, date, period, trial)
    BY <1>4 DEF Update
  <2>2. sub' \in [Subs -> Rows \cup {NULL}]
    BY <2>1, WrittenRows
  <2>3. request[r].sub \in Subs
    BY <2>1, HeldFacts DEF FinishUpdate
  <2>4. request' \in [Requests -> Held \cup {NULL}]
    <3>1. \/ request' = [Noted(request[r].sub, "edited") EXCEPT ![r] = NULL]
          \/ request' = [request EXCEPT ![r] = NULL]
      BY <2>1 DEF FinishUpdate
    <3>2. [Noted(request[r].sub, "edited") EXCEPT ![r] = NULL] \in [Requests -> Held \cup {NULL}]
      BY <1>0, <2>3, NotedType DEF TypeOK
    <3> QED
      BY <1>0, <3>1, <3>2
  <2>5. endless' \subseteq Subs
    BY <1>0, <2>1, <2>3 DEF FinishUpdate
  <2> QED
    BY <1>0, <2>1, <2>2, <2>4, <2>5 DEF FinishUpdate, TypeOK
<1>5. ASSUME NEW r \in Requests, FinishRenew(r) PROVE TypeOK'
  <2>1. sub' \in [Subs -> Rows \cup {NULL}]
    BY <1>5, WrittenRows
  <2>2. request[r].sub \in Subs
    BY <1>5, HeldFacts DEF FinishRenew
  <2>3. request' \in [Requests -> Held \cup {NULL}]
    <3>1. \/ request' = [Noted(request[r].sub, "renewed") EXCEPT ![r] = NULL]
          \/ request' = [request EXCEPT ![r] = NULL]
      BY <1>5 DEF FinishRenew
    <3> QED
      BY <1>0, <2>2, <3>1, NotedType
  <2>4. endless' \subseteq Subs
    BY <1>0, <1>5, <2>2 DEF FinishRenew, TrialsEnd
  <2> QED
    BY <1>0, <1>5, <2>1, <2>3, <2>4 DEF FinishRenew, TypeOK
<1>6. ASSUME NEW s \in Subs, Delete(s) PROVE TypeOK'
  BY <1>0, <1>6 DEF Delete, TypeOK
<1>7. ASSUME NEW r \in Requests, Abandon(r) PROVE TypeOK'
  BY <1>0, <1>7 DEF Abandon, TypeOK
<1>8. CASE TrialSweep
  <2>1. ASSUME NEW s \in Subs PROVE sub'[s] \in Rows \cup {NULL}
    <3>1. CASE s \in Converted
      <4>1. sub[s] \in Rows
        BY <1>0, <3>1 DEF Converted, Live
      <4>2. sub'[s] = Converts(sub[s])
        BY <1>8, <3>1 DEF TrialSweep
      <4> QED
        BY <4>1, <4>2 DEF Converts, Rows
    <3>2. CASE s \notin Converted
      BY <1>0, <1>8, <3>2 DEF TrialSweep
    <3> QED
      BY <3>1, <3>2
  <2>2. sub' \in [Subs -> Rows \cup {NULL}]
    BY <1>8, <2>1 DEF TrialSweep
  <2>3. endless' \subseteq Subs
    BY <1>0, <1>8 DEF TrialSweep, TrialsEnd, Converted
  <2> QED
    BY <1>0, <1>8, <2>2, <2>3 DEF TrialSweep, TypeOK
<1>9. CASE Tick
  <2>1. now' \in Moments
    BY <1>0, <1>9 DEF Tick, NextMoment, Moments, Days, Slots
  <2> QED
    BY <1>0, <1>9, <2>1 DEF Tick, TypeOK
<1>10. CASE UNCHANGED vars
  BY <1>10 DEF vars, TypeOK
<1> QED
  BY <1>1, <1>2, <1>3, <1>4, <1>5, <1>6, <1>7, <1>8, <1>9, <1>10 DEF Next, UserStep

\* The initial state has the types.
LEMMA TypeInit == Init => TypeOK
  BY CalendarAssumption, LimitAssumption, TapAssumption, NullAssumption
     DEF Init, TypeOK, Moments, Days, Slots

\* Rows, what requests hold, and the clock keep their types.
THEOREM SubscriptionsTypeCorrect == Spec => []TypeOK
  BY TypeInit, TypeStep, PTL DEF Spec

-----------------------------------------------------------------------------
\* A deleted id has no row after any step.
LEMMA DeletedStep == TypeOK /\ DeletedStaysDeleted /\ [Next]_vars => DeletedStaysDeleted'
<1> SUFFICES ASSUME TypeOK, DeletedStaysDeleted, [Next]_vars,
                    NEW d \in deleted'
             PROVE  sub'[d] = NULL
  BY DEF DeletedStaysDeleted, Live
<1> USE DEF DeletedStaysDeleted, Live, rowVars
<1>0. sub \in [Subs -> Rows \cup {NULL}] /\ deleted \subseteq Subs
  BY DEF TypeOK
<1>1. CASE CreateAny
  <2>1. PICK s \in Subs : s \notin deleted /\ deleted' = deleted
                         /\ \A v \in Subs : v # s => sub'[v] = sub[v]
    BY <1>0, <1>1 DEF CreateAny, Create
  <2> QED
    BY <1>0, <2>1
<1>2. ASSUME NEW r \in Requests, NEW date \in Dates, NEW period \in Periods,
             NEW trial \in BodyTrials, FinishUpdate(r, date, period, trial)
      PROVE  sub'[d] = NULL
  BY <1>0, <1>2 DEF FinishUpdate, UpdateMatches
<1>3. ASSUME NEW r \in Requests, FinishRenew(r) PROVE sub'[d] = NULL
  BY <1>0, <1>3 DEF FinishRenew, DateStill
<1>4. ASSUME NEW s \in Subs, Delete(s) PROVE sub'[d] = NULL
  BY <1>0, <1>4 DEF Delete
<1>5. CASE TrialSweep
  BY <1>0, <1>5 DEF TrialSweep, Converted
<1>6. ASSUME UNCHANGED <<sub, deleted>> PROVE sub'[d] = NULL
  BY <1>6
<1> QED
  BY <1>1, <1>2, <1>3, <1>4, <1>5, <1>6 DEF Next, UserStep, vars, BeginUpdate, Update,
     BeginRenew, Abandon, Tick

\* No in-flight PATCH or Renew revives a deleted row: each writes by UPDATE,
\* which matches live rows only, and Create never reuses an id.
THEOREM DeletedRowsStayDeleted == Spec => []DeletedStaysDeleted
<1>1. Init => DeletedStaysDeleted
  BY DEF Init, DeletedStaysDeleted
<1> QED
  BY SubscriptionsTypeCorrect, DeletedStep, <1>1, PTL DEF Spec

-----------------------------------------------------------------------------
\* How far the date has moved since a renewing request read its row: not at all
\* when nobody wrote it, forward when only renewals did.
MovedSince(r) ==
  LET s == request[r].sub  read == request[r].read  since == request[r].since IN
  /\ Live(s) \/ s \in deleted
  /\ Live(s) /\ since = {} => sub[s].next = read.next
  /\ Live(s) /\ since = {"renewed"} => sub[s].next > read.next

Moved == \A r \in Requests : request[r] # NULL => MovedSince(r)

MovedInv == TypeOK /\ DeletedStaysDeleted /\ Moved

\* Renewals move a date forward.
LEMMA Forward ==
  ASSUME NEW from \in Dates, NEW period \in Periods
  PROVE  advancePayment(from, period) > from
<1>1. from \in Int /\ PeriodDays[period] \in Nat \ {0}
  BY CalendarAssumption DEF Dates
<1> QED
  BY <1>1 DEF advancePayment

\* What a request learns of a change it did not make.
LEMMA NotedFacts ==
  ASSUME TypeOK, NEW s \in Subs, NEW what \in {"edited", "renewed"}, NEW q \in Requests,
         Noted(s, what)[q] # NULL
  PROVE  /\ request[q] # NULL
         /\ Noted(s, what)[q].sub = request[q].sub
         /\ Noted(s, what)[q].read = request[q].read
         /\ Noted(s, what)[q].since =
              IF request[q].sub = s THEN request[q].since \cup {what} ELSE request[q].since
<1>1. request[q] # NULL
  BY DEF Noted
<1>2. request[q] \in Held
  BY <1>1 DEF TypeOK
<1> QED
  BY <1>1, <1>2 DEF Noted, Held

\* Moved is inductive: an edit marks the requests it overtakes, and a renewal that
\* overtakes an unmarked one has moved the date past what that one read.
LEMMA MovedStep == MovedInv /\ [Next]_vars => Moved'
<1> SUFFICES ASSUME MovedInv, [Next]_vars,
                    NEW q \in Requests, request'[q] # NULL
             PROVE  MovedSince(q)'
  BY DEF Moved
<1> USE DEF rowVars, Live
<1>0. /\ TypeOK /\ Moved /\ \A s \in deleted : sub[s] = NULL
      /\ sub \in [Subs -> Rows \cup {NULL}] /\ request \in [Requests -> Held \cup {NULL}]
      /\ deleted \subseteq Subs
  BY DEF MovedInv, DeletedStaysDeleted, TypeOK
<1>1. ASSUME request' = request, NEW s \in Subs, s \notin deleted, sub[s] = NULL,
             deleted' = deleted, sub' = [sub EXCEPT ![s] = sub'[s]]
      PROVE  MovedSince(q)'
  <2>1. request[q].sub \in Subs
    BY <1>0, <1>1, HeldFacts
  <2> QED
    BY <1>0, <1>1, <2>1 DEF Moved, MovedSince
<1>2. ASSUME UNCHANGED rowVars,
             \/ request'[q] = request[q]
             \/ request'[q].since = {} /\ request'[q].read = sub[request'[q].sub]
                /\ sub[request'[q].sub] # NULL
      PROVE  MovedSince(q)'
  BY <1>0, <1>2 DEF Moved, MovedSince
<1>3. ASSUME NEW r \in Requests, NEW date \in Dates, NEW period \in Periods,
             NEW trial \in BodyTrials, FinishUpdate(r, date, period, trial)
      PROVE  MovedSince(q)'
  <2> DEFINE s == request[r].sub
  <2>1. s \in Subs
    BY <1>0, <1>3, HeldFacts DEF FinishUpdate
  <2>2. CASE UpdateMatches(s)
    <3>1. request'[q] = Noted(s, "edited")[q] /\ deleted' = deleted
      BY <1>3, <2>2 DEF FinishUpdate, Noted
    <3>2. /\ request[q] # NULL
          /\ request'[q].sub = request[q].sub /\ request'[q].read = request[q].read
          /\ request'[q].since = IF request[q].sub = s THEN request[q].since \cup {"edited"}
                                ELSE request[q].since
      BY <1>0, <2>1, <3>1, NotedFacts
    <3>3. \A v \in Subs : v # s => sub'[v] = sub[v]
      BY <1>0, <1>3, <2>2 DEF FinishUpdate
    <3>4. request[q].sub \in Subs
      BY <1>0, <3>2, HeldFacts
    <3>5. CASE request[q].sub = s
      <4>1. "edited" \in request'[q].since
        BY <3>2, <3>5
      <4>2. sub'[s] # NULL
        BY <1>3, <2>1, <2>2, <1>0, WrittenRows DEF UpdateMatches, SameRowsLive
      <4> QED
        BY <3>1, <3>2, <3>5, <4>1, <4>2 DEF MovedSince
    <3>6. CASE request[q].sub # s
      BY <1>0, <3>1, <3>2, <3>3, <3>4, <3>6 DEF Moved, MovedSince
    <3> QED
      BY <3>5, <3>6
  <2>3. CASE ~UpdateMatches(s)
    <3>1. request' = [request EXCEPT ![r] = NULL] /\ UNCHANGED rowVars
      BY <1>3, <2>3 DEF FinishUpdate
    <3>2. request'[q] = request[q]
      BY <1>0, <3>1
    <3> QED
      BY <1>2, <3>1, <3>2
  <2> QED
    BY <2>2, <2>3
<1>4. ASSUME NEW r \in Requests, FinishRenew(r) PROVE MovedSince(q)'
  <2> DEFINE s == request[r].sub
             read == request[r].read
  <2>1. s \in Subs /\ read \in Rows
    BY <1>0, <1>4, HeldFacts DEF FinishRenew
  <2>2. CASE DateStill(s, read.next)
    <3>1. request'[q] = Noted(s, "renewed")[q] /\ deleted' = deleted
      BY <1>4, <2>2 DEF FinishRenew, Noted
    <3>2. /\ request[q] # NULL
          /\ request'[q].sub = request[q].sub /\ request'[q].read = request[q].read
          /\ request'[q].since = IF request[q].sub = s THEN request[q].since \cup {"renewed"}
                                ELSE request[q].since
      BY <1>0, <2>1, <3>1, NotedFacts
    <3>3. \A v \in Subs : v # s => sub'[v] = sub[v]
      BY <1>0, <1>4, <2>2 DEF FinishRenew
    <3>4. request[q].sub \in Subs /\ request[q].read \in Rows
          /\ request[q].since \in SUBSET {"edited", "renewed"}
      BY <1>0, <3>2, HeldFacts
    <3>5. CASE request[q].sub = s
      <4>1. "renewed" \in request'[q].since
        BY <3>2, <3>5
      <4>2. sub'[s] # NULL /\ sub[s] # NULL
        BY <1>4, <2>1, <2>2, <1>0, WrittenRows DEF DateStill, SameRowsLive
      <4>3. sub[s].next = read.next /\ sub'[s].next > read.next
        <5>1. sub'[s].next = advancePayment(read.next, read.period)
          BY <1>0, <1>4, <2>1, <2>2 DEF FinishRenew
        <5>2. read.next \in Dates /\ read.period \in Periods
          BY <2>1 DEF Rows
        <5> QED
          BY <2>2, <5>1, <5>2, Forward DEF DateStill
      <4>4. request'[q].since = {"renewed"} => request[q].since \in {{}, {"renewed"}}
        BY <3>2, <3>4, <3>5
      <4>5. /\ request[q].since = {} => sub[s].next = request[q].read.next
            /\ request[q].since = {"renewed"} => sub[s].next > request[q].read.next
        BY <1>0, <3>2, <3>5, <4>2 DEF Moved, MovedSince
      <4>6. sub[s].next \in Int /\ sub'[s].next \in Int /\ request[q].read.next \in Int
        <5>1. sub' \in [Subs -> Rows \cup {NULL}]
          BY <1>0, <1>4, WrittenRows
        <5>2. sub[s] \in Rows /\ sub'[s] \in Rows
          BY <1>0, <2>1, <4>2, <5>1
        <5> QED
          BY <3>4, <5>2 DEF Rows, Dates
      <4>7. request'[q].since = {"renewed"} => sub'[s].next > request[q].read.next
        BY <4>3, <4>4, <4>5, <4>6
      <4> QED
        BY <3>1, <3>2, <3>5, <4>1, <4>2, <4>7 DEF MovedSince
    <3>6. CASE request[q].sub # s
      BY <1>0, <3>1, <3>2, <3>3, <3>4, <3>6 DEF Moved, MovedSince
    <3> QED
      BY <3>5, <3>6
  <2>3. CASE ~DateStill(s, read.next)
    <3>1. request' = [request EXCEPT ![r] = NULL] /\ UNCHANGED rowVars
      BY <1>4, <2>3 DEF FinishRenew
    <3>2. request'[q] = request[q]
      BY <1>0, <3>1
    <3> QED
      BY <1>2, <3>1, <3>2
  <2> QED
    BY <2>2, <2>3
<1>5. CASE CreateAny
  <2>1. PICK s \in Subs : /\ s \notin deleted /\ sub[s] = NULL
                          /\ deleted' = deleted /\ request' = request
                          /\ \A v \in Subs : v # s => sub'[v] = sub[v]
    BY <1>0, <1>5 DEF CreateAny, Create
  <2>2. request[q].sub \in Subs
    BY <1>0, <2>1, HeldFacts
  <2>3. request[q].sub # s
    BY <1>0, <2>1 DEF Moved, MovedSince
  <2> QED
    BY <1>0, <2>1, <2>2, <2>3 DEF Moved, MovedSince
<1>6. ASSUME NEW s \in Subs, Delete(s) PROVE MovedSince(q)'
  <2>1. request[q].sub \in Subs
    BY <1>0, <1>6, HeldFacts DEF Delete
  <2> QED
    BY <1>0, <1>6, <2>1 DEF Delete, Moved, MovedSince
<1>7. CASE TrialSweep
  <2>1. request[q] # NULL /\ request' = request /\ deleted' = deleted
    BY <1>7 DEF TrialSweep
  <2> DEFINE s == request[q].sub
  <2>2. s \in Subs
    BY <1>0, <2>1, HeldFacts
  <2>3. sub'[s] # NULL => sub[s] # NULL /\ sub'[s].next = sub[s].next
    <3>1. CASE s \in Converted
      <4>1. sub[s] \in Rows /\ sub[s] # NULL
        BY <1>0, <2>2, <3>1 DEF Converted
      <4>2. sub'[s] = Converts(sub[s])
        BY <1>7, <2>2, <3>1 DEF TrialSweep
      <4> QED
        BY <4>1, <4>2 DEF Converts, Rows
    <3>2. CASE s \notin Converted
      BY <1>7, <2>2, <3>2 DEF TrialSweep
    <3> QED
      BY <3>1, <3>2
  <2>4. sub'[s] # NULL \/ s \in deleted
    <3>1. CASE s \in Converted
      <4>1. sub[s] \in Rows
        BY <1>0, <2>2, <3>1 DEF Converted
      <4>2. sub'[s] = Converts(sub[s])
        BY <1>7, <2>2, <3>1 DEF TrialSweep
      <4>3. sub'[s] \in Rows
        BY <4>1, <4>2 DEF Converts, Rows
      <4> QED
        BY <4>3, RowAssumption
    <3>2. CASE s \notin Converted
      BY <1>0, <1>7, <2>1, <2>2, <3>2 DEF TrialSweep, Moved, MovedSince
    <3> QED
      BY <3>1, <3>2
  <2> QED
    BY <1>0, <2>1, <2>3, <2>4 DEF Moved, MovedSince
<1>8. ASSUME NEW r \in Requests, NEW s \in Subs, BeginUpdate(r, s) PROVE MovedSince(q)'
  <2> DEFINE held == [kind |-> "patch", sub |-> s, read |-> sub[s], since |-> {}]
  <2>1. request' = [request EXCEPT ![r] = held] /\ sub[s] # NULL /\ UNCHANGED rowVars
    BY <1>8 DEF BeginUpdate
  <2>2. held.since = {} /\ held.read = sub[held.sub] /\ held.sub = s
    OBVIOUS
  <2> HIDE DEF held
  <2>3. q = r => request'[q] = held
    BY <1>0, <2>1
  <2>4. q # r => request'[q] = request[q]
    BY <1>0, <2>1
  <2> QED
    BY <1>2, <2>1, <2>2, <2>3, <2>4
<1>9. ASSUME NEW r \in Requests, NEW t \in Taps, BeginRenew(r, t) PROVE MovedSince(q)'
  <2> DEFINE held == [kind |-> "renew", sub |-> TapSub[t], read |-> sub[TapSub[t]], since |-> {}]
  <2>1. request' = [request EXCEPT ![r] = held] /\ sub[TapSub[t]] # NULL /\ UNCHANGED rowVars
    BY <1>9 DEF BeginRenew
  <2>2. held.since = {} /\ held.read = sub[held.sub] /\ held.sub = TapSub[t]
    OBVIOUS
  <2> HIDE DEF held
  <2>3. q = r => request'[q] = held
    BY <1>0, <2>1
  <2>4. q # r => request'[q] = request[q]
    BY <1>0, <2>1
  <2> QED
    BY <1>2, <2>1, <2>2, <2>3, <2>4
<1>10. ASSUME NEW r \in Requests, Abandon(r) PROVE MovedSince(q)'
  <2>1. request'[q] = request[q] /\ UNCHANGED rowVars
    BY <1>0, <1>10 DEF Abandon
  <2> QED
    BY <1>2, <2>1
<1>11. ASSUME UNCHANGED <<sub, deleted, request>> PROVE MovedSince(q)'
  BY <1>2, <1>11
<1> QED
  BY <1>3, <1>4, <1>5, <1>6, <1>7, <1>8, <1>9, <1>10, <1>11
     DEF Next, UserStep, Update, Tick, vars

-----------------------------------------------------------------------------
\* Every row a request has read is live or deleted, and has moved as its history says.
LEMMA MovedInvariant == Spec => []MovedInv
<1>1. Init => Moved
  BY DEF Init, Moved
<1>2. MovedInv /\ [Next]_vars => Moved'
  BY MovedStep
<1> QED
  BY SubscriptionsTypeCorrect, DeletedRowsStayDeleted, <1>1, <1>2, PTL DEF Spec, MovedInv

\* A callback that ends although its row was renewed, and not edited, since it read
\* it has not written.
LeavesRenewed ==
  \A r \in Requests :
    /\ request[r] # NULL /\ request'[r] = NULL
    /\ request[r].kind = "renew" /\ request[r].since = {"renewed"}
    => sub' = sub

\* Of two renewals that read the same date the second finds it moved, and no other
\* step ends a request that is not its own.
LEMMA OnceStep == MovedInv /\ [Next]_vars => LeavesRenewed
<1> SUFFICES ASSUME MovedInv, [Next]_vars, NEW r \in Requests,
                    request[r] # NULL, request'[r] = NULL,
                    request[r].kind = "renew", request[r].since = {"renewed"}
             PROVE  sub' = sub
  BY DEF LeavesRenewed
<1>0. TypeOK /\ MovedSince(r) /\ request \in [Requests -> Held \cup {NULL}]
  BY DEF MovedInv, Moved, TypeOK
<1> USE DEF rowVars
<1>1. ~DateStill(request[r].sub, request[r].read.next)
  BY <1>0, HeldFacts DEF MovedSince, DateStill, Rows, Dates
<1>2. ASSUME NEW s \in Subs, NEW what \in {"edited", "renewed"} PROVE Noted(s, what)[r] # NULL
  <2>1. Noted(s, what)[r] \in Held
    <3>1. request[r] \in Held
      BY <1>0
    <3>2. [request[r] EXCEPT !.since = @ \cup {what}] \in Held
      BY <3>1 DEF Held
    <3> QED
      BY <3>1, <3>2 DEF Noted
  <2> QED
    BY <2>1, RowAssumption
<1>3. ASSUME NEW p \in Requests, NEW date \in Dates, NEW period \in Periods,
             NEW trial \in BodyTrials, FinishUpdate(p, date, period, trial)
      PROVE  sub' = sub
  <2>1. p # r /\ request[p].sub \in Subs
    BY <1>0, <1>3, HeldFacts DEF FinishUpdate
  <2>2. request' # [Noted(request[p].sub, "edited") EXCEPT ![p] = NULL]
    BY <1>2, <2>1 DEF Noted
  <2> QED
    BY <1>3, <2>2 DEF FinishUpdate
<1>4. ASSUME NEW p \in Requests, FinishRenew(p) PROVE sub' = sub
  <2>1. CASE p = r
    BY <1>1, <1>4, <2>1 DEF FinishRenew
  <2>2. CASE p # r
    <3>1. request[p].sub \in Subs
      BY <1>0, <1>4, HeldFacts DEF FinishRenew
    <3>2. request' # [Noted(request[p].sub, "renewed") EXCEPT ![p] = NULL]
      BY <1>2, <2>2, <3>1 DEF Noted
    <3> QED
      BY <1>4, <3>2 DEF FinishRenew
  <2> QED
    BY <2>1, <2>2
<1>5. CreateAny \/ (\E s \in Subs : Delete(s)) => UNCHANGED request
  BY DEF CreateAny, Create, Delete
<1>6. \/ \E p \in Requests, s \in Subs : BeginUpdate(p, s)
      \/ \E p \in Requests, t \in Taps : BeginRenew(p, t)
      \/ \E p \in Requests : Abandon(p)
      => UNCHANGED sub
  BY DEF BeginUpdate, BeginRenew, Abandon
<1>7. TrialSweep \/ Tick \/ UNCHANGED vars => UNCHANGED request
  BY DEF TrialSweep, Tick, vars
<1> QED
  BY <1>3, <1>4, <1>5, <1>6, <1>7 DEF Next, UserStep, Update

\* A callback whose row was renewed, and not edited, since it read it leaves the row
\* alone: of overlapping deliveries one shifts the payment date.
THEOREM DoubleTapShiftsTheDateOnce == Spec => DoubleTapShiftsOnce
<1>1. MovedInv /\ [Next]_vars => [LeavesRenewed]_vars
  BY OnceStep
<1> QED
  BY <1>1, MovedInvariant, PTL DEF DoubleTapShiftsOnce, LeavesRenewed, Spec

-----------------------------------------------------------------------------
\* A PATCH that read a trial, over a row that has no end for it (any more).
LeftEndless(r) ==
  LET s == request[r].sub IN
  request[r].kind = "patch" /\ request[r].read.trial /\ Live(s) /\ sub[s].trialEnds = NULL
    => s \in endless

Explained(s) == Live(s) /\ sub[s].trial /\ sub[s].trialEnds = NULL => s \in endless

EndlessInv ==
  /\ MovedInv
  /\ \A s \in Subs : Explained(s)
  /\ \A r \in Requests : request[r] # NULL => LeftEndless(r)

\* Ending the trials of some rows puts on record those that a PATCH read as trials.
LEMMA EndedTrials ==
  ASSUME EndlessInv, NEW S \in SUBSET Subs, TrialsEnd(S), NEW q \in Requests,
         request[q] # NULL, request[q].kind = "patch", request[q].read.trial,
         request[q].sub \in S
  PROVE  request[q].sub \in endless'
  BY DEF TrialsEnd, ReadAsTrial

\* A PATCH keeps the row's end, and makes a trial only if told so or if it read one.
LEMMA EndlessUpdate ==
  ASSUME EndlessInv, NEW r \in Requests, NEW date \in Dates, NEW period \in Periods,
         NEW trial \in BodyTrials, FinishUpdate(r, date, period, trial)
  PROVE  /\ \A s \in Subs : Explained(s)'
         /\ \A q \in Requests : request'[q] # NULL => LeftEndless(q)'
<1> USE DEF Live
<1> DEFINE s == request[r].sub
           read == request[r].read
<1>0. /\ TypeOK /\ sub \in [Subs -> Rows \cup {NULL}] /\ s \in Subs /\ read \in Rows
      /\ request \in [Requests -> Held \cup {NULL}] /\ LeftEndless(r) /\ request[r].kind = "patch"
  BY HeldFacts DEF EndlessInv, MovedInv, TypeOK, FinishUpdate
<1>1. CASE UpdateMatches(s)
  <2>1. /\ sub' = [sub EXCEPT ![s] = Edited(sub[s], read, date, period, TrialOf(trial, read))]
        /\ request' = [Noted(s, "edited") EXCEPT ![r] = NULL]
        /\ endless' = IF trial = TRUE /\ sub[s].trialEnds = NULL
                      THEN endless \cup {s} ELSE endless
    BY <1>1 DEF FinishUpdate, UpdateMatches
  <2>2. /\ sub[s] # NULL /\ sub'[s].trialEnds = sub[s].trialEnds
        /\ sub'[s].trial = TrialOf(trial, read) /\ endless \subseteq endless'
    BY <1>0, <1>1, <2>1 DEF Edited, UpdateMatches
  <2>3. \A v \in Subs : v # s => sub'[v] = sub[v]
    BY <1>0, <2>1
  <2>4. ASSUME NEW v \in Subs PROVE Explained(v)'
    <3>1. CASE v # s
      BY <2>2, <2>3, <3>1 DEF EndlessInv, Explained
    <3>2. ASSUME sub'[s].trial, sub'[s].trialEnds = NULL PROVE s \in endless'
      <4>1. CASE trial = TRUE
        BY <2>1, <2>2, <3>2, <4>1
      <4>2. CASE trial # TRUE
        <5>1. read.trial
          BY <1>0, <2>2, <3>2, <4>2 DEF TrialOf, BodyTrials
        <5> QED
          BY <1>0, <2>2, <3>2, <5>1 DEF LeftEndless
      <4> QED
        BY <4>1, <4>2
    <3> QED
      BY <3>1, <3>2 DEF Explained
  <2>5. ASSUME NEW q \in Requests, request'[q] # NULL PROVE LeftEndless(q)'
    <3>1. request'[q] = Noted(s, "edited")[q]
      BY <2>1, <2>5 DEF Noted
    <3>2. /\ request[q] # NULL /\ request'[q].sub = request[q].sub
          /\ request'[q].read = request[q].read
      <4>1. Noted(s, "edited")[q] # NULL /\ TypeOK /\ s \in Subs
        BY <1>0, <2>5, <3>1
      <4> HIDE DEF s
      <4>2. /\ request[q] # NULL
            /\ Noted(s, "edited")[q].sub = request[q].sub
            /\ Noted(s, "edited")[q].read = request[q].read
        BY <4>1, NotedFacts
      <4> QED
        BY <3>1, <4>2
    <3>3. request'[q].kind = request[q].kind /\ request[q].sub \in Subs
      BY <1>0, <3>1, <3>2, HeldFacts DEF Noted, Held
    <3>4. request[q].sub \in Subs /\ LeftEndless(q)
      BY <3>2, <3>3 DEF EndlessInv
    <3>5. \A v \in Subs : (sub'[v] # NULL => sub[v] # NULL /\ sub'[v].trialEnds = sub[v].trialEnds)
      BY <2>2, <2>3
    <3> QED
      BY <2>2, <3>2, <3>3, <3>4, <3>5 DEF LeftEndless
  <2> QED
    BY <2>4, <2>5
<1>2. CASE ~UpdateMatches(s)
  <2>1. request' = [request EXCEPT ![r] = NULL] /\ UNCHANGED <<sub, endless>>
    BY <1>2 DEF FinishUpdate
  <2> QED
    BY <1>0, <2>1 DEF EndlessInv, Explained, LeftEndless
<1> QED
  BY <1>1, <1>2

\* A Renew that ends a trial notes the PATCHes that read one, or it keeps the row's end.
LEMMA EndlessRenew ==
  ASSUME EndlessInv, NEW r \in Requests, FinishRenew(r)
  PROVE  /\ \A s \in Subs : Explained(s)'
         /\ \A q \in Requests : request'[q] # NULL => LeftEndless(q)'
<1> USE DEF Live
<1> DEFINE s == request[r].sub
           read == request[r].read
           ended == IF read.trial THEN {s} ELSE {}
<1>0. /\ TypeOK /\ sub \in [Subs -> Rows \cup {NULL}] /\ s \in Subs /\ read \in Rows
      /\ request \in [Requests -> Held \cup {NULL}]
  BY HeldFacts DEF EndlessInv, MovedInv, TypeOK, FinishRenew
<1>1. CASE DateStill(s, read.next)
  <2>1. /\ request' = [Noted(s, "renewed") EXCEPT ![r] = NULL] /\ TrialsEnd(ended)
        /\ \A v \in Subs : v # s => sub'[v] = sub[v]
        /\ sub[s] # NULL
        /\ sub'[s].trial = IF read.trial THEN FALSE ELSE sub[s].trial
        /\ sub'[s].trialEnds = IF read.trial THEN NULL ELSE sub[s].trialEnds
    <3> DEFINE row == [next |-> advancePayment(read.next, read.period), period |-> sub[s].period,
                       trial |-> IF read.trial THEN FALSE ELSE sub[s].trial,
                       trialEnds |-> IF read.trial THEN NULL ELSE sub[s].trialEnds,
                       notified |-> NULL]
    <3>1. sub' = [sub EXCEPT ![s] = row] /\ sub[s] # NULL
      BY <1>1 DEF FinishRenew, DateStill
    <3>2. /\ row.trial = IF read.trial THEN FALSE ELSE sub[s].trial
          /\ row.trialEnds = IF read.trial THEN NULL ELSE sub[s].trialEnds
      OBVIOUS
    <3>3. request' = [Noted(s, "renewed") EXCEPT ![r] = NULL] /\ TrialsEnd(ended)
      BY <1>1 DEF FinishRenew
    <3> HIDE DEF row
    <3>4. sub'[s] = row /\ \A v \in Subs : v # s => sub'[v] = sub[v]
      BY <1>0, <3>1
    <3> QED
      BY <3>1, <3>2, <3>3, <3>4
  <2>2. \A v \in Subs : v \notin ended /\ v \in endless => v \in endless'
    BY <2>1 DEF TrialsEnd
  <2>3. \A v \in Subs : v \notin ended =>
          (sub'[v] # NULL => sub[v] # NULL /\ sub'[v].trialEnds = sub[v].trialEnds
                             /\ sub'[v].trial = sub[v].trial)
    BY <2>1
  <2>4. ASSUME NEW v \in Subs PROVE Explained(v)'
    <3>1. CASE v \in ended
      BY <2>1, <3>1 DEF Explained
    <3>2. CASE v \notin ended
      BY <2>2, <2>3, <3>2 DEF Explained, EndlessInv
    <3> QED
      BY <3>1, <3>2
  <2>5. ASSUME NEW q \in Requests, request'[q] # NULL PROVE LeftEndless(q)'
    <3>1. request'[q] = Noted(s, "renewed")[q]
      BY <2>1, <2>5 DEF Noted
    <3>2. /\ request[q] # NULL /\ request'[q].sub = request[q].sub
          /\ request'[q].read = request[q].read
      <4>1. Noted(s, "renewed")[q] # NULL /\ TypeOK /\ s \in Subs
        BY <1>0, <2>5, <3>1
      <4> HIDE DEF s
      <4>2. /\ request[q] # NULL
            /\ Noted(s, "renewed")[q].sub = request[q].sub
            /\ Noted(s, "renewed")[q].read = request[q].read
        BY <4>1, NotedFacts
      <4> QED
        BY <3>1, <4>2
    <3>3. request'[q].kind = request[q].kind /\ request[q].sub \in Subs
      BY <1>0, <3>1, <3>2, HeldFacts DEF Noted, Held
    <3>4. CASE request[q].sub \in ended
      <4>1. ended \in SUBSET Subs
        BY <1>0
      <4>2. request[q].kind = "patch" /\ request[q].read.trial => request[q].sub \in endless'
        BY <2>1, <3>2, <3>4, <4>1, EndedTrials
      <4> QED
        BY <3>2, <3>3, <4>2 DEF LeftEndless
    <3>5. CASE request[q].sub \notin ended
      BY <2>2, <2>3, <3>2, <3>3, <3>5 DEF LeftEndless, EndlessInv
    <3> QED
      BY <3>4, <3>5
  <2> QED
    BY <2>4, <2>5
<1>2. CASE ~DateStill(s, read.next)
  <2>1. request' = [request EXCEPT ![r] = NULL] /\ UNCHANGED <<sub, endless>>
    BY <1>2 DEF FinishRenew
  <2> QED
    BY <1>0, <2>1 DEF EndlessInv, Explained, LeftEndless
<1> QED
  BY <1>1, <1>2

\* The sweep leaves no converted row a trial, and notes the PATCHes that read one.
LEMMA EndlessSweep ==
  ASSUME EndlessInv, TrialSweep
  PROVE  /\ \A s \in Subs : Explained(s)'
         /\ \A q \in Requests : request'[q] # NULL => LeftEndless(q)'
<1> USE DEF Live
<1>0. /\ TypeOK /\ sub \in [Subs -> Rows \cup {NULL}] /\ request' = request
      /\ TrialsEnd(Converted) /\ Converted \in SUBSET Subs
  BY DEF EndlessInv, MovedInv, TypeOK, TrialSweep, Converted
<1>1. ASSUME NEW v \in Converted PROVE sub'[v].trial = FALSE
  <2>1. sub[v] \in Rows /\ sub'[v] = Converts(sub[v])
    BY <1>0 DEF Converted, TrialSweep
  <2> QED
    BY <2>1 DEF Converts, Rows
<1>2. \A v \in Subs : v \notin Converted => sub'[v] = sub[v] /\ (v \in endless => v \in endless')
  BY <1>0 DEF TrialSweep, TrialsEnd
<1>3. ASSUME NEW v \in Subs PROVE Explained(v)'
  BY <1>1, <1>2 DEF Explained, EndlessInv
<1>4. ASSUME NEW q \in Requests, request'[q] # NULL PROVE LeftEndless(q)'
  <2>1. request[q].sub \in Subs /\ LeftEndless(q)
    BY <1>0, <1>4, HeldFacts DEF EndlessInv
  <2>2. CASE request[q].sub \in Converted
    <3>1. request[q].kind = "patch" /\ request[q].read.trial => request[q].sub \in endless'
      BY <1>0, <1>4, <2>2, EndedTrials
    <3> QED
      BY <1>0, <3>1 DEF LeftEndless
  <2>3. CASE request[q].sub \notin Converted
    BY <1>0, <1>2, <2>1, <2>3 DEF LeftEndless
  <2> QED
    BY <2>2, <2>3
<1> QED
  BY <1>3, <1>4

\* Every step keeps every trial without an end on record.
LEMMA EndlessStep == EndlessInv /\ MovedInv' /\ [Next]_vars => EndlessInv'
<1> SUFFICES ASSUME EndlessInv, [Next]_vars
             PROVE  /\ \A s \in Subs : Explained(s)'
                    /\ \A q \in Requests : request'[q] # NULL => LeftEndless(q)'
  BY DEF EndlessInv
<1> USE DEF rowVars, Live
<1>0. /\ TypeOK /\ Moved /\ sub \in [Subs -> Rows \cup {NULL}]
      /\ request \in [Requests -> Held \cup {NULL}]
  BY DEF EndlessInv, MovedInv, TypeOK
<1>1. CASE CreateAny
  <2>1. PICK v \in Subs, date \in Dates, period \in Periods, trial \in BOOLEAN :
          \E ends \in {NULL, date} : Create(v, date, period, trial, ends)
    BY <1>1 DEF CreateAny
  <2>2. PICK ends \in {NULL, date} : Create(v, date, period, trial, ends)
    BY <2>1
  <2>3. /\ v \notin deleted /\ sub[v] = NULL /\ request' = request /\ endless \subseteq endless'
        /\ \A s \in Subs : s # v => sub'[s] = sub[s]
    BY <1>0, <2>2 DEF Create
  <2>4. sub'[v].trial /\ sub'[v].trialEnds = NULL => v \in endless'
    BY <1>0, <2>2 DEF Create
  <2>5. \A q \in Requests : request[q] # NULL => request[q].sub \in Subs \ {v}
    BY <1>0, <2>3, HeldFacts DEF Moved, MovedSince
  <2> QED
    BY <2>3, <2>4, <2>5 DEF EndlessInv, Explained, LeftEndless
<1>2. ASSUME NEW r \in Requests, NEW s \in Subs, BeginUpdate(r, s)
      PROVE  /\ \A v \in Subs : Explained(v)'
             /\ \A q \in Requests : request'[q] # NULL => LeftEndless(q)'
  <2> DEFINE held == [kind |-> "patch", sub |-> s, read |-> sub[s], since |-> {}]
  <2>1. request' = [request EXCEPT ![r] = held] /\ UNCHANGED <<sub, endless>>
    BY <1>2 DEF BeginUpdate
  <2>2. held.read = sub[s] /\ held.sub = s
    OBVIOUS
  <2> HIDE DEF held
  <2>3. \A q \in Requests : request'[q] = IF q = r THEN held ELSE request[q]
    BY <1>0, <2>1
  <2> QED
    BY <2>1, <2>2, <2>3 DEF EndlessInv, Explained, LeftEndless
<1>3. ASSUME NEW r \in Requests, NEW t \in Taps, BeginRenew(r, t)
      PROVE  /\ \A v \in Subs : Explained(v)'
             /\ \A q \in Requests : request'[q] # NULL => LeftEndless(q)'
  <2> DEFINE held == [kind |-> "renew", sub |-> TapSub[t], read |-> sub[TapSub[t]],
                      since |-> {}]
  <2>1. request' = [request EXCEPT ![r] = held] /\ UNCHANGED <<sub, endless>>
    BY <1>3 DEF BeginRenew
  <2>2. held.kind = "renew"
    OBVIOUS
  <2> HIDE DEF held
  <2>3. \A q \in Requests : request'[q] = IF q = r THEN held ELSE request[q]
    BY <1>0, <2>1
  <2> QED
    BY <2>1, <2>2, <2>3 DEF EndlessInv, Explained, LeftEndless
<1>4. ASSUME NEW s \in Subs, Delete(s)
      PROVE  /\ \A v \in Subs : Explained(v)'
             /\ \A q \in Requests : request'[q] # NULL => LeftEndless(q)'
  <2>1. /\ UNCHANGED <<request, endless>>
        /\ \A v \in Subs : sub'[v] = sub[v] \/ sub'[v] = NULL
    BY <1>0, <1>4 DEF Delete
  <2>2. \A q \in Requests : request[q] # NULL => request[q].sub \in Subs
    BY <1>0, HeldFacts
  <2> QED
    BY <2>1, <2>2 DEF EndlessInv, Explained, LeftEndless
<1>5. ASSUME NEW r \in Requests, Abandon(r)
      PROVE  /\ \A v \in Subs : Explained(v)'
             /\ \A q \in Requests : request'[q] # NULL => LeftEndless(q)'
  <2>1. \A q \in Requests : request'[q] # NULL => request'[q] = request[q]
    BY <1>0, <1>5 DEF Abandon
  <2> QED
    BY <1>5, <2>1 DEF Abandon, EndlessInv, Explained, LeftEndless
<1>6. ASSUME UNCHANGED <<sub, request, endless>>
      PROVE  /\ \A v \in Subs : Explained(v)'
             /\ \A q \in Requests : request'[q] # NULL => LeftEndless(q)'
  BY <1>6 DEF EndlessInv, Explained, LeftEndless
<1> QED
  BY <1>1, <1>2, <1>3, <1>4, <1>5, <1>6, EndlessUpdate, EndlessRenew, EndlessSweep
     DEF Next, UserStep, Update, Tick, vars

\* trial_expiry.go: a trial no sweep will ever end was asked for, or comes from a PATCH
\* that was in flight when the sweep or a Renew ended the trial it had read.
THEOREM EndlessTrialsExplained == Spec => []EndlessTrialExplained
<1>1. Init => EndlessInv
  BY TypeInit DEF Init, EndlessInv, MovedInv, Moved, DeletedStaysDeleted, Explained, Live
<1>2. EndlessInv => EndlessTrialExplained
  BY DEF EndlessInv, Explained, EndlessTrialExplained
<1> QED
  BY <1>1, <1>2, MovedInvariant, EndlessStep, PTL DEF Spec
=============================================================================
