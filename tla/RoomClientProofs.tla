-------------------------- MODULE RoomClientProofs --------------------------
(***************************************************************************)
(* Theorems about the rooms in the client: that a load never shows less    *)
(* than the client had heard of, that the last mark the user was told of   *)
(* stands, and that a room joined is listed once.                          *)
(***************************************************************************)
EXTENDS RoomClient, TLAPS

SheetParts == [reminding : BOOLEAN, payBusy : BOOLEAN]
Thens == {"open", "remind"} \cup Edits

\* A sheet with one of its flags set.
LEMMA SheetFlags ==
  ASSUME NEW s \in SheetParts, NEW b \in BOOLEAN
  PROVE  /\ [s EXCEPT !.reminding = b] \in SheetParts
         /\ [s EXCEPT !.payBusy = b] \in SheetParts
         /\ [s EXCEPT !.reminding = b].payBusy = s.payBusy
         /\ [s EXCEPT !.payBusy = b].payBusy = b
BY DEF SheetParts

\* The handler that waited for a load leaves the mark in flight alone.
LEMMA HandlerReturned ==
  ASSUME TypeOK, HandlerReturns
  PROVE  /\ sheet' \in SheetParts /\ sheet'.payBusy = sheet.payBusy
         /\ dialog' \in Dialogs \cup {None}
<1>1. sheet \in SheetParts
  BY DEF TypeOK, SheetParts
<1>2. CASE fetch = None
  <2>1. sheet' = sheet /\ dialog' = dialog
    BY <1>2 DEF HandlerReturns
  <2>2. dialog \in Dialogs \cup {None}
    BY DEF TypeOK
  <2> QED
    BY <1>1, <2>1, <2>2
<1>3. CASE fetch # None
  <2>1. PICK b \in BOOLEAN : b = (sheet.reminding /\ fetch.then # "remind")
    OBVIOUS
  <2>2. sheet' = [sheet EXCEPT !.reminding = b]
    BY <1>3, <2>1 DEF HandlerReturns
  <2>3. dialog' \in {dialog, None}
    BY DEF HandlerReturns
  <2>4. dialog \in Dialogs \cup {None}
    BY DEF TypeOK
  <2> QED
    BY <1>1, <2>2, <2>3, <2>4, SheetFlags
<1> QED
  BY <1>2, <1>3

\* fetchDetail: what a load that starts looks like.
LEMMA FetchStarted ==
  ASSUME TypeOK, NEW r \in Rooms, NEW then \in Thens, NEW since \in Nat,
         StartFetch(r, then, since)
  PROVE  /\ fetch' = [room |-> r, then |-> then, since |-> since, answer |-> None]
         /\ fetch' \in Fetches
         /\ detail' \in RoomDetailData \cup {None}
         /\ sheet' \in SheetParts /\ sheet'.payBusy = sheet.payBusy
         /\ dialog' \in Dialogs \cup {None}
         /\ told' \in Reports \cup {"no"}
<1>1. fetch' = [room |-> r, then |-> then, since |-> since, answer |-> None]
  BY DEF StartFetch
<1>2. [room |-> r, then |-> then, since |-> since, answer |-> None] \in Fetches
  BY DEF Fetches, Thens, Answers
<1>3. detail' \in {detail, None}
  BY DEF StartFetch
<1>4. detail \in RoomDetailData \cup {None}
  BY DEF TypeOK
<1>5. told' \in Reports \cup {"no"}
  BY DEF StartFetch, TypeOK, Reports
<1>6. HandlerReturns
  BY DEF StartFetch
<1> QED
  BY <1>1, <1>2, <1>3, <1>4, <1>5, <1>6, HandlerReturned

\* GlobalModals' effect: the load of the room that opens, or none.
LEMMA RoomChanged ==
  ASSUME TypeOK, NEW r \in Rooms \cup {None}, ActiveRoomEffect(r)
  PROVE  /\ \/ fetch' = fetch
            \/ r \in Rooms /\ fetch' = [room |-> r, then |-> "open", since |-> seen[r],
                                        answer |-> None]
         /\ fetch' \in Fetches \cup {None}
         /\ detail' \in RoomDetailData \cup {None}
         /\ sheet' \in SheetParts /\ sheet'.payBusy = sheet.payBusy
         /\ dialog' \in Dialogs \cup {None}
         /\ told' \in Reports \cup {"no"}
<1>0. sheet \in SheetParts
  BY DEF TypeOK, SheetParts
<1>1. CASE r = activeRoom
  <2>1. UNCHANGED <<fetch, detail, sheet, dialog, told>>
    BY <1>1 DEF ActiveRoomEffect
  <2> QED
    BY <1>0, <2>1 DEF TypeOK
<1>2. CASE r # activeRoom /\ r # None
  <2>1. StartFetch(r, "open", seen[r]) /\ r \in Rooms
    BY <1>2 DEF ActiveRoomEffect
  <2>2. "open" \in Thens /\ seen[r] \in Nat
    BY <2>1 DEF TypeOK, Thens
  <2> QED
    BY <2>1, <2>2, FetchStarted
<1>3. CASE r # activeRoom /\ r = None
  <2>1. detail' = None /\ UNCHANGED <<fetch, sheet, dialog, told>>
    BY <1>3 DEF ActiveRoomEffect
  <2> QED
    BY <1>0, <2>1 DEF TypeOK
<1> QED
  BY <1>1, <1>2, <1>3

\* A mutation sent is one more in flight, unanswered.
LEMMA MutationSent ==
  ASSUME TypeOK, NEW op \in Ops, NEW r \in Rooms \cup {None}, Send(op, r),
         op # "create" => r \in Rooms
  PROVE  /\ muts' = muts \cup {[id |-> ops + 1, op |-> op, room |-> r, answer |-> None]}
         /\ muts' \subseteq Mutations
         /\ \A m \in muts' : m.op # "create" => m.room \in Rooms
         /\ ops' \in 0 .. MaxOps
<1> USE RoomClientAssumption
<1>1. ops \in 0 .. MaxOps /\ ops < MaxOps /\ ops' = ops + 1
  BY DEF TypeOK, Send
<1>2. ops + 1 \in 1 .. MaxOps /\ ops' \in 0 .. MaxOps
  BY <1>1
<1>3. PICK n : n = [id |-> ops + 1, op |-> op, room |-> r, answer |-> None]
  OBVIOUS
<1>4. n \in Mutations /\ n.op = op /\ n.room = r
  BY <1>2, <1>3 DEF Mutations, Answers
<1>5. muts' = muts \cup {n}
  BY <1>1, <1>3 DEF Send
<1> QED
  BY <1>2, <1>3, <1>4, <1>5 DEF TypeOK

\* The backend changes one row and answers with it.
LEMMA RowChanged ==
  ASSUME TypeOK, NEW m \in muts, m.room \in Rooms
  PROVE  /\ Effect(m) \in ServerRoom
         /\ Effect(m).ver >= server[m.room].ver
         /\ Effect(m).owner = server[m.room].owner
         /\ m.op \in Marks => Effect(m).paid = (m.op = "pay")
         /\ m.op \notin Marks => Effect(m).paid = server[m.room].paid
<1>1. PICK row \in ServerRoom : row = server[m.room]
  BY DEF TypeOK
<1>2. PICK v \in Nat : v = row.ver + 1
  BY DEF ServerRoom
<1>3. row.ver \in Nat
  BY DEF ServerRoom
<1>4. PICK b \in BOOLEAN : b = (m.op = "pay")
  OBVIOUS
<1>5. CASE m.op \in Marks
  <2>1. Effect(m) = [row EXCEPT !.paid = b, !.ver = v]
    <3>1. Effect(m) = [server[m.room] EXCEPT !.paid = (m.op = "pay"),
                                             !.ver = server[m.room].ver + 1]
      BY <1>5 DEF Effect, Marks, Deletes
    <3> QED
      BY <1>1, <1>2, <1>4, <3>1, Zenon
  <2>2. /\ [row EXCEPT !.paid = b, !.ver = v] \in ServerRoom
        /\ [row EXCEPT !.paid = b, !.ver = v].paid = b
        /\ [row EXCEPT !.paid = b, !.ver = v].ver = v
        /\ [row EXCEPT !.paid = b, !.ver = v].owner = row.owner
    BY DEF ServerRoom
  <2> QED
    BY <1>1, <1>2, <1>3, <1>4, <1>5, <2>1, <2>2
<1>6. CASE m.op \notin Marks
  <2>1. \/ Effect(m) = [row EXCEPT !.state = "gone"]
        \/ Effect(m) = [row EXCEPT !.member = TRUE, !.ver = v]
        \/ Effect(m) = [row EXCEPT !.cool = TRUE, !.ver = v]
        \/ Effect(m) = [row EXCEPT !.ver = v]
    <3>1. CASE m.op \in Deletes
      BY <1>1, <1>6, <3>1 DEF Effect, Marks, Deletes
    <3>2. CASE m.op \notin Deletes /\ m.op = "join"
      BY <1>1, <1>2, <1>6, <3>2 DEF Effect
    <3>3. CASE m.op \notin Deletes /\ m.op = "remind"
      BY <1>1, <1>2, <1>6, <3>3 DEF Effect
    <3>4. CASE m.op \notin Deletes /\ m.op \notin {"join", "remind"}
      BY <1>1, <1>2, <1>6, <3>4 DEF Effect
    <3> QED
      BY <3>1, <3>2, <3>3, <3>4
  <2>2. ASSUME NEW new, \/ new = [row EXCEPT !.state = "gone"]
                        \/ new = [row EXCEPT !.member = TRUE, !.ver = v]
                        \/ new = [row EXCEPT !.cool = TRUE, !.ver = v]
                        \/ new = [row EXCEPT !.ver = v]
        PROVE  /\ new \in ServerRoom /\ (new.ver = row.ver \/ new.ver = v)
               /\ new.owner = row.owner /\ new.paid = row.paid
    <3>1. TRUE \in BOOLEAN
      OBVIOUS
    <3> QED
      BY <2>2, <3>1 DEF ServerRoom
  <2>3. /\ Effect(m) \in ServerRoom /\ (Effect(m).ver = row.ver \/ Effect(m).ver = v)
        /\ Effect(m).owner = row.owner /\ Effect(m).paid = row.paid
    BY <2>1, <2>2
  <2> QED
    BY <1>1, <1>2, <1>3, <1>6, <2>3
<1> QED
  BY <1>5, <1>6

\* The answer tells the row as it is then.
LEMMA AnswerTells ==
  ASSUME NEW r \in Rooms, NEW row \in ServerRoom
  PROVE  /\ DetailAfter(r, row) \in RoomDetailData
         /\ DetailAfter(r, row).ver = row.ver
BY DEF DetailAfter, ServerRoom, RoomDetailData

\* What a handled mutation looks like in flight.
LEMMA MutationHandled ==
  ASSUME TypeOK, NEW m \in muts, Handle(m)
  PROVE  /\ m.room \in Rooms
         /\ server' = [server EXCEPT ![m.room] = Effect(m)]
         /\ \E n \in Mutations : /\ muts' = (muts \ {m}) \cup {n}
                                 /\ n.op = m.op /\ n.room = m.room
                                 /\ n.answer = DetailAfter(m.room, Effect(m))
<1>1. m.room \in Rooms /\ m \in Mutations
  BY DEF Handle, TypeOK, Mutations
<1>2. DetailAfter(m.room, Effect(m)) \in RoomDetailData
  BY <1>1, RowChanged, AnswerTells
<1>3. PICK a \in RoomDetailData : a = DetailAfter(m.room, Effect(m))
  BY <1>2
<1>4. PICK n : n = [m EXCEPT !.answer = a]
  OBVIOUS
<1>5. n \in Mutations /\ n.op = m.op /\ n.room = m.room /\ n.answer = a
  BY <1>1, <1>4 DEF Mutations, Answers
<1>6. muts' = (muts \ {m}) \cup {n} /\ server' = [server EXCEPT ![m.room] = Effect(m)]
  BY <1>3, <1>4 DEF Handle
<1> QED
  BY <1>1, <1>3, <1>5, <1>6

\* A POST the backend handled adds the row of one room and names it in the request.
LEMMA CreationHandled ==
  ASSUME TypeOK, NEW m \in muts, NEW r \in Rooms, HandleCreate(m, r)
  PROVE  \E row \in ServerRoom :
           /\ row.owner /\ row.ver = server[r].ver /\ row.paid = server[r].paid
           /\ server' = [server EXCEPT ![r] = row]
           /\ \E n \in Mutations : /\ muts' = (muts \ {m}) \cup {n}
                                   /\ n.op = m.op /\ n.room = r
                                   /\ n.answer = DetailAfter(r, row)
<1>1. m \in Mutations /\ server[r] \in ServerRoom /\ server \in [Rooms -> ServerRoom]
  BY DEF TypeOK
<1>2. PICK row : row = [server[r] EXCEPT !.state = "alive", !.owner = TRUE, !.member = TRUE]
  OBVIOUS
<1>3. /\ row \in ServerRoom /\ row.owner /\ row.ver = server[r].ver
      /\ row.paid = server[r].paid
  BY <1>1, <1>2 DEF ServerRoom
<1>4. server' = [server EXCEPT ![r] = row]
  BY <1>2 DEF HandleCreate
<1>5. server'[r] = row
  BY <1>1, <1>4
<1>6. PICK a \in RoomDetailData : a = DetailAfter(r, row)
  BY <1>3, AnswerTells
<1>7. PICK n : n = [m EXCEPT !.room = r, !.answer = a]
  OBVIOUS
<1>8. n \in Mutations /\ n.op = m.op /\ n.room = r /\ n.answer = a
  BY <1>1, <1>7 DEF Mutations, Answers
<1>9. muts' = (muts \ {m}) \cup {n}
  BY <1>5, <1>6, <1>7 DEF HandleCreate
<1> QED
  BY <1>3, <1>4, <1>6, <1>8, <1>9

\* What a mutation answers with.
LEMMA AnswerTyped ==
  ASSUME TypeOK, NEW m \in muts, Ok(m)
  PROVE  m \in Mutations /\ m.answer \in RoomDetailData /\ m.answer.ver \in Nat
<1>1. m \in Mutations /\ m.answer # None
  BY DEF TypeOK, Ok
<1>2. m.answer \in RoomDetailData
  BY <1>1 DEF Mutations, Answers
<1> QED
  BY <1>1, <1>2 DEF RoomDetailData

\* The newest version heard of a room.
LEMMA SeenTyped ==
  ASSUME TypeOK, NEW r, NEW v \in Nat
  PROVE  [seen EXCEPT ![r] = Newest(@, v)] \in [Rooms -> Nat]
<1>1. seen \in [Rooms -> Nat]
  BY DEF TypeOK
<1>2. CASE r \in Rooms
  <2>1. Newest(seen[r], v) \in Nat
    BY <1>1, <1>2 DEF Newest
  <2> QED
    BY <1>1, <2>1
<1>3. CASE r \notin Rooms
  BY <1>1, <1>3
<1> QED
  BY <1>2, <1>3

\* roomStore and what plays with it keep their types.
THEOREM RoomClientTypeCorrect ==
  Spec => []TypeOK
<1> USE RoomClientAssumption
<1>1. Init => TypeOK
  <2> SUFFICES ASSUME Init PROVE TypeOK
    OBVIOUS
  <2>1. server \in [Rooms -> ServerRoom]
    <3>1. PICK theirs \in SUBSET (Rooms \ {Own}) :
            server = [r \in Rooms |->
              [state |-> IF r = Own \/ r \in theirs THEN "alive" ELSE "none",
               owner |-> r \notin theirs, member |-> r = Own,
               ver |-> 0, paid |-> FALSE, cool |-> FALSE]]
      BY DEF Init
    <3>2. ASSUME NEW st \in {"none", "alive", "gone"}, NEW o \in BOOLEAN, NEW b \in BOOLEAN,
                 NEW f \in BOOLEAN
          PROVE  [state |-> st, owner |-> o, member |-> b, ver |-> 0, paid |-> f,
                  cool |-> f] \in ServerRoom
      BY DEF ServerRoom
    <3>3. \A r \in Rooms :
            [state |-> IF r = Own \/ r \in theirs THEN "alive" ELSE "none",
             owner |-> r \notin theirs, member |-> r = Own,
             ver |-> 0, paid |-> FALSE, cool |-> FALSE] \in ServerRoom
      <4> TAKE r \in Rooms
      <4>1. /\ (IF r = Own \/ r \in theirs THEN "alive" ELSE "none") \in {"none", "alive", "gone"}
            /\ (r \notin theirs) \in BOOLEAN /\ (r = Own) \in BOOLEAN /\ FALSE \in BOOLEAN
        OBVIOUS
      <4> QED
        BY <3>2, <4>1
    <3> QED
      BY <3>1, <3>3, Zenon
  <2>2. sheet \in [reminding : BOOLEAN, payBusy : BOOLEAN]
    <3>1. FALSE \in BOOLEAN
      OBVIOUS
    <3> QED
      BY <3>1 DEF Init
  <2>3. list \in [Rooms -> Nat] /\ seen \in [Rooms -> Nat]
    BY DEF Init, Listed
  <2>4. /\ listReq \in [Callers -> ListRequests \cup {None}]
        /\ mark \in [Rooms -> Marks \cup {"none", "unknown"}]
    BY DEF Init
  <2>5. told \in Reports \cup {"no"}
    BY Zenon DEF Init
  <2>6. ops \in 0 .. MaxOps
    BY DEF Init
  <2>7. /\ activeRoom \in Rooms \cup {None} /\ detail \in RoomDetailData \cup {None}
        /\ fetch \in Fetches \cup {None} /\ muts = {}
        /\ dialog \in Dialogs \cup {None}
        /\ link \in {"none", "room", "invite", "joining"}
    BY DEF Init
  <2> QED
    BY <2>1, <2>2, <2>3, <2>4, <2>5, <2>6, <2>7 DEF TypeOK
<1>2. TypeOK /\ [Next]_vars => TypeOK'
  <2> SUFFICES ASSUME TypeOK, [Next]_vars PROVE TypeOK'
    OBVIOUS
  <2> USE DEF client, history
  <2>a. sheet \in SheetParts
    BY DEF TypeOK, SheetParts
  <2>b. ASSUME muts' \subseteq muts PROVE /\ muts' \subseteq Mutations
                                          /\ \A m \in muts' : m.op # "create" => m.room \in Rooms
    BY <2>b DEF TypeOK
  <2>1. CASE FetchRead
    <3>1. fetch \in Fetches /\ server[fetch.room] \in ServerRoom
      BY <2>1 DEF FetchRead, TypeOK, Visible
    <3>2. fetch.room \in Rooms
      BY <3>1 DEF Fetches
    <3>3. Snapshot(fetch.room) \in RoomDetailData
      BY <3>1, <3>2 DEF Snapshot, RoomDetailData, ServerRoom
    <3>4. fetch' \in Fetches
      BY <2>1, <3>1, <3>3 DEF FetchRead, Fetches, Answers
    <3> QED
      BY <2>1, <3>4 DEF FetchRead, TypeOK
  <2>2. CASE FetchPopulates
    <3>1. fetch \in Fetches /\ fetch.answer # None
      BY <2>2 DEF FetchPopulates, TypeOK
    <3>2. fetch.answer \in RoomDetailData
      BY <3>1 DEF Fetches, Answers
    <3>3. fetch.answer.ver \in Nat
      BY <3>2 DEF RoomDetailData
    <3>4. seen' \in [Rooms -> Nat]
      BY <2>2, <3>3, SeenTyped DEF FetchPopulates
    <3>5. sheet' \in SheetParts /\ dialog' \in Dialogs \cup {None}
      BY <2>2, HandlerReturned DEF FetchPopulates
    <3> QED
      BY <2>2, <3>2, <3>4, <3>5 DEF FetchPopulates, TypeOK, SheetParts
  <2>3. CASE FetchFails
    <3>1. sheet' \in SheetParts /\ dialog' \in Dialogs \cup {None}
      BY <2>3, HandlerReturned DEF FetchFails
    <3>2. told' \in Reports \cup {"no"}
      BY <2>3, Zenon DEF FetchFails
    <3>3. detail' = None /\ fetch' = None
          /\ UNCHANGED <<server, activeRoom, muts, list, listReq, link, ops, mark, seen>>
      BY <2>3 DEF FetchFails
    <3> QED
      BY <3>1, <3>2, <3>3 DEF TypeOK, SheetParts
  <2>4. ASSUME NEW r \in Rooms \cup {None}, ActiveRoomEffect(r), activeRoom' = r,
               link' \in {"none", link},
               UNCHANGED <<server, muts, list, listReq, ops, mark, seen>>
        PROVE  TypeOK'
    BY <2>4, RoomChanged DEF TypeOK, SheetParts
  <2>5. ASSUME NEW r \in Rooms, OpenRoom(r) \/ RoomLink(r) PROVE TypeOK'
    BY <2>4, <2>5 DEF OpenRoom, RoomLink
  <2>6. CASE CloseRoom
    BY <2>4, <2>6 DEF CloseRoom
  <2>7. ASSUME NEW d \in Dialogs, OpenDialog(d) PROVE TypeOK'
    BY <2>7 DEF OpenDialog, TypeOK
  <2>8. CASE CancelDialog
    BY <2>8 DEF CancelDialog, TypeOK
  <2>9. CASE Confirm
    <3>1. /\ dialog \in Dialogs /\ dialog' = None
          /\ UNCHANGED <<server, activeRoom, detail, fetch, list, listReq, link, history>>
      BY <2>9 DEF Confirm, TypeOK
    <3>2. CASE detail = None \/ (dialog \in Marks /\ sheet.payBusy)
      <4>1. UNCHANGED <<ops, muts, sheet>>
        BY <2>9, <3>2 DEF Confirm
      <4> QED
        BY <3>1, <4>1 DEF TypeOK
    <3>3. CASE ~(detail = None \/ (dialog \in Marks /\ sheet.payBusy))
      <4>1. Send(dialog, detail.room)
        BY <2>9, <3>3 DEF Confirm
      <4>2. detail.room \in Rooms
        BY <3>3 DEF TypeOK, RoomDetailData
      <4>3. dialog \in Ops
        BY <3>1 DEF Dialogs, Ops, ConfirmedEdits, Deletes
      <4>4. /\ muts' \subseteq Mutations /\ ops' \in 0 .. MaxOps
            /\ \A m \in muts' : m.op # "create" => m.room \in Rooms
        BY <4>1, <4>2, <4>3, MutationSent
      <4>5. PICK b \in BOOLEAN : b = (sheet.payBusy \/ dialog \in Marks)
        OBVIOUS
      <4>6. sheet' = [sheet EXCEPT !.payBusy = b]
        BY <2>9, <3>3, <4>5, Zenon DEF Confirm
      <4>7. sheet' \in SheetParts
        BY <2>a, <4>6, SheetFlags
      <4> QED
        BY <3>1, <4>4, <4>7 DEF TypeOK, SheetParts
    <3> QED
      BY <3>2, <3>3
  <2>10. ASSUME NEW op \in Ops, NEW r \in Rooms \cup {None}, Send(op, r),
                op # "create" => r \in Rooms, link' \in {link, "joining"},
                sheet' \in SheetParts,
                UNCHANGED <<server, activeRoom, detail, fetch, list, listReq, dialog, history>>
         PROVE  TypeOK'
    <3>1. /\ muts' \subseteq Mutations /\ ops' \in 0 .. MaxOps
          /\ \A m \in muts' : m.op # "create" => m.room \in Rooms
      BY <2>10, MutationSent
    <3> QED
      BY <2>10, <3>1 DEF TypeOK, SheetParts
  <2>11. ASSUME NEW op \in Edits \ ConfirmedEdits, PickEdit(op) PROVE TypeOK'
    <3>1. detail.room \in Rooms
      BY <2>11 DEF PickEdit, SheetShown, TypeOK, RoomDetailData
    <3>2. op \in Ops
      BY DEF Ops
    <3> QED
      BY <2>a, <2>10, <2>11, <3>1, <3>2 DEF PickEdit
  <2>12. CASE Remind
    <3>1. detail.room \in Rooms
      BY <2>12 DEF Remind, SheetShown, TypeOK, RoomDetailData
    <3>2. "remind" \in Ops /\ TRUE \in BOOLEAN
      BY DEF Ops
    <3>3. sheet' \in SheetParts
      BY <2>12, <2>a, <3>2, SheetFlags DEF Remind
    <3> QED
      BY <2>10, <2>12, <3>1, <3>2, <3>3 DEF Remind
  <2>13. ASSUME NEW r \in Rooms, DeleteCard(r) PROVE TypeOK'
    <3>1. "deleteCard" \in Ops
      BY DEF Ops, Deletes
    <3> QED
      BY <2>a, <2>10, <2>13, <3>1 DEF DeleteCard
  <2>14. CASE CreateRoom
    <3>1. "create" \in Ops
      BY DEF Ops
    <3> QED
      BY <2>a, <2>10, <2>14, <3>1 DEF CreateRoom
  <2>15. ASSUME NEW r \in Rooms, JoinByInvite(r) PROVE TypeOK'
    <3>1. "join" \in Ops
      BY DEF Ops
    <3> QED
      BY <2>a, <2>10, <2>15, <3>1 DEF JoinByInvite
  <2>16. ASSUME NEW m \in muts, Handle(m) PROVE TypeOK'
    <3>1. server' \in [Rooms -> ServerRoom]
      BY <2>16, MutationHandled, RowChanged DEF TypeOK
    <3>2. PICK n \in Mutations : muts' = (muts \ {m}) \cup {n} /\ n.op = m.op /\ n.room = m.room
      BY <2>16, MutationHandled
    <3>3. muts' \subseteq Mutations /\ \A k \in muts' : k.op # "create" => k.room \in Rooms
      BY <3>2 DEF TypeOK
    <3> QED
      BY <2>16, <3>1, <3>3 DEF Handle, TypeOK
  <2>17. ASSUME NEW m \in muts, NEW r \in Rooms, HandleCreate(m, r) PROVE TypeOK'
    <3>1. PICK row \in ServerRoom :
            /\ server' = [server EXCEPT ![r] = row]
            /\ \E n \in Mutations : muts' = (muts \ {m}) \cup {n} /\ n.room = r
      BY <2>17, CreationHandled
    <3>2. muts' \subseteq Mutations /\ \A k \in muts' : k.op # "create" => k.room \in Rooms
      BY <3>1 DEF TypeOK
    <3>3. server' \in [Rooms -> ServerRoom]
      BY <3>1 DEF TypeOK
    <3> QED
      BY <2>17, <3>2, <3>3 DEF HandleCreate, TypeOK
  <2>18. ASSUME NEW m \in muts, MarkOk(m) PROVE TypeOK'
    <3>1. m.answer \in RoomDetailData /\ m.answer.ver \in Nat
      BY <2>18, AnswerTyped DEF MarkOk
    <3>2. seen' \in [Rooms -> Nat]
      BY <2>18, <3>1, SeenTyped DEF MarkOk
    <3>3. FALSE \in BOOLEAN
      OBVIOUS
    <3>4. sheet' \in SheetParts
      BY <2>18, <2>a, <3>3, SheetFlags DEF MarkOk
    <3>5. mark' \in [Rooms -> Marks \cup {"none", "unknown"}]
      BY <2>18 DEF MarkOk, TypeOK
    <3>6. muts' \subseteq muts
      BY <2>18 DEF MarkOk
    <3>7. detail' = m.answer
          /\ UNCHANGED <<server, activeRoom, fetch, list, listReq, dialog, link, ops, told>>
      BY <2>18 DEF MarkOk
    <3> QED
      BY <2>b, <3>1, <3>2, <3>4, <3>5, <3>6, <3>7 DEF TypeOK, SheetParts
  <2>19. ASSUME NEW m \in muts, DeleteOk(m) PROVE TypeOK'
    <3>1. list' \in [Rooms -> Nat]
      BY <2>19 DEF DeleteOk, TypeOK
    <3>2. muts' \subseteq muts
      BY <2>19 DEF DeleteOk
    <3>3. /\ activeRoom' \in {None, activeRoom} /\ detail' \in {None, detail}
          /\ dialog' \in {None, dialog}
          /\ UNCHANGED <<server, fetch, listReq, sheet, link, ops, history>>
      BY <2>19 DEF DeleteOk
    <3> QED
      BY <2>b, <3>1, <3>2, <3>3 DEF TypeOK
  <2>20. ASSUME NEW m \in muts, CreateOk(m) PROVE TypeOK'
    <3>1. list' \in [Rooms -> Nat]
      <4>1. list \in [Rooms -> Nat] /\ list' = [list EXCEPT ![m.room] = @ + 1]
        BY <2>20 DEF CreateOk, TypeOK
      <4>2. CASE m.room \in Rooms
        <5>1. list[m.room] + 1 \in Nat
          BY <4>1, <4>2
        <5> QED
          BY <4>1, <5>1
      <4>3. CASE m.room \notin Rooms
        BY <4>1, <4>3
      <4> QED
        BY <4>2, <4>3
    <3>2. muts' \subseteq muts
      BY <2>20 DEF CreateOk
    <3> QED
      BY <2>b, <2>20, <3>1, <3>2 DEF CreateOk, TypeOK
  <2>21. ASSUME NEW m \in muts, JoinOk(m) PROVE TypeOK'
    <3>1. list' \in [Rooms -> Nat]
      BY <2>21 DEF JoinOk, TypeOK
    <3>2. m.room \in Rooms /\ muts' \subseteq muts
      BY <2>21 DEF JoinOk, TypeOK
    <3>3. [room |-> m.room, answer |-> None] \in ListRequests
      BY <3>2 DEF ListRequests
    <3>4. listReq' \in [Callers -> ListRequests \cup {None}]
      BY <2>21, <3>3 DEF JoinOk, TypeOK
    <3> QED
      BY <2>b, <2>21, <3>1, <3>2, <3>4 DEF JoinOk, TypeOK
  <2>22. ASSUME NEW m \in muts, RefetchAfterMutation(m) PROVE TypeOK'
    <3>1. m.answer.ver \in Nat
      BY <2>22, AnswerTyped DEF RefetchAfterMutation
    <3>2. seen' \in [Rooms -> Nat]
      BY <2>22, <3>1, SeenTyped DEF RefetchAfterMutation
    <3>3. m.room \in Rooms /\ m.op \in Thens /\ muts' \subseteq muts
      BY <2>22 DEF RefetchAfterMutation, TypeOK, Thens
    <3>4. PICK v \in Nat : v = seen'[m.room]
      BY <3>2, <3>3
    <3>5. StartFetch(m.room, m.op, v)
      BY <2>22, <3>4 DEF RefetchAfterMutation
    <3>6. /\ fetch' \in Fetches /\ detail' \in RoomDetailData \cup {None}
          /\ sheet' \in SheetParts /\ dialog' \in Dialogs \cup {None} /\ told' \in Reports \cup {"no"}
      BY <3>3, <3>5, FetchStarted
    <3>7. UNCHANGED <<server, activeRoom, list, listReq, link, ops, mark>>
      BY <2>22 DEF RefetchAfterMutation
    <3> QED
      BY <2>b, <3>2, <3>3, <3>6, <3>7 DEF TypeOK, SheetParts
  <2>23. ASSUME NEW m \in muts, MutationFails(m) PROVE TypeOK'
    <3>1. PICK b \in BOOLEAN, c \in BOOLEAN : /\ b = (sheet.payBusy /\ m.op \notin Marks)
                                             /\ c = (sheet.reminding /\ m.op # "remind")
      OBVIOUS
    <3>2. sheet' = [sheet EXCEPT !.payBusy = b, !.reminding = c]
      BY <2>23, <3>1, Zenon DEF MutationFails
    <3>3. sheet' \in SheetParts
      BY <2>a, <3>2 DEF SheetParts
    <3>4. mark' \in [Rooms -> Marks \cup {"none", "unknown"}]
      BY <2>23 DEF MutationFails, TypeOK
    <3>5. /\ link' \in {"none", link} /\ muts' \subseteq muts
          /\ UNCHANGED <<server, activeRoom, detail, fetch, list, listReq, dialog, ops,
                         told, seen>>
      BY <2>23 DEF MutationFails
    <3> QED
      BY <2>b, <3>3, <3>4, <3>5 DEF TypeOK, SheetParts
  <2>24. CASE FetchRooms
    <3>1. [room |-> None, answer |-> None] \in ListRequests
      BY DEF ListRequests
    <3>2. listReq' \in [Callers -> ListRequests \cup {None}]
      BY <2>24, <3>1 DEF FetchRooms, TypeOK
    <3> QED
      BY <2>24, <3>2 DEF FetchRooms, TypeOK
  <2>25. ASSUME NEW c \in Callers, ListRead(c) PROVE TypeOK'
    <3>1. listReq[c] \in ListRequests /\ Visible \in SUBSET Rooms
      BY <2>25 DEF ListRead, TypeOK, Visible
    <3>2. [listReq[c] EXCEPT !.answer = Visible] \in ListRequests
      BY <3>1 DEF ListRequests
    <3>3. listReq' = [listReq EXCEPT ![c] = [listReq[c] EXCEPT !.answer = Visible]]
      BY <2>25 DEF ListRead
    <3>4. listReq' \in [Callers -> ListRequests \cup {None}]
      BY <3>2, <3>3 DEF TypeOK
    <3> QED
      BY <2>25, <3>4 DEF ListRead, TypeOK
  <2>26. ASSUME NEW c \in Callers, NEW ok \in BOOLEAN, ListAnswered(c, ok) PROVE TypeOK'
    <3>1. listReq[c] \in ListRequests
      BY <2>26 DEF ListAnswered, TypeOK
    <3>2. list' \in [Rooms -> Nat]
      BY <2>26 DEF ListAnswered, TypeOK, Listed
    <3>3. listReq' \in [Callers -> ListRequests \cup {None}]
      BY <2>26 DEF ListAnswered, TypeOK
    <3>4. UNCHANGED <<server, muts, ops, mark, seen>>
      BY <2>26 DEF ListAnswered
    <3>5. CASE c = "link"
      <4>1. /\ activeRoom' = listReq[c].room /\ link' = "none"
            /\ ActiveRoomEffect(listReq[c].room)
        BY <2>26, <3>5 DEF ListAnswered
      <4>2. listReq[c].room \in Rooms \cup {None}
        BY <3>1 DEF ListRequests
      <4>3. /\ fetch' \in Fetches \cup {None} /\ detail' \in RoomDetailData \cup {None}
            /\ sheet' \in SheetParts /\ dialog' \in Dialogs \cup {None} /\ told' \in Reports \cup {"no"}
        BY <4>1, <4>2, RoomChanged
      <4> QED
        BY <3>2, <3>3, <3>4, <4>1, <4>2, <4>3 DEF TypeOK, SheetParts
    <3>6. CASE c # "link"
      <4>1. UNCHANGED <<activeRoom, link, fetch, detail, sheet, dialog, told>>
        BY <2>26, <3>6 DEF ListAnswered
      <4> QED
        BY <3>2, <3>3, <3>4, <4>1 DEF TypeOK
    <3> QED
      BY <3>5, <3>6
  <2>27. CASE UNCHANGED vars
    BY <2>27 DEF vars, TypeOK
  <2> QED
    BY <2>1, <2>2, <2>3, <2>5, <2>6, <2>7, <2>8, <2>9, <2>11, <2>12, <2>13, <2>14, <2>15,
       <2>16, <2>17, <2>18, <2>19, <2>20, <2>21, <2>22, <2>23, <2>24, <2>25, <2>26, <2>27
       DEF Next, User, Backend, Answered, FetchSettles
<1> QED
  BY <1>1, <1>2, PTL DEF Spec

\* What has no mutation to do with leaves rows, mutations and marks alone.
Elsewhere ==
    \/ FetchRead \/ FetchPopulates \/ FetchFails
    \/ \E r \in Rooms : OpenRoom(r) \/ RoomLink(r)
    \/ CloseRoom
    \/ \E d \in Dialogs : OpenDialog(d)
    \/ CancelDialog \/ FetchRooms
    \/ \E c \in Callers : ListRead(c)
    \/ \E c \in Callers, ok \in BOOLEAN : ListAnswered(c, ok)
    \/ UNCHANGED vars

\* The steps that only read leave the backend, the requests and the marks as they are.
LEMMA ElsewhereUntouched ==
  ASSUME TypeOK, Elsewhere
  PROVE  server' = server /\ muts' = muts /\ mark' = mark /\ sheet'.payBusy = sheet.payBusy
<1> USE DEF history, client
<1>1. CASE FetchRead
  BY <1>1 DEF FetchRead
<1>2. CASE FetchPopulates
  BY <1>2, HandlerReturned DEF FetchPopulates
<1>3. CASE FetchFails
  BY <1>3, HandlerReturned DEF FetchFails
<1>4. ASSUME NEW r \in Rooms, OpenRoom(r) \/ RoomLink(r)
      PROVE  server' = server /\ muts' = muts /\ mark' = mark /\ sheet'.payBusy = sheet.payBusy
  BY <1>4, RoomChanged DEF OpenRoom, RoomLink
<1>5. CASE CloseRoom
  BY <1>5, RoomChanged DEF CloseRoom
<1>6. ASSUME NEW d \in Dialogs, OpenDialog(d)
      PROVE  server' = server /\ muts' = muts /\ mark' = mark /\ sheet'.payBusy = sheet.payBusy
  BY <1>6 DEF OpenDialog
<1>7. CASE CancelDialog \/ FetchRooms
  BY <1>7 DEF CancelDialog, FetchRooms
<1>8. ASSUME NEW c \in Callers, ListRead(c)
      PROVE  server' = server /\ muts' = muts /\ mark' = mark /\ sheet'.payBusy = sheet.payBusy
  BY <1>8 DEF ListRead
<1>9. ASSUME NEW c \in Callers, NEW ok \in BOOLEAN, ListAnswered(c, ok)
      PROVE  server' = server /\ muts' = muts /\ mark' = mark /\ sheet'.payBusy = sheet.payBusy
  <2>1. listReq[c].room \in Rooms \cup {None}
    BY <1>9 DEF ListAnswered, TypeOK, ListRequests
  <2>2. ActiveRoomEffect(listReq[c].room) => sheet'.payBusy = sheet.payBusy
    BY <2>1, RoomChanged
  <2> QED
    BY <1>9, <2>2 DEF ListAnswered
<1>10. CASE UNCHANGED vars
  BY <1>10 DEF vars
<1> QED
  BY <1>1, <1>2, <1>3, <1>4, <1>5, <1>6, <1>7, <1>8, <1>9, <1>10 DEF Elsewhere

\* The other steps: a mutation is sent, handled or answered.
LEMMA OtherwiseMutations ==
  ASSUME [Next]_vars, ~Elsewhere
  PROVE  \/ Confirm \/ \E op \in Edits \ ConfirmedEdits : PickEdit(op)
         \/ Remind \/ CreateRoom
         \/ \E r \in Rooms : JoinByInvite(r) \/ DeleteCard(r)
         \/ \E m \in muts : Handle(m) \/ \E r \in Rooms : HandleCreate(m, r)
         \/ \E m \in muts : MarkOk(m) \/ DeleteOk(m) \/ CreateOk(m) \/ JoinOk(m)
         \/ \E m \in muts : RefetchAfterMutation(m) \/ MutationFails(m)
BY Zenon DEF Next, User, Backend, Answered, FetchSettles, Elsewhere

\* A mutation other than a mark that is sent.
LEMMA OtherSent ==
  ASSUME TypeOK,
         \/ \E op \in Edits \ ConfirmedEdits : PickEdit(op)
         \/ Remind \/ CreateRoom
         \/ \E r \in Rooms : JoinByInvite(r) \/ DeleteCard(r)
  PROVE  /\ \E n : /\ muts' = muts \cup {n} /\ n.op \notin Marks
                   /\ n.answer = None
         /\ server' = server /\ mark' = mark /\ seen' = seen /\ list' = list
         /\ fetch' = fetch /\ sheet'.payBusy = sheet.payBusy
<1> USE DEF history
<1>1. ASSUME NEW op, op \notin Marks, NEW r, Send(op, r)
      PROVE  \E n : muts' = muts \cup {n} /\ n.op \notin Marks /\ n.answer = None
  <2>1. PICK n : n = [id |-> ops', op |-> op, room |-> r, answer |-> None]
    OBVIOUS
  <2>2. muts' = muts \cup {n}
    BY <1>1, <2>1 DEF Send
  <2>3. n.op = op /\ n.answer = None
    BY <2>1
  <2> QED
    BY <1>1, <2>2, <2>3
<1>2. ASSUME NEW op \in Edits \ ConfirmedEdits, PickEdit(op)
      PROVE  /\ \E n : muts' = muts \cup {n} /\ n.op \notin Marks /\ n.answer = None
             /\ server' = server /\ mark' = mark /\ seen' = seen /\ list' = list
             /\ fetch' = fetch /\ sheet'.payBusy = sheet.payBusy
  <2>1. op \notin Marks
    BY RoomClientAssumption DEF Marks
  <2> QED
    BY <1>1, <1>2, <2>1 DEF PickEdit
<1>3. CASE Remind
  <2>1. sheet' = [sheet EXCEPT !.reminding = TRUE] /\ TRUE \in BOOLEAN
    BY <1>3 DEF Remind
  <2>2. sheet \in SheetParts
    BY DEF TypeOK, SheetParts
  <2>3. sheet'.payBusy = sheet.payBusy
    BY <2>1, <2>2, SheetFlags
  <2>4. "remind" \notin Marks
    BY DEF Marks
  <2> QED
    BY <1>1, <1>3, <2>3, <2>4 DEF Remind
<1>4. CASE CreateRoom
  <2>1. "create" \notin Marks
    BY DEF Marks
  <2> QED
    BY <1>1, <1>4, <2>1 DEF CreateRoom
<1>5. ASSUME NEW r \in Rooms, JoinByInvite(r) \/ DeleteCard(r)
      PROVE  /\ \E n : muts' = muts \cup {n} /\ n.op \notin Marks /\ n.answer = None
             /\ server' = server /\ mark' = mark /\ seen' = seen /\ list' = list
             /\ fetch' = fetch /\ sheet'.payBusy = sheet.payBusy
  <2>1. "join" \notin Marks /\ "deleteCard" \notin Marks
    BY DEF Marks
  <2> QED
    BY <1>1, <1>5, <2>1 DEF JoinByInvite, DeleteCard
<1> QED
  BY <1>2, <1>3, <1>4, <1>5

\* The sheet's confirmation: nothing, or a mutation that is no second mark.
LEMMA ConfirmSends ==
  ASSUME TypeOK, Confirm
  PROVE  /\ server' = server /\ mark' = mark /\ seen' = seen /\ list' = list /\ fetch' = fetch
         /\ \/ muts' = muts /\ sheet' = sheet
            \/ \E n : /\ muts' = muts \cup {n} /\ n.op \in Dialogs /\ n.answer = None
                      /\ IF n.op \in Marks THEN ~sheet.payBusy /\ sheet'.payBusy
                                           ELSE sheet'.payBusy = sheet.payBusy
<1>1. /\ dialog \in Dialogs
      /\ server' = server /\ mark' = mark /\ seen' = seen /\ list' = list /\ fetch' = fetch
  BY DEF Confirm, TypeOK, history
<1>2. CASE detail = None \/ (dialog \in Marks /\ sheet.payBusy)
  BY <1>1, <1>2 DEF Confirm
<1>3. CASE ~(detail = None \/ (dialog \in Marks /\ sheet.payBusy))
  <2>1. Send(dialog, detail.room)
    BY <1>3 DEF Confirm
  <2>2. PICK n : n = [id |-> ops', op |-> dialog, room |-> detail.room, answer |-> None]
    OBVIOUS
  <2>3. muts' = muts \cup {n} /\ n.op = dialog /\ n.answer = None
    BY <2>1, <2>2 DEF Send
  <2>4. PICK b \in BOOLEAN : b = (sheet.payBusy \/ dialog \in Marks)
    OBVIOUS
  <2>5. sheet' = [sheet EXCEPT !.payBusy = b]
    BY <1>3, <2>4, Zenon DEF Confirm
  <2>6. sheet \in SheetParts
    BY DEF TypeOK, SheetParts
  <2>7. sheet'.payBusy = b
    BY <2>5, <2>6, SheetFlags
  <2>8. CASE dialog \in Marks
    BY <1>1, <1>3, <2>3, <2>4, <2>7, <2>8
  <2>9. CASE dialog \notin Marks
    <3>1. b = sheet.payBusy
      BY <2>4, <2>6, <2>9 DEF SheetParts
    <3> QED
      BY <1>1, <2>3, <2>7, <2>9, <3>1
  <2> QED
    BY <2>8, <2>9
<1> QED
  BY <1>2, <1>3

\* What keeps the last mark: pendingPayUid lets one be in flight, and the row of
\* one that was handled holds it.
MarkInv ==
    /\ \A m \in muts : m.op \in Marks => sheet.payBusy
    /\ \A m, n \in muts : m.op \in Marks /\ n.op \in Marks => m = n
    /\ \A m \in muts : m.op \in Marks /\ m.answer # None =>
          server[m.room].paid = (m.op = "pay")
    /\ LastMarkWins

\* It stays when the marks in flight, the marks told and the rows do.
LEMMA MarkInvFramed ==
  ASSUME MarkInv, mark' = mark, sheet'.payBusy = sheet.payBusy,
         \A m : m.op \in Marks => (m \in muts' <=> m \in muts),
         \A r \in Rooms : server'[r].paid = server[r].paid,
         \A m \in muts : m.op \in Marks => m.room \in Rooms
  PROVE  MarkInv'
<1>1. \A m \in muts' : m.op \in Marks => m \in muts
  OBVIOUS
<1>2. \A m \in muts' : m.op \in Marks => sheet'.payBusy
  BY <1>1 DEF MarkInv
<1>3. \A m, n \in muts' : m.op \in Marks /\ n.op \in Marks => m = n
  BY <1>1 DEF MarkInv
<1>4. \A m \in muts' : m.op \in Marks /\ m.answer # None =>
          server'[m.room].paid = (m.op = "pay")
  BY <1>1 DEF MarkInv
<1>5. ASSUME NEW r \in Rooms, \A m \in muts' : m.op \in Marks => m.room # r,
             mark'[r] \in Marks
      PROVE  server'[r].paid = (mark'[r] = "pay")
  <2>1. \A m \in muts : m.op \in Marks => m.room # r
    BY <1>5
  <2> QED
    BY <1>5, <2>1 DEF MarkInv, LastMarkWins
<1> QED
  BY <1>2, <1>3, <1>4, <1>5 DEF MarkInv, LastMarkWins

\* Every step keeps the last mark.
LEMMA MarkInvInductive ==
  ASSUME TypeOK, MarkInv, [Next]_vars
  PROVE  MarkInv'
<1>a. \A m \in muts : m.op \in Marks => m.room \in Rooms
  BY DEF TypeOK, Marks
<1>1. CASE Elsewhere
  BY <1>1, <1>a, ElsewhereUntouched, MarkInvFramed
<1>2. CASE Confirm
  <2>1. /\ server' = server /\ mark' = mark
        /\ \/ muts' = muts /\ sheet' = sheet
           \/ \E n : /\ muts' = muts \cup {n} /\ n.op \in Dialogs /\ n.answer = None
                     /\ IF n.op \in Marks THEN ~sheet.payBusy /\ sheet'.payBusy
                                          ELSE sheet'.payBusy = sheet.payBusy
    BY <1>2, ConfirmSends
  <2>2. CASE muts' = muts /\ sheet' = sheet
    BY <1>a, <2>1, <2>2, MarkInvFramed
  <2>3. ASSUME NEW n, muts' = muts \cup {n}, n.op \notin Marks, sheet'.payBusy = sheet.payBusy
        PROVE  MarkInv'
    BY <1>a, <2>1, <2>3, MarkInvFramed
  <2>4. ASSUME NEW n, muts' = muts \cup {n}, n.op \in Marks, n.answer = None,
               ~sheet.payBusy, sheet'.payBusy
        PROVE  MarkInv'
    <3>1. \A m \in muts : m.op \notin Marks
      BY <2>4 DEF MarkInv
    <3>2. LastMarkWins'
      <4> SUFFICES ASSUME NEW r \in Rooms, \A m \in muts' : m.op \in Marks => m.room # r,
                          mark'[r] \in Marks
                   PROVE  server'[r].paid = (mark'[r] = "pay")
        BY DEF LastMarkWins
      <4> QED
        BY <2>1, <3>1 DEF MarkInv, LastMarkWins
    <3> QED
      BY <2>1, <2>4, <3>1, <3>2 DEF MarkInv
  <2> QED
    BY <2>1, <2>2, <2>3, <2>4
<1>3. CASE \/ \E op \in Edits \ ConfirmedEdits : PickEdit(op)
           \/ Remind \/ CreateRoom
           \/ \E r \in Rooms : JoinByInvite(r) \/ DeleteCard(r)
  <2>1. /\ \E n : muts' = muts \cup {n} /\ n.op \notin Marks
        /\ server' = server /\ mark' = mark /\ sheet'.payBusy = sheet.payBusy
    BY <1>3, OtherSent
  <2> QED
    BY <1>a, <2>1, MarkInvFramed
<1>4. ASSUME NEW m \in muts, Handle(m) PROVE MarkInv'
  <2>1. m.room \in Rooms /\ server' = [server EXCEPT ![m.room] = Effect(m)]
    BY <1>4, MutationHandled
  <2>2. PICK n : muts' = (muts \ {m}) \cup {n} /\ n.op = m.op /\ n.room = m.room
    BY <1>4, MutationHandled
  <2>3. mark' = mark /\ sheet' = sheet
    BY <1>4 DEF Handle, history
  <2>4. server'[m.room] = Effect(m) /\ \A r \in Rooms \ {m.room} : server'[r] = server[r]
    BY <2>1 DEF TypeOK
  <2>5. CASE m.op \notin Marks
    <3>1. Effect(m).paid = server[m.room].paid
      BY <2>1, <2>5, RowChanged
    <3>2. \A r \in Rooms : server'[r].paid = server[r].paid
      BY <2>1, <2>4, <3>1
    <3> QED
      BY <1>a, <2>2, <2>3, <2>5, <3>2, MarkInvFramed
  <2>6. CASE m.op \in Marks
    <3>1. Effect(m).paid = (m.op = "pay")
      BY <2>1, <2>6, RowChanged
    <3>2. \A k \in muts' : k.op \in Marks => k = n
      BY <2>2, <2>6 DEF MarkInv
    <3>3. LastMarkWins'
      <4> SUFFICES ASSUME NEW r \in Rooms, \A k \in muts' : k.op \in Marks => k.room # r,
                          mark'[r] \in Marks
                   PROVE  server'[r].paid = (mark'[r] = "pay")
        BY DEF LastMarkWins
      <4>1. r # m.room
        BY <2>2, <2>6
      <4>2. \A k \in muts : k.op \in Marks => k.room # r
        BY <2>6, <4>1 DEF MarkInv
      <4> QED
        BY <2>3, <2>4, <4>1, <4>2 DEF MarkInv, LastMarkWins
    <3>4. sheet'.payBusy
      BY <2>3, <2>6 DEF MarkInv
    <3>5. \A k \in muts' : k.op \in Marks /\ k.answer # None =>
             server'[k.room].paid = (k.op = "pay")
      BY <2>2, <2>4, <3>1, <3>2
    <3> QED
      BY <3>2, <3>3, <3>4, <3>5 DEF MarkInv
  <2> QED
    BY <2>5, <2>6
<1>5. ASSUME NEW m \in muts, NEW r \in Rooms, HandleCreate(m, r) PROVE MarkInv'
  <2>1. m.op \notin Marks /\ mark' = mark /\ sheet' = sheet
    BY <1>5 DEF HandleCreate, Marks, history
  <2>2. PICK row \in ServerRoom :
          /\ row.paid = server[r].paid /\ server' = [server EXCEPT ![r] = row]
          /\ \E n : muts' = (muts \ {m}) \cup {n} /\ n.op = m.op
    BY <1>5, CreationHandled
  <2>3. \A q \in Rooms : server'[q].paid = server[q].paid
    BY <2>2 DEF TypeOK
  <2> QED
    BY <1>a, <2>1, <2>2, <2>3, MarkInvFramed
<1>6. ASSUME NEW m \in muts, MarkOk(m) PROVE MarkInv'
  <2>1. /\ m.op \in Marks /\ m.answer # None /\ muts' = muts \ {m} /\ server' = server
        /\ mark' = [mark EXCEPT ![m.room] = IF @ = "unknown" THEN @ ELSE m.op]
    BY <1>6 DEF MarkOk, Ok
  <2>2. \A k \in muts' : k.op \notin Marks
    BY <2>1 DEF MarkInv
  <2>3. server[m.room].paid = (m.op = "pay")
    BY <2>1 DEF MarkInv
  <2>4. LastMarkWins'
    <3> SUFFICES ASSUME NEW r \in Rooms, mark'[r] \in Marks
                 PROVE  server'[r].paid = (mark'[r] = "pay")
      BY DEF LastMarkWins
    <3>1. CASE r = m.room
      <4>1. mark'[r] \in {"unknown", m.op}
        BY <2>1, <3>1 DEF TypeOK
      <4>2. mark'[r] = m.op
        BY <4>1 DEF Marks
      <4> QED
        BY <2>1, <2>3, <3>1, <4>2
    <3>2. CASE r # m.room
      <4>1. mark'[r] = mark[r]
        BY <2>1, <3>2 DEF TypeOK
      <4>2. \A k \in muts : k.op \in Marks => k.room # r
        BY <2>1, <3>2 DEF MarkInv
      <4> QED
        BY <2>1, <4>1, <4>2 DEF MarkInv, LastMarkWins
    <3> QED
      BY <3>1, <3>2
  <2> QED
    BY <2>2, <2>4 DEF MarkInv
<1>7. ASSUME NEW m \in muts, DeleteOk(m) \/ CreateOk(m) \/ JoinOk(m) PROVE MarkInv'
  <2>1. /\ m.op \notin Marks /\ muts' = muts \ {m}
        /\ server' = server /\ mark' = mark /\ sheet' = sheet
    BY <1>7 DEF DeleteOk, CreateOk, JoinOk, Marks, Deletes, history
  <2> QED
    BY <1>a, <2>1, MarkInvFramed
<1>8. ASSUME NEW m \in muts, RefetchAfterMutation(m) PROVE MarkInv'
  <2>1. m.op \notin Marks /\ m.op \in Thens /\ m.room \in Rooms
    BY <1>8, RoomClientAssumption DEF RefetchAfterMutation, Marks, TypeOK, Thens
  <2>2. seen'[m.room] \in Nat
    <3>1. m.answer.ver \in Nat
      BY <1>8, AnswerTyped DEF RefetchAfterMutation
    <3>2. seen' \in [Rooms -> Nat]
      BY <1>8, <3>1, SeenTyped DEF RefetchAfterMutation
    <3> QED
      BY <2>1, <3>2
  <2>3. StartFetch(m.room, m.op, seen'[m.room])
    BY <1>8 DEF RefetchAfterMutation
  <2>4. PICK v \in Nat : StartFetch(m.room, m.op, v)
    BY <2>2, <2>3
  <2>5. sheet'.payBusy = sheet.payBusy
    BY <2>1, <2>4, FetchStarted
  <2>6. muts' = muts \ {m} /\ server' = server /\ mark' = mark
    BY <1>8 DEF RefetchAfterMutation
  <2> QED
    BY <1>a, <2>1, <2>5, <2>6, MarkInvFramed
<1>9. ASSUME NEW m \in muts, MutationFails(m) PROVE MarkInv'
  <2>1. muts' = muts \ {m} /\ server' = server
    BY <1>9 DEF MutationFails
  <2>2. CASE m.op \notin Marks
    <3>1. PICK b \in BOOLEAN, c \in BOOLEAN : /\ b = (sheet.payBusy /\ m.op \notin Marks)
                                              /\ c = (sheet.reminding /\ m.op # "remind")
      OBVIOUS
    <3>2. sheet' = [sheet EXCEPT !.payBusy = b, !.reminding = c]
      BY <1>9, <3>1, Zenon DEF MutationFails
    <3>3. sheet \in SheetParts
      BY DEF TypeOK, SheetParts
    <3>4. b = sheet.payBusy
      BY <2>2, <3>1, <3>3 DEF SheetParts
    <3>5. sheet'.payBusy = b
      BY <3>2, <3>3 DEF SheetParts
    <3>6. mark' = mark
      BY <1>9, <2>2 DEF MutationFails
    <3> QED
      BY <1>a, <2>1, <2>2, <3>4, <3>5, <3>6, MarkInvFramed
  <2>3. CASE m.op \in Marks
    <3>1. mark' = [mark EXCEPT ![m.room] = "unknown"]
      BY <1>9, <2>3 DEF MutationFails
    <3>2. \A k \in muts' : k.op \notin Marks
      BY <2>1, <2>3 DEF MarkInv
    <3>3. LastMarkWins'
      <4> SUFFICES ASSUME NEW r \in Rooms, mark'[r] \in Marks
                   PROVE  server'[r].paid = (mark'[r] = "pay")
        BY DEF LastMarkWins
      <4>1. r # m.room /\ mark'[r] = mark[r]
        BY <3>1 DEF TypeOK, Marks
      <4>2. \A k \in muts : k.op \in Marks => k.room # r
        BY <2>3, <4>1 DEF MarkInv
      <4> QED
        BY <2>1, <4>1, <4>2 DEF MarkInv, LastMarkWins
    <3> QED
      BY <3>2, <3>3 DEF MarkInv
  <2> QED
    BY <2>2, <2>3
<1> QED
  BY <1>1, <1>2, <1>3, <1>4, <1>5, <1>6, <1>7, <1>8, <1>9, OtherwiseMutations

\* SharedRoomSheet, pendingPayUid: with no mark in flight and none failed, the
\* backend holds the mark the user was last told of.
THEOREM LastMarkStands ==
  Spec => []LastMarkWins
<1>1. Init => MarkInv
  <2> SUFFICES ASSUME Init PROVE MarkInv
    OBVIOUS
  <2>1. muts = {} /\ \A r \in Rooms : mark[r] \notin Marks
    BY DEF Init, Marks
  <2> QED
    BY <2>1 DEF MarkInv, LastMarkWins
<1>2. TypeOK /\ MarkInv /\ [Next]_vars => MarkInv'
  BY MarkInvInductive
<1>3. MarkInv => LastMarkWins
  BY DEF MarkInv
<1> QED
  BY <1>1, <1>2, <1>3, RoomClientTypeCorrect, PTL DEF Spec

\* What keeps a load fresh: nobody has heard of a version the backend has not
\* reached, and rows only move on.
FreshInv ==
    /\ \A r \in Rooms : seen[r] <= server[r].ver
    /\ \A m \in muts : m.answer # None =>
          m.room \in Rooms /\ m.answer.ver <= server[m.room].ver
    /\ fetch # None => fetch.since <= server[fetch.room].ver
    /\ fetch # None /\ fetch.answer # None =>
          /\ fetch.since <= fetch.answer.ver
          /\ fetch.answer.ver <= server[fetch.room].ver

\* The larger of two versions a row has reached.
LEMMA NewestReached ==
  ASSUME NEW v \in Nat, NEW w \in Nat, NEW top \in Nat, v <= top, w <= top
  PROVE  Newest(v, w) <= top /\ Newest(v, w) \in Nat
BY DEF Newest

\* An answer that is taken is heard of.
LEMMA AnswerHeard ==
  ASSUME TypeOK, FreshInv, NEW m \in muts, Ok(m),
         seen' = [seen EXCEPT ![m.room] = Newest(@, m.answer.ver)], server' = server
  PROVE  \A r \in Rooms : seen'[r] <= server'[r].ver
<1>1. m.answer.ver \in Nat /\ m.room \in Rooms /\ m.answer.ver <= server[m.room].ver
  BY AnswerTyped DEF FreshInv, Ok
<1>2. seen[m.room] \in Nat /\ seen[m.room] <= server[m.room].ver
  BY <1>1 DEF TypeOK, FreshInv
<1>3. server[m.room].ver \in Nat
  BY <1>1 DEF TypeOK, ServerRoom
<1>4. Newest(seen[m.room], m.answer.ver) <= server[m.room].ver
  BY <1>1, <1>2, <1>3, NewestReached
<1>5. \A r \in Rooms : seen'[r] = IF r = m.room THEN Newest(seen[m.room], m.answer.ver)
                                                ELSE seen[r]
  BY DEF TypeOK
<1> QED
  BY <1>4, <1>5 DEF FreshInv

\* It stays when rows move on and the mutations that are answered were so before.
LEMMA FreshInvFramed ==
  ASSUME TypeOK, FreshInv, seen' = seen, fetch' = fetch, server' \in [Rooms -> ServerRoom],
         \A r \in Rooms : server'[r].ver >= server[r].ver,
         \A m \in muts' : m.answer # None =>
            m \in muts \/ (m.room \in Rooms /\ m.answer.ver <= server'[m.room].ver)
  PROVE  FreshInv'
<1>1. ASSUME NEW r \in Rooms, NEW v \in Nat, v <= server[r].ver PROVE v <= server'[r].ver
  <2>1. server[r].ver \in Nat /\ server'[r].ver \in Nat
    BY DEF TypeOK, ServerRoom
  <2> QED
    BY <1>1, <2>1
<1>2. \A r \in Rooms : seen'[r] <= server'[r].ver
  BY <1>1 DEF FreshInv, TypeOK
<1>3. ASSUME NEW m \in muts', m.answer # None
      PROVE  m.room \in Rooms /\ m.answer.ver <= server'[m.room].ver
  <2>1. CASE m \in muts
    <3>1. m.room \in Rooms /\ m.answer.ver <= server[m.room].ver
      BY <1>3, <2>1 DEF FreshInv
    <3>2. m.answer.ver \in Nat
      BY <1>3, <2>1, AnswerTyped DEF Ok
    <3> QED
      BY <1>1, <3>1, <3>2
  <2> QED
    BY <1>3, <2>1
<1>4. ASSUME fetch # None
      PROVE  /\ fetch.since <= server'[fetch.room].ver
             /\ fetch.answer # None => /\ fetch.since <= fetch.answer.ver
                                       /\ fetch.answer.ver <= server'[fetch.room].ver
  <2>1. fetch \in Fetches
    BY <1>4 DEF TypeOK
  <2>2. fetch.room \in Rooms /\ fetch.since \in Nat
    BY <2>1 DEF Fetches
  <2>3. fetch.answer # None => fetch.answer.ver \in Nat
    BY <2>1 DEF Fetches, Answers, RoomDetailData
  <2> QED
    BY <1>1, <1>4, <2>2, <2>3 DEF FreshInv
<1> QED
  BY <1>2, <1>3, <1>4 DEF FreshInv

\* A load that starts asks for what is known.
LEMMA FreshInvStarted ==
  ASSUME TypeOK, server' = server, NEW r \in Rooms,
         \A q \in Rooms : seen'[q] <= server'[q].ver,
         \A m \in muts' : m.answer # None =>
            m.room \in Rooms /\ m.answer.ver <= server'[m.room].ver,
         NEW then, NEW since, since <= server[r].ver,
         fetch' = [room |-> r, then |-> then, since |-> since, answer |-> None]
  PROVE  FreshInv'
<1>1. fetch'.room = r /\ fetch'.since = since /\ fetch'.answer = None
  OBVIOUS
<1>2. fetch'.since <= server'[fetch'.room].ver
  BY <1>1
<1> QED
  BY <1>1, <1>2 DEF FreshInv

\* Every step keeps loads fresh.
LEMMA FreshInvInductive ==
  ASSUME TypeOK, FreshInv, [Next]_vars
  PROVE  FreshInv'
<1> USE DEF history, client
<1>a. server \in [Rooms -> ServerRoom] /\ \A r \in Rooms : server[r].ver \in Nat
  BY DEF TypeOK, ServerRoom
<1>b. \A r \in Rooms : server[r].ver >= server[r].ver
  BY <1>a
<1>c. ASSUME server' = server, muts' \subseteq muts, seen' = seen, fetch' = fetch
      PROVE  FreshInv'
  BY <1>a, <1>b, <1>c, FreshInvFramed
<1>d. ASSUME server' = server, muts' \subseteq muts, seen' = seen, NEW r \in Rooms \cup {None},
             ActiveRoomEffect(r)
      PROVE  FreshInv'
  <2>1. CASE fetch' = fetch
    BY <1>c, <1>d, <2>1
  <2>2. ASSUME r \in Rooms, fetch' = [room |-> r, then |-> "open", since |-> seen[r],
                                      answer |-> None]
        PROVE  FreshInv'
    <3>1. \A q \in Rooms : seen'[q] <= server'[q].ver
      BY <1>d DEF FreshInv
    <3>2. \A m \in muts' : m.answer # None =>
             m.room \in Rooms /\ m.answer.ver <= server'[m.room].ver
      BY <1>d DEF FreshInv
    <3>3. seen[r] <= server[r].ver
      BY <2>2 DEF FreshInv
    <3> QED
      BY <1>d, <2>2, <3>1, <3>2, <3>3, FreshInvStarted
  <2> QED
    BY <1>d, <2>1, <2>2, RoomChanged
<1>1. CASE FetchRead
  <2>1. fetch \in Fetches /\ fetch # None
    BY <1>1 DEF FetchRead, TypeOK
  <2>2. fetch.room \in Rooms
    BY <2>1 DEF Fetches
  <2>3. PICK a : a = Snapshot(fetch.room)
    OBVIOUS
  <2>4. a.ver = server[fetch.room].ver
    BY <2>3 DEF Snapshot
  <2>5. /\ fetch' = [fetch EXCEPT !.answer = a]
        /\ server' = server /\ muts' = muts /\ seen' = seen
    BY <1>1, <2>3 DEF FetchRead
  <2>6. fetch'.room = fetch.room /\ fetch'.since = fetch.since /\ fetch'.answer = a
    BY <2>1, <2>5 DEF Fetches
  <2>7. /\ fetch'.since <= fetch'.answer.ver /\ fetch'.since <= server'[fetch'.room].ver
        /\ fetch'.answer.ver <= server'[fetch'.room].ver
    BY <1>a, <2>1, <2>2, <2>4, <2>5, <2>6 DEF FreshInv
  <2> QED
    BY <2>5, <2>7 DEF FreshInv
<1>2. CASE FetchPopulates
  <2>1. fetch \in Fetches /\ fetch # None /\ fetch.answer # None
    BY <1>2 DEF FetchPopulates, TypeOK
  <2>2. fetch.room \in Rooms /\ fetch.answer.ver \in Nat
    BY <2>1 DEF Fetches, Answers, RoomDetailData
  <2>3. /\ fetch' = None /\ server' = server /\ muts' = muts
        /\ seen' = [seen EXCEPT ![fetch.room] = Newest(@, fetch.answer.ver)]
    BY <1>2 DEF FetchPopulates
  <2>4. seen[fetch.room] \in Nat /\ seen[fetch.room] <= server[fetch.room].ver
    BY <2>2 DEF TypeOK, FreshInv
  <2>5. fetch.answer.ver <= server[fetch.room].ver
    BY <2>1 DEF FreshInv
  <2>6. Newest(seen[fetch.room], fetch.answer.ver) <= server[fetch.room].ver
    BY <1>a, <2>2, <2>4, <2>5, NewestReached
  <2>7. \A r \in Rooms : seen'[r] = IF r = fetch.room
                                    THEN Newest(seen[fetch.room], fetch.answer.ver)
                                    ELSE seen[r]
    BY <2>3 DEF TypeOK
  <2>8. \A r \in Rooms : seen'[r] <= server'[r].ver
    BY <2>3, <2>6, <2>7 DEF FreshInv
  <2> QED
    BY <2>3, <2>8 DEF FreshInv
<1>3. CASE FetchFails
  <2>1. fetch' = None /\ server' = server /\ muts' = muts /\ seen' = seen
    BY <1>3 DEF FetchFails
  <2> QED
    BY <2>1 DEF FreshInv
<1>4. ASSUME NEW r \in Rooms, OpenRoom(r) \/ RoomLink(r) PROVE FreshInv'
  BY <1>4, <1>d DEF OpenRoom, RoomLink
<1>5. CASE CloseRoom
  BY <1>5, <1>d DEF CloseRoom
<1>6. ASSUME NEW d \in Dialogs, OpenDialog(d) PROVE FreshInv'
  BY <1>6, <1>c DEF OpenDialog
<1>7. CASE CancelDialog \/ FetchRooms
  BY <1>7, <1>c DEF CancelDialog, FetchRooms
<1>8. ASSUME NEW c \in Callers, ListRead(c) PROVE FreshInv'
  BY <1>8, <1>c DEF ListRead
<1>9. ASSUME NEW c \in Callers, NEW ok \in BOOLEAN, ListAnswered(c, ok) PROVE FreshInv'
  <2>1. listReq[c].room \in Rooms \cup {None}
    BY <1>9 DEF ListAnswered, TypeOK, ListRequests
  <2>2. server' = server /\ muts' = muts /\ seen' = seen
    BY <1>9 DEF ListAnswered
  <2>3. ActiveRoomEffect(listReq[c].room) \/ fetch' = fetch
    BY <1>9 DEF ListAnswered
  <2> QED
    BY <1>c, <1>d, <2>1, <2>2, <2>3
<1>10. CASE UNCHANGED vars
  BY <1>10, <1>c DEF vars
<1>11. CASE Elsewhere
  BY <1>1, <1>2, <1>3, <1>4, <1>5, <1>6, <1>7, <1>8, <1>9, <1>10, <1>11 DEF Elsewhere
<1>12. CASE Confirm
  <2>1. /\ server' = server /\ seen' = seen /\ fetch' = fetch
        /\ muts' = muts \/ \E n : muts' = muts \cup {n} /\ n.answer = None
    BY <1>12, ConfirmSends
  <2> QED
    BY <1>a, <1>b, <2>1, FreshInvFramed
<1>13. CASE \/ \E op \in Edits \ ConfirmedEdits : PickEdit(op)
            \/ Remind \/ CreateRoom
            \/ \E r \in Rooms : JoinByInvite(r) \/ DeleteCard(r)
  <2>1. /\ \E n : muts' = muts \cup {n} /\ n.answer = None
        /\ server' = server /\ seen' = seen /\ fetch' = fetch
    BY <1>13, OtherSent
  <2> QED
    BY <1>a, <1>b, <2>1, FreshInvFramed
<1>14. ASSUME NEW m \in muts, Handle(m) PROVE FreshInv'
  <2>1. m.room \in Rooms /\ server' = [server EXCEPT ![m.room] = Effect(m)]
    BY <1>14, MutationHandled
  <2>2. PICK n : /\ muts' = (muts \ {m}) \cup {n} /\ n.room = m.room
                 /\ n.answer = DetailAfter(m.room, Effect(m))
    BY <1>14, MutationHandled
  <2>3. Effect(m) \in ServerRoom /\ Effect(m).ver >= server[m.room].ver /\ Effect(m).ver \in Nat
    BY <2>1, RowChanged DEF ServerRoom
  <2>4. n.answer.ver = Effect(m).ver
    BY <2>1, <2>2, <2>3, AnswerTells
  <2>5. \A r \in Rooms : server'[r] = IF r = m.room THEN Effect(m) ELSE server[r]
    BY <2>1, <1>a
  <2>6. server' \in [Rooms -> ServerRoom] /\ \A r \in Rooms : server'[r].ver >= server[r].ver
    BY <1>a, <1>b, <2>1, <2>3, <2>5
  <2>7. n.room \in Rooms /\ n.answer.ver <= server'[n.room].ver
    BY <2>1, <2>2, <2>3, <2>4, <2>5
  <2>8. seen' = seen /\ fetch' = fetch
    BY <1>14 DEF Handle
  <2> QED
    BY <2>2, <2>6, <2>7, <2>8, FreshInvFramed
<1>15. ASSUME NEW m \in muts, NEW r \in Rooms, HandleCreate(m, r) PROVE FreshInv'
  <2>1. PICK row \in ServerRoom :
          /\ row.ver = server[r].ver /\ server' = [server EXCEPT ![r] = row]
          /\ \E n : /\ muts' = (muts \ {m}) \cup {n} /\ n.room = r
                    /\ n.answer = DetailAfter(r, row)
    BY <1>15, CreationHandled
  <2>2. PICK n : /\ muts' = (muts \ {m}) \cup {n} /\ n.room = r
                 /\ n.answer = DetailAfter(r, row)
    BY <2>1
  <2>3. n.answer.ver = row.ver
    BY <2>2, AnswerTells
  <2>4. \A q \in Rooms : server'[q] = IF q = r THEN row ELSE server[q]
    BY <2>1, <1>a
  <2>5. server' \in [Rooms -> ServerRoom] /\ \A q \in Rooms : server'[q].ver >= server[q].ver
    BY <1>a, <1>b, <2>1, <2>4
  <2>6. n.room \in Rooms /\ n.answer.ver <= server'[n.room].ver
    BY <1>a, <2>1, <2>2, <2>3, <2>4
  <2>7. seen' = seen /\ fetch' = fetch
    BY <1>15 DEF HandleCreate
  <2> QED
    BY <2>2, <2>5, <2>6, <2>7, FreshInvFramed
<1>16. ASSUME NEW m \in muts, MarkOk(m) PROVE FreshInv'
  <2>1. /\ Ok(m) /\ seen' = [seen EXCEPT ![m.room] = Newest(@, m.answer.ver)]
        /\ server' = server /\ muts' \subseteq muts /\ fetch' = fetch
    BY <1>16 DEF MarkOk
  <2>2. \A r \in Rooms : seen'[r] <= server'[r].ver
    BY <2>1, AnswerHeard
  <2> QED
    BY <2>1, <2>2 DEF FreshInv
<1>17. ASSUME NEW m \in muts, DeleteOk(m) \/ CreateOk(m) \/ JoinOk(m) \/ MutationFails(m)
       PROVE  FreshInv'
  <2>1. server' = server /\ muts' \subseteq muts /\ seen' = seen /\ fetch' = fetch
    BY <1>17 DEF DeleteOk, CreateOk, JoinOk, MutationFails
  <2> QED
    BY <1>c, <2>1
<1>18. ASSUME NEW m \in muts, RefetchAfterMutation(m) PROVE FreshInv'
  <2>1. /\ Ok(m) /\ seen' = [seen EXCEPT ![m.room] = Newest(@, m.answer.ver)]
        /\ server' = server /\ muts' \subseteq muts
    BY <1>18 DEF RefetchAfterMutation
  <2>2. \A r \in Rooms : seen'[r] <= server'[r].ver
    BY <2>1, AnswerHeard
  <2>3. m.room \in Rooms
    BY <2>1 DEF FreshInv, Ok
  <2>4. PICK v : v = seen'[m.room]
    OBVIOUS
  <2>5. StartFetch(m.room, m.op, v)
    BY <1>18, <2>4 DEF RefetchAfterMutation
  <2>6. fetch' = [room |-> m.room, then |-> m.op, since |-> v, answer |-> None]
    BY <2>5 DEF StartFetch
  <2>7. v <= server[m.room].ver
    BY <2>1, <2>2, <2>3, <2>4
  <2>8. \A k \in muts' : k.answer # None =>
           k.room \in Rooms /\ k.answer.ver <= server'[k.room].ver
    BY <2>1 DEF FreshInv
  <2> QED
    BY <2>1, <2>2, <2>3, <2>6, <2>7, <2>8, FreshInvStarted
<1> QED
  BY <1>11, <1>12, <1>13, <1>14, <1>15, <1>16, <1>17, <1>18, OtherwiseMutations

\* roomStore.fetchDetail, refetchAfterMutation: what a load brings is as new as all
\* the client had heard of the room when it was sent.
THEOREM LoadsAreFresh ==
  Spec => []FreshAfterWrite
<1>1. Init => FreshInv
  <2> SUFFICES ASSUME Init PROVE FreshInv
    OBVIOUS
  <2>1. muts = {} /\ fetch = None /\ \A r \in Rooms : seen[r] = 0 /\ server[r].ver = 0
    BY DEF Init
  <2> QED
    BY <2>1 DEF FreshInv
<1>2. TypeOK /\ FreshInv => FreshAfterWrite
  <2> SUFFICES ASSUME TypeOK, FreshInv, fetch # None, fetch.answer # None
               PROVE  fetch.answer.ver >= fetch.since
    BY DEF FreshAfterWrite
  <2>1. fetch \in Fetches
    BY DEF TypeOK
  <2>2. fetch.since \in Nat /\ fetch.answer.ver \in Nat
    BY <2>1 DEF Fetches, Answers, RoomDetailData
  <2> QED
    BY <2>2 DEF FreshInv
<1>3. TypeOK /\ FreshInv /\ [Next]_vars => FreshInv'
  BY FreshInvInductive
<1> QED
  BY <1>1, <1>2, <1>3, RoomClientTypeCorrect, PTL DEF Spec

\* What keeps a joined room listed once: only a room of the user's own is appended.
ListInv ==
    /\ \A m \in muts : m.op = "create" /\ m.answer # None =>
          m.room \in Rooms /\ server[m.room].owner
    /\ JoinedListedOnce

\* It stays when owners stay, the answered creations were so before, and the list
\* counts no room of another's twice.
LEMMA ListInvFramed ==
  ASSUME ListInv, \A r \in Rooms : server[r].owner => server'[r].owner,
         \A m \in muts' : m.op = "create" /\ m.answer # None =>
            m \in muts \/ (m.room \in Rooms /\ server'[m.room].owner),
         \A r \in Rooms : ~server[r].owner => list'[r] = list[r] \/ list'[r] <= 1
  PROVE  ListInv'
<1>1. \A r \in Rooms : ~server'[r].owner => list'[r] <= 1
  BY DEF ListInv, JoinedListedOnce
<1>2. \A m \in muts' : m.op = "create" /\ m.answer # None =>
         m.room \in Rooms /\ server'[m.room].owner
  BY DEF ListInv
<1> QED
  BY <1>1, <1>2 DEF ListInv, JoinedListedOnce

\* Every step keeps the list.
LEMMA ListInvInductive ==
  ASSUME TypeOK, ListInv, [Next]_vars
  PROVE  ListInv'
<1> USE DEF history, client
<1>1. ASSUME NEW c \in Callers, NEW ok \in BOOLEAN, ListAnswered(c, ok) PROVE ListInv'
  <2>1. server' = server /\ muts' = muts
        /\ list' = IF ok THEN Listed(listReq[c].answer) ELSE list
    BY <1>1 DEF ListAnswered
  <2>2. \A r \in Rooms : list'[r] = list[r] \/ list'[r] <= 1
    BY <2>1 DEF Listed
  <2> QED
    BY <2>1, <2>2, ListInvFramed
<1>2. ASSUME list' = list, server' = server, muts' \subseteq muts PROVE ListInv'
  BY <1>2, ListInvFramed
<1>3. CASE Elsewhere /\ ~\E c \in Callers, ok \in BOOLEAN : ListAnswered(c, ok)
  <2>1. list' = list
    BY <1>3 DEF Elsewhere, FetchRead, FetchPopulates, FetchFails, OpenRoom, RoomLink,
                CloseRoom, OpenDialog, CancelDialog, FetchRooms, ListRead, vars
  <2> QED
    BY <1>2, <1>3, <2>1, ElsewhereUntouched
<1>4. CASE Confirm
  <2>1. /\ server' = server /\ list' = list
        /\ muts' = muts \/ \E n : muts' = muts \cup {n} /\ n.answer = None
    BY <1>4, ConfirmSends
  <2> QED
    BY <2>1, ListInvFramed
<1>5. CASE \/ \E op \in Edits \ ConfirmedEdits : PickEdit(op)
           \/ Remind \/ CreateRoom
           \/ \E r \in Rooms : JoinByInvite(r) \/ DeleteCard(r)
  <2>1. /\ \E n : muts' = muts \cup {n} /\ n.answer = None
        /\ server' = server /\ list' = list
    BY <1>5, OtherSent
  <2> QED
    BY <2>1, ListInvFramed
<1>6. ASSUME NEW m \in muts, Handle(m) PROVE ListInv'
  <2>1. m.room \in Rooms /\ server' = [server EXCEPT ![m.room] = Effect(m)]
    BY <1>6, MutationHandled
  <2>2. PICK n : muts' = (muts \ {m}) \cup {n} /\ n.op = m.op /\ n.room = m.room
    BY <1>6, MutationHandled
  <2>3. Effect(m).owner = server[m.room].owner
    BY <2>1, RowChanged
  <2>4. \A r \in Rooms : server'[r].owner = server[r].owner
    BY <2>1, <2>3 DEF TypeOK
  <2>5. m.op = "create" => server[m.room].owner
    BY <1>6 DEF Handle, Allowed, Marks
  <2>6. list' = list
    BY <1>6 DEF Handle
  <2> QED
    BY <2>1, <2>2, <2>4, <2>5, <2>6, ListInvFramed
<1>7. ASSUME NEW m \in muts, NEW r \in Rooms, HandleCreate(m, r) PROVE ListInv'
  <2>1. PICK row \in ServerRoom :
          /\ row.owner /\ server' = [server EXCEPT ![r] = row]
          /\ \E n : muts' = (muts \ {m}) \cup {n} /\ n.room = r
    BY <1>7, CreationHandled
  <2>2. server'[r].owner /\ \A q \in Rooms \ {r} : server'[q] = server[q]
    BY <2>1 DEF TypeOK
  <2>3. list' = list
    BY <1>7 DEF HandleCreate
  <2> QED
    BY <2>1, <2>2, <2>3, ListInvFramed
<1>8. ASSUME NEW m \in muts, MarkOk(m) \/ RefetchAfterMutation(m) \/ MutationFails(m)
      PROVE  ListInv'
  <2>1. list' = list /\ server' = server /\ muts' \subseteq muts
    BY <1>8 DEF MarkOk, RefetchAfterMutation, MutationFails
  <2> QED
    BY <1>2, <2>1
<1>9. ASSUME NEW m \in muts, DeleteOk(m) \/ JoinOk(m) PROVE ListInv'
  <2>1. server' = server /\ muts' \subseteq muts /\ list \in [Rooms -> Nat]
    BY <1>9 DEF DeleteOk, JoinOk, TypeOK
  <2>2. \A r \in Rooms : list'[r] = list[r] \/ list'[r] <= 1
    <3>1. CASE DeleteOk(m)
      <4>1. list' = [list EXCEPT ![m.room] = 0]
        BY <3>1 DEF DeleteOk
      <4> QED
        BY <2>1, <4>1
    <3>2. CASE JoinOk(m)
      <4>1. list' = [list EXCEPT ![m.room] = IF @ = 0 THEN 1 ELSE @]
        BY <3>2 DEF JoinOk
      <4> QED
        BY <2>1, <4>1
    <3> QED
      BY <1>9, <3>1, <3>2
  <2> QED
    BY <2>1, <2>2, ListInvFramed
<1>10. ASSUME NEW m \in muts, CreateOk(m) PROVE ListInv'
  <2>1. /\ m.op = "create" /\ m.answer # None /\ server' = server /\ muts' \subseteq muts
        /\ list' = [list EXCEPT ![m.room] = @ + 1]
    BY <1>10 DEF CreateOk, Ok
  <2>2. server[m.room].owner
    BY <2>1 DEF ListInv
  <2>3. \A r \in Rooms : ~server[r].owner => list'[r] = list[r]
    BY <2>1, <2>2 DEF TypeOK
  <2> QED
    BY <2>1, <2>3, ListInvFramed
<1> QED
  BY <1>1, <1>3, <1>4, <1>5, <1>6, <1>7, <1>8, <1>9, <1>10, OtherwiseMutations DEF Elsewhere

\* roomStore.join and fetchRooms: whichever of the two is answered first, a room
\* joined by an invite link is listed once.
THEOREM JoinedRoomListedOnce ==
  Spec => []JoinedListedOnce
<1>1. Init => ListInv
  BY DEF Init, ListInv, JoinedListedOnce, Listed
<1>2. TypeOK /\ ListInv /\ [Next]_vars => ListInv'
  BY ListInvInductive
<1>3. ListInv => JoinedListedOnce
  BY DEF ListInv
<1> QED
  BY <1>1, <1>2, <1>3, RoomClientTypeCorrect, PTL DEF Spec

\* A sheet that is Blank (no detail, no failure reported) has a load in flight, and a deletion that was
\* answered is of a room that is gone.
BlankLoads == Blank => fetch # None
DeletesAreDone ==
    \A m \in muts : m.op \in Deletes /\ m.answer # None =>
        server[m.room].state = "gone"

\* A load that settles leaves no sheet Blank, whichever room it was for.
SettledExplains == [][FetchSettles => ~Blank']_vars

\* What the backend makes of a row: it is deleted or stays as deleted as it was.
LEMMA RowEnds ==
  ASSUME TypeOK, NEW m \in muts, m.room \in Rooms
  PROVE  IF m.op \in Deletes THEN Effect(m).state = "gone"
                             ELSE Effect(m).state = server[m.room].state
<1>1. PICK row \in ServerRoom : row = server[m.room]
  BY DEF TypeOK
<1>2. PICK v \in Nat : v = row.ver + 1
  BY DEF ServerRoom
<1>3. PICK b \in BOOLEAN : b = (m.op = "pay")
  OBVIOUS
<1>4. CASE m.op \in Marks
  <2>1. Effect(m) = [row EXCEPT !.paid = b, !.ver = v]
    <3>1. Effect(m) = [server[m.room] EXCEPT !.paid = (m.op = "pay"),
                                             !.ver = server[m.room].ver + 1]
      BY <1>4 DEF Effect, Marks, Deletes
    <3> QED
      BY <1>1, <1>2, <1>3, <3>1, Zenon
  <2> QED
    BY <1>1, <1>4, <2>1 DEF ServerRoom, Marks, Deletes
<1>5. CASE m.op \in Deletes
  <2>1. Effect(m) = [row EXCEPT !.state = "gone"]
    BY <1>1, <1>5 DEF Effect, Marks, Deletes
  <2> QED
    BY <1>5, <2>1 DEF ServerRoom
<1>6. CASE m.op \notin Marks \cup Deletes
  <2>1. \/ Effect(m) = [row EXCEPT !.member = TRUE, !.ver = v]
        \/ Effect(m) = [row EXCEPT !.cool = TRUE, !.ver = v]
        \/ Effect(m) = [row EXCEPT !.ver = v]
    BY <1>1, <1>2, <1>6 DEF Effect
  <2> QED
    BY <1>1, <1>6, <2>1 DEF ServerRoom
<1> QED
  BY <1>4, <1>5, <1>6

\* One step of the backend on a row: a deleted room stays deleted, and what is
\* answered of a deletion is true.
LEMMA DeletesInductive ==
  ASSUME TypeOK, DeletesAreDone, [Next]_vars
  PROVE  /\ DeletesAreDone'
         /\ \A r \in Rooms : server[r].state = "gone" => server'[r].state = "gone"
<1> USE DEF history, client
<1>a. server \in [Rooms -> ServerRoom]
  BY DEF TypeOK
<1>b. \A m \in muts : m.op \in Deletes => m.room \in Rooms
  BY DEF TypeOK, Deletes
<1>c. ASSUME server' = server,
             muts' \subseteq muts \/ \E n : muts' = muts \cup {n} /\ n.answer = None
      PROVE  /\ DeletesAreDone'
             /\ \A r \in Rooms : server[r].state = "gone" => server'[r].state = "gone"
  BY <1>c DEF DeletesAreDone
<1>d. ASSUME NEW m \in muts, NEW q \in Rooms, NEW row \in ServerRoom,
             server' = [server EXCEPT ![q] = row],
             server[q].state = "gone" => row.state = "gone",
             NEW n, muts' = (muts \ {m}) \cup {n}, n.room = q,
             n.op \in Deletes => row.state = "gone"
      PROVE  /\ DeletesAreDone'
             /\ \A r \in Rooms : server[r].state = "gone" => server'[r].state = "gone"
  <2>1. \A r \in Rooms : server'[r] = IF r = q THEN row ELSE server[r]
    BY <1>a, <1>d
  <2>2. \A r \in Rooms : server[r].state = "gone" => server'[r].state = "gone"
    BY <1>d, <2>1
  <2>3. ASSUME NEW k \in muts', k.op \in Deletes, k.answer # None
        PROVE  server'[k.room].state = "gone"
    <3>1. CASE k = n
      BY <1>d, <2>1, <2>3, <3>1
    <3>2. CASE k # n
      <4>1. k \in muts
        BY <1>d, <3>2
      <4>2. k.room \in Rooms /\ server[k.room].state = "gone"
        BY <1>b, <2>3, <4>1 DEF DeletesAreDone
      <4> QED
        BY <2>2, <4>2
    <3> QED
      BY <3>1, <3>2
  <2> QED
    BY <2>2, <2>3 DEF DeletesAreDone
<1>1. CASE Elsewhere
  BY <1>1, <1>c, ElsewhereUntouched
<1>2. CASE Confirm
  BY <1>2, <1>c, ConfirmSends
<1>3. CASE \/ \E op \in Edits \ ConfirmedEdits : PickEdit(op)
           \/ Remind \/ CreateRoom
           \/ \E r \in Rooms : JoinByInvite(r) \/ DeleteCard(r)
  BY <1>3, <1>c, OtherSent
<1>4. ASSUME NEW m \in muts, Handle(m)
      PROVE  /\ DeletesAreDone'
             /\ \A r \in Rooms : server[r].state = "gone" => server'[r].state = "gone"
  <2>1. m.room \in Rooms /\ server' = [server EXCEPT ![m.room] = Effect(m)]
    BY <1>4, MutationHandled
  <2>2. PICK n : muts' = (muts \ {m}) \cup {n} /\ n.op = m.op /\ n.room = m.room
    BY <1>4, MutationHandled
  <2>3. PICK row \in ServerRoom : row = Effect(m)
    BY <2>1, RowChanged
  <2>4. /\ server[m.room].state = "gone" => row.state = "gone"
        /\ m.op \in Deletes => row.state = "gone"
    BY <2>1, <2>3, RowEnds
  <2> QED
    BY <1>d, <2>1, <2>2, <2>3, <2>4
<1>5. ASSUME NEW m \in muts, NEW r \in Rooms, HandleCreate(m, r)
      PROVE  /\ DeletesAreDone'
             /\ \A q \in Rooms : server[q].state = "gone" => server'[q].state = "gone"
  <2>1. PICK row \in ServerRoom :
          /\ server' = [server EXCEPT ![r] = row]
          /\ \E n : muts' = (muts \ {m}) \cup {n} /\ n.op = m.op /\ n.room = r
    BY <1>5, CreationHandled
  <2>2. m.op \notin Deletes /\ server[r].state = "none"
    BY <1>5 DEF HandleCreate, Deletes
  <2> QED
    BY <1>d, <2>1, <2>2
<1>6. ASSUME NEW m \in muts, \/ MarkOk(m) \/ DeleteOk(m) \/ CreateOk(m) \/ JoinOk(m)
                             \/ RefetchAfterMutation(m) \/ MutationFails(m)
      PROVE  /\ DeletesAreDone'
             /\ \A r \in Rooms : server[r].state = "gone" => server'[r].state = "gone"
  <2>1. server' = server /\ muts' \subseteq muts
    BY <1>6 DEF MarkOk, DeleteOk, CreateOk, JoinOk, RefetchAfterMutation, MutationFails
  <2> QED
    BY <1>c, <2>1
<1> QED
  BY <1>1, <1>2, <1>3, <1>4, <1>5, <1>6, OtherwiseMutations

\* Every step leaves a blank sheet with its load, or explains it.
LEMMA BlankLoadsInductive ==
  ASSUME TypeOK, DeletesAreDone, BlankLoads, [Next]_vars
  PROVE  BlankLoads'
<1> USE DEF history, client
<1> SUFFICES ASSUME Blank' PROVE fetch' # None
  BY DEF BlankLoads
<1>a. \A r \in Rooms : server[r].state # "gone"
  <2>1. \A r \in Rooms : server'[r].state # "gone"
    BY DEF Blank
  <2> QED
    BY <2>1, DeletesInductive
<1>b. activeRoom' # None /\ detail' = None /\ told' = "no"
  BY DEF Blank
<1>c. ASSUME UNCHANGED <<activeRoom, detail, fetch, told>> PROVE fetch' # None
  <2>1. Blank
    BY <1>a, <1>b, <1>c DEF Blank
  <2> QED
    BY <1>c, <2>1 DEF BlankLoads
<1>d. ASSUME NEW r, NEW then, NEW since, r \in Rooms, then \in Thens, since \in Nat,
             StartFetch(r, then, since)
      PROVE  fetch' # None
  BY <1>d, FetchStarted, NullAssumption
<1>e. ASSUME NEW r \in Rooms \cup {None}, activeRoom' = r, ActiveRoomEffect(r)
      PROVE  fetch' # None
  <2>1. r \in Rooms
    BY <1>b, <1>e
  <2>2. CASE r = activeRoom
    BY <1>c, <1>e, <2>2 DEF ActiveRoomEffect
  <2>3. CASE r # activeRoom
    <3>1. StartFetch(r, "open", seen[r])
      BY <1>b, <1>e, <2>3 DEF ActiveRoomEffect
    <3>2. "open" \in Thens /\ seen[r] \in Nat
      BY <2>1 DEF TypeOK, Thens
    <3> QED
      BY <1>d, <2>1, <3>1, <3>2
  <2> QED
    BY <2>2, <2>3
<1>1. CASE FetchRead
  <2>1. fetch \in Fetches /\ server[fetch.room] \in ServerRoom
    BY <1>1 DEF FetchRead, TypeOK, Visible
  <2>2. fetch.room \in Rooms
    BY <2>1 DEF Fetches
  <2>3. Snapshot(fetch.room) \in RoomDetailData
    BY <2>1, <2>2 DEF Snapshot, RoomDetailData, ServerRoom
  <2>4. fetch' \in Fetches
    BY <1>1, <2>1, <2>3 DEF FetchRead, Fetches, Answers
  <2> QED
    BY <2>4, NullAssumption
<1>2. CASE FetchPopulates \/ FetchFails
  BY <1>2, <1>b DEF FetchPopulates, FetchFails, Reports
<1>3. ASSUME NEW r \in Rooms, OpenRoom(r) \/ RoomLink(r) PROVE fetch' # None
  BY <1>3, <1>e DEF OpenRoom, RoomLink
<1>4. CASE CloseRoom
  BY <1>4, <1>b DEF CloseRoom
<1>5. ASSUME NEW c \in Callers, NEW ok \in BOOLEAN, ListAnswered(c, ok) PROVE fetch' # None
  <2>1. listReq[c].room \in Rooms \cup {None}
    BY <1>5 DEF ListAnswered, TypeOK, ListRequests
  <2>2. CASE c = "link"
    BY <1>5, <1>e, <2>1, <2>2 DEF ListAnswered
  <2>3. CASE c # "link"
    BY <1>5, <1>c, <2>3 DEF ListAnswered
  <2> QED
    BY <2>2, <2>3
<1>6. CASE \/ \E d \in Dialogs : OpenDialog(d)
           \/ CancelDialog \/ FetchRooms
           \/ \E c \in Callers : ListRead(c)
           \/ UNCHANGED vars
  BY <1>6, <1>c DEF OpenDialog, CancelDialog, FetchRooms, ListRead, vars
<1>7. CASE Elsewhere
  BY <1>1, <1>2, <1>3, <1>4, <1>5, <1>6, <1>7 DEF Elsewhere
<1>8. CASE \/ Confirm \/ \E op \in Edits \ ConfirmedEdits : PickEdit(op)
           \/ Remind \/ CreateRoom
           \/ \E r \in Rooms : JoinByInvite(r) \/ DeleteCard(r)
           \/ \E m \in muts : Handle(m) \/ \E r \in Rooms : HandleCreate(m, r)
           \/ \E m \in muts : CreateOk(m) \/ JoinOk(m) \/ MutationFails(m)
  <2>1. UNCHANGED <<activeRoom, detail, fetch, told>>
    BY <1>8 DEF Confirm, PickEdit, Remind, CreateRoom, JoinByInvite, DeleteCard, Handle,
                HandleCreate, CreateOk, JoinOk, MutationFails
  <2> QED
    BY <1>c, <2>1
<1>9. ASSUME NEW m \in muts, MarkOk(m) PROVE fetch' # None
  BY <1>9, <1>b DEF MarkOk, Ok
<1>10. ASSUME NEW m \in muts, DeleteOk(m) PROVE fetch' # None
  <2>1. m.op \in Deletes /\ m.answer # None
    BY <1>10 DEF DeleteOk, Ok
  <2>2. m.room \in Rooms
    BY <2>1 DEF TypeOK, Deletes
  <2>3. server[m.room].state = "gone"
    BY <2>1 DEF DeletesAreDone
  <2> QED
    BY <1>a, <2>2, <2>3
<1>11. ASSUME NEW m \in muts, RefetchAfterMutation(m) PROVE fetch' # None
  <2>1. /\ m.op \in Edits \cup {"remind"} /\ Ok(m)
        /\ seen' = [seen EXCEPT ![m.room] = Newest(@, m.answer.ver)]
    BY <1>11 DEF RefetchAfterMutation
  <2>2. m.room \in Rooms
    BY <2>1, RoomClientAssumption DEF TypeOK
  <2>3. m.answer.ver \in Nat
    BY <2>1, AnswerTyped
  <2>4. PICK v : v = seen'[m.room]
    OBVIOUS
  <2>5. v \in Nat
    BY <2>1, <2>2, <2>3, <2>4, SeenTyped
  <2>6. StartFetch(m.room, m.op, v) /\ m.op \in Thens
    BY <1>11, <2>1, <2>4 DEF RefetchAfterMutation, Thens
  <2> QED
    BY <1>d, <2>2, <2>5, <2>6
<1> QED
  BY <1>7, <1>8, <1>9, <1>10, <1>11, OtherwiseMutations

\* GlobalModals' effect and fetchDetail: an open sheet is Blank only while a load is in
\* flight, and whichever way a load settles the sheet is Blank no more, superseded
\* loads, closings and answers to other rooms included.  Not Blank is also a sheet
\* whose load a 401 refused within 30 s of a toast that said so (hushed).
THEOREM BlankSheetIsLoading ==
  Spec => []BlankLoads /\ SettledExplains
<1>1. Init => BlankLoads /\ DeletesAreDone
  BY DEF Init, BlankLoads, DeletesAreDone, Blank
<1>2. TypeOK /\ DeletesAreDone /\ [Next]_vars => DeletesAreDone'
  BY DeletesInductive
<1>3. TypeOK /\ DeletesAreDone /\ BlankLoads /\ [Next]_vars => BlankLoads'
  BY BlankLoadsInductive
<1>4. [Next]_vars => [FetchSettles => ~Blank']_vars
  BY DEF FetchSettles, FetchPopulates, FetchFails, Blank, Reports
<1> QED
  BY <1>1, <1>2, <1>3, <1>4, RoomClientTypeCorrect, PTL DEF Spec, SettledExplains
=============================================================================
