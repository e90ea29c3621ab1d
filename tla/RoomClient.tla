----------------------------- MODULE RoomClient -----------------------------
(***************************************************************************)
(* The shared rooms in the Mini App: roomStore, the room sheet mounted     *)
(* once by GlobalModals, the two pages that list rooms and the links that  *)
(* open one.  Every api call is three steps that interleave with the       *)
(* user's: the request is sent, the server handles it, the answer is       *)
(* applied to the store.  The server is abstracted to what the client can  *)
(* tell: whether a room exists, who owns it, how often it changed, whether *)
(* its one other member is marked paid and whether it was reminded.        *)
(***************************************************************************)
EXTENDS Naturals, FiniteSets

CONSTANTS Rooms,     \* identities a room can get
          Own,       \* the room the user owns when the app starts
          Edits,     \* the edits of a room the user makes
          None,      \* null in the stores
          MaxOps     \* bound: mutations the user starts

ASSUME RoomClientAssumption ==
    /\ None \notin Rooms /\ Own \in Rooms
    /\ Edits \subseteq {"addService", "removeService", "removeMember", "updateRoom"}
    /\ MaxOps \in Nat

VARIABLES server,      \* what the backend holds of each room
          activeRoom,  \* modalStore.activeRoomId: the room whose sheet is open
          detail,      \* roomStore.activeDetail
          fetch,       \* the GET that owns detailAbort, None when there is none
          muts,        \* mutations in flight
          list,        \* roomStore.rooms: how often each room is listed
          listReq,     \* the two callers of fetchRooms and their requests
          dialog,      \* the confirmation open over the sheet
          sheet,       \* SharedRoomSheet: a reminder, a mark is in flight
          link,        \* what the app was started with
          ops,         \* how many mutations were started
          told,        \* history: how a failed load was reported since the last open
          mark,        \* history: the last mark the user was told succeeded
          seen         \* history: the newest version an answer told of a room

client == <<activeRoom, detail, fetch, muts, list, listReq, dialog, sheet, link>>
history == <<told, mark, seen>>
vars == <<server, client, ops, history>>

Marks == {"pay", "unpay"}
Deletes == {"deleteSheet", "deleteCard"}
Ops == Edits \cup Marks \cup Deletes \cup {"remind", "create", "join"}
ConfirmedEdits == Edits \cap {"removeService", "removeMember"}
Dialogs == ConfirmedEdits \cup {"deleteSheet"} \cup Marks
Callers == {"page", "link"}

ServerRoom == [state : {"none", "alive", "gone"}, owner : BOOLEAN,
               member : BOOLEAN, ver : Nat, paid : BOOLEAN, cool : BOOLEAN]
RoomDetailData == [room : Rooms, owner : BOOLEAN, ver : Nat,
                   paid : BOOLEAN, cool : BOOLEAN]
Answers == RoomDetailData \cup {None}   \* None: not handled yet
Fetches == [room : Rooms, then : {"open", "remind"} \cup Edits,
            since : Nat, answer : Answers]
ListRequests == [room : Rooms \cup {None}, answer : {None} \cup SUBSET Rooms]
Mutations == [id : 1 .. MaxOps, op : Ops, room : Rooms \cup {None}, answer : Answers]

(* null is not a request.                                                  *)
ASSUME NullAssumption == None \notin Fetches

Alive(r) == server[r].state = "alive"
Visible == {r \in Rooms : Alive(r) /\ server[r].member}
Snapshot(r) ==
    [room |-> r, owner |-> server[r].owner, ver |-> server[r].ver,
     paid |-> server[r].paid, cool |-> server[r].cool]
Newest(v, w) == IF v > w THEN v ELSE w
Reports == {"toast",    \* of this load, or that the session expired
            "hushed"}   \* a 401, within 30 s of the last such toast
Listed(S) == [r \in Rooms |-> IF r \in S THEN 1 ELSE 0]

(* roomStore's initial state; one room of the user's own exists, any other *)
(* is yet to be created or belongs to somebody else.                       *)
Init ==
    /\ \E theirs \in SUBSET (Rooms \ {Own}) :
         server = [r \in Rooms |->
              [state |-> IF r = Own \/ r \in theirs THEN "alive" ELSE "none",
               owner |-> r \notin theirs, member |-> r = Own,
               ver |-> 0, paid |-> FALSE, cool |-> FALSE]]
    /\ activeRoom = None /\ detail = None /\ fetch = None
    /\ muts = {} /\ dialog = None
    /\ list = Listed({})
    /\ listReq = [c \in Callers |-> None]
    /\ sheet = [reminding |-> FALSE, payBusy |-> FALSE]
    /\ link \in {"none", "room", "invite"}
    /\ ops = 0
    /\ told = "no"
    /\ mark = [r \in Rooms |-> "none"]
    /\ seen = [r \in Rooms |-> 0]

-----------------------------------------------------------------------------
(* fetchDetail.  Starting one aborts the one in flight.  An abort before   *)
(* the headers is translated by api() and stays silent; one that hits the  *)
(* reading of a body is not, and the catch clears the detail.              *)
AbortOutcomes == IF fetch # None THEN BOOLEAN ELSE {FALSE}

(* fetchDetail never throws: the handler waiting for a superseded, failed  *)
(* or answered refetch runs on, and resets its part of the sheet.          *)
HandlerReturns ==
    /\ sheet' = IF fetch = None THEN sheet
                ELSE [sheet EXCEPT !.reminding = @ /\ fetch.then # "remind"]
    /\ dialog' = IF fetch # None /\ dialog = fetch.then THEN None ELSE dialog

(* `since` is the newest version of the room the client had heard of.      *)
StartFetch(r, then, since) ==
    /\ fetch' = [room |-> r, then |-> then, since |-> since, answer |-> None]
    /\ HandlerReturns
    /\ \E wiped \in AbortOutcomes :
         /\ detail' = IF wiped THEN None ELSE detail
         /\ told' = CASE then = "open" -> "no"
                       [] then # "open" /\ wiped -> "toast"
                       [] OTHER -> told

(* GlobalModals' effect on activeRoomId: it loads the room that opens and  *)
(* drops the detail when the sheet closes.                                 *)
ActiveRoomEffect(r) ==
    CASE r = activeRoom -> UNCHANGED <<fetch, detail, sheet, dialog, told>>
      [] r # activeRoom /\ r # None -> StartFetch(r, "open", seen[r])
      [] OTHER -> detail' = None /\ UNCHANGED <<fetch, sheet, dialog, told>>

FetchRead ==
    /\ fetch # None /\ fetch.answer = None /\ fetch.room \in Visible
    /\ fetch' = [fetch EXCEPT !.answer = Snapshot(fetch.room)]
    /\ UNCHANGED <<server, activeRoom, detail, muts, list, listReq, dialog,
                   sheet, link, ops, history>>

(* The guard on detailAbort holds for the fetch that still owns it.  After *)
(* a mutation refetchAfterMutation also copies the detail into the list    *)
(* entry of the room, which adds and removes no entry.                     *)
FetchPopulates ==
    /\ fetch # None /\ fetch.answer # None
    /\ detail' = fetch.answer
    /\ fetch' = None
    /\ HandlerReturns
    /\ seen' = [seen EXCEPT ![fetch.room] = Newest(@, fetch.answer.ver)]
    /\ UNCHANGED <<server, activeRoom, muts, list, listReq, link, ops,
                   told, mark>>

FetchFailsSilently ==   \* mutant: the catch reports nothing
    /\ fetch # None
    /\ detail' = None
    /\ fetch' = None
    /\ HandlerReturns
    /\ UNCHANGED <<server, activeRoom, muts, list, listReq, link, ops, history>>

(* A status that is not 2xx, or the network failing at any time.  The      *)
(* catch toasts, but leaves a 401 to handleSessionExpired, which toasts    *)
(* once in 30 s for all the calls of the app: whichever of them had the    *)
(* last toast, the failure of this load may go without one.                *)
FetchFails ==
    /\ fetch # None
    /\ detail' = None
    /\ told' \in Reports
    /\ fetch' = None
    /\ HandlerReturns
    /\ UNCHANGED <<server, activeRoom, muts, list, listReq, link, ops,
                   mark, seen>>

-----------------------------------------------------------------------------
(* Opening and closing the sheet.  A card on either page opens a listed    *)
(* room; the sheet is modal, so only while it is closed.                   *)
OpenRoom(r) ==
    /\ activeRoom = None /\ dialog = None
    /\ list[r] > 0
    /\ activeRoom' = r
    /\ ActiveRoomEffect(r)
    /\ UNCHANGED <<server, muts, list, listReq, link, ops, mark, seen>>

(* Both link handlers run when Dashboard mounts, before any tap.           *)
LinkHandled == link \notin {"room", "invite"}

(* useRoomLinkHandler: ?room=<id> opens that room whatever the list holds. *)
RoomLink(r) ==
    /\ link = "room"
    /\ server[r].state # "none"
    /\ link' = "none"
    /\ activeRoom' = r
    /\ ActiveRoomEffect(r)
    /\ UNCHANGED <<server, muts, list, listReq, ops, mark, seen>>

(* The Done button, the overlay and Telegram's back button, which is       *)
(* native: no dialog covers it.                                            *)
CloseRoom ==
    /\ activeRoom # None
    /\ activeRoom' = None
    /\ ActiveRoomEffect(None)
    /\ UNCHANGED <<server, muts, list, listReq, link, ops, mark, seen>>

-----------------------------------------------------------------------------
(* What the sheet offers for the detail it shows.                          *)
SheetShown == activeRoom # None /\ detail # None /\ dialog = None

DialogOffered(d) ==
    /\ SheetShown /\ detail.owner
    /\ d = "pay" => ~detail.paid /\ ~sheet.payBusy
    /\ d = "unpay" => detail.paid /\ ~sheet.payBusy

OpenDialog(d) ==
    /\ DialogOffered(d)
    /\ dialog' = d
    /\ UNCHANGED <<server, activeRoom, detail, fetch, muts, list, listReq,
                   sheet, link, ops, history>>

CancelDialog ==
    /\ dialog # None
    /\ dialog' = None
    /\ UNCHANGED <<server, activeRoom, detail, fetch, muts, list, listReq,
                   sheet, link, ops, history>>

Send(op, r) ==
    /\ ops < MaxOps
    /\ ops' = ops + 1
    /\ muts' = muts \cup {[id |-> ops', op |-> op, room |-> r, answer |-> None]}

ConfirmWithoutPending ==   \* mutant: setPendingPayUid is forgotten
    /\ dialog # None
    /\ dialog' = None
    /\ IF detail = None THEN UNCHANGED <<ops, muts>> ELSE Send(dialog, detail.room)
    /\ UNCHANGED <<server, activeRoom, detail, fetch, list, listReq, link,
                   sheet, history>>

(* Confirming acts on the detail the sheet holds at that moment; without   *)
(* one every handler returns at once.                                      *)
Confirm ==
    /\ dialog # None
    /\ dialog' = None
    /\ IF detail = None \/ (dialog \in Marks /\ sheet.payBusy)
       THEN UNCHANGED <<ops, muts, sheet>>
       ELSE /\ Send(dialog, detail.room)
            /\ sheet' = [sheet EXCEPT !.payBusy = @ \/ dialog \in Marks]
    /\ UNCHANGED <<server, activeRoom, detail, fetch, list, listReq, link, history>>

(* A service picked from the list, another billing day: no confirmation.   *)
PickEdit(op) ==
    /\ SheetShown
    /\ op = "updateRoom" => detail.owner
    /\ Send(op, detail.room)
    /\ UNCHANGED <<server, activeRoom, detail, fetch, list, listReq, dialog,
                   sheet, link, history>>

Remind ==
    /\ SheetShown /\ ~detail.cool /\ ~sheet.reminding
    /\ Send("remind", detail.room)
    /\ sheet' = [sheet EXCEPT !.reminding = TRUE]
    /\ UNCHANGED <<server, activeRoom, detail, fetch, list, listReq, dialog,
                   link, history>>

(* The swipe card of a listed room, the create form and the invite link.   *)
DeleteCard(r) ==
    /\ activeRoom = None /\ dialog = None /\ list[r] > 0
    /\ Send("deleteCard", r)
    /\ UNCHANGED <<server, activeRoom, detail, fetch, list, listReq, dialog,
                   sheet, link, history>>

CreateRoom ==
    /\ LinkHandled
    /\ activeRoom = None /\ dialog = None
    /\ \A m \in muts : m.op # "create"
    /\ Send("create", None)
    /\ UNCHANGED <<server, activeRoom, detail, fetch, list, listReq, dialog,
                   sheet, link, history>>

JoinByInvite(r) ==
    /\ link = "invite" /\ server[r].state # "none"
    /\ link' = "joining"
    /\ Send("join", r)
    /\ UNCHANGED <<server, activeRoom, detail, fetch, list, listReq, dialog,
                   sheet, history>>

-----------------------------------------------------------------------------
(* The backend handles one mutation: what it checks and what it answers.   *)
(* Each one that succeeds changes the room once.                           *)
Allowed(m) ==
    CASE m.op = "join" -> Alive(m.room)
      [] OTHER -> /\ m.room \in Visible /\ server[m.room].owner
                  /\ m.op = "remind" => ~server[m.room].cool

Effect(m) ==
    LET r == server[m.room] IN
    CASE m.op \in Marks -> [r EXCEPT !.paid = (m.op = "pay"), !.ver = r.ver + 1]
      [] m.op \in Deletes -> [r EXCEPT !.state = "gone"]
      [] m.op = "join" -> [r EXCEPT !.member = TRUE, !.ver = r.ver + 1]
      [] m.op = "remind" -> [r EXCEPT !.cool = TRUE, !.ver = r.ver + 1]
      [] OTHER -> [r EXCEPT !.ver = r.ver + 1]

DetailAfter(r, row) ==
    [room |-> r, owner |-> row.owner, ver |-> row.ver,
     paid |-> row.paid, cool |-> row.cool]

Handle(m) ==
    /\ m.answer = None /\ m.room # None /\ Allowed(m)
    /\ server' = [server EXCEPT ![m.room] = Effect(m)]
    /\ muts' = (muts \ {m}) \cup {[m EXCEPT !.answer = DetailAfter(m.room, Effect(m))]}
    /\ UNCHANGED <<activeRoom, detail, fetch, list, listReq, dialog, sheet,
                   link, ops, history>>

HandleCreate(m, r) ==
    /\ m.answer = None /\ m.op = "create"
    /\ server[r].state = "none"
    /\ server' = [server EXCEPT ![r] = [@ EXCEPT !.state = "alive",
                                                 !.owner = TRUE, !.member = TRUE]]
    /\ muts' = (muts \ {m}) \cup
         {[m EXCEPT !.room = r,
                    !.answer = DetailAfter(r, server'[r])]}
    /\ UNCHANGED <<activeRoom, detail, fetch, list, listReq, dialog, sheet,
                   link, ops, history>>

-----------------------------------------------------------------------------
(* The answers, as the store and the sheet's handlers apply them.          *)
Ok(m) == m \in muts /\ m.answer # None

(* markPaid and markUnpaid take the detail from the answer, whichever room *)
(* the sheet shows by now.                                                 *)
MarkOk(m) ==
    /\ Ok(m) /\ m.op \in Marks
    /\ muts' = muts \ {m}
    /\ detail' = m.answer
    /\ sheet' = [sheet EXCEPT !.payBusy = FALSE]
    /\ mark' = [mark EXCEPT ![m.room] = IF @ = "unknown" THEN @ ELSE m.op]
    /\ seen' = [seen EXCEPT ![m.room] = Newest(@, m.answer.ver)]
    /\ UNCHANGED <<server, activeRoom, fetch, list, listReq, dialog, link,
                   ops, told>>

RefetchSharesFlight(m) ==   \* mutant: a load already in flight is reused
    /\ Ok(m) /\ m.op \in Edits \cup {"remind"}
    /\ muts' = muts \ {m}
    /\ seen' = [seen EXCEPT ![m.room] = Newest(@, m.answer.ver)]
    /\ IF fetch # None /\ fetch.room = m.room
       THEN /\ fetch' = [fetch EXCEPT !.then = m.op, !.since = seen'[m.room]]
            /\ UNCHANGED <<detail, sheet, dialog, told>>
       ELSE StartFetch(m.room, m.op, seen'[m.room])
    /\ UNCHANGED <<server, activeRoom, list, listReq, link, ops, mark>>

(* The four edits and the reminder refetch the room once they succeeded.   *)
RefetchAfterMutation(m) ==
    /\ Ok(m) /\ m.op \in Edits \cup {"remind"}
    /\ muts' = muts \ {m}
    /\ seen' = [seen EXCEPT ![m.room] = Newest(@, m.answer.ver)]
    /\ StartFetch(m.room, m.op, seen'[m.room])
    /\ UNCHANGED <<server, activeRoom, list, listReq, link, ops, mark>>

(* deleteRoom clears the detail of that room.  The sheet's handler then    *)
(* closes the sheet that is open; the card's has nothing to close.         *)
DeleteOk(m) ==
    /\ Ok(m) /\ m.op \in Deletes
    /\ muts' = muts \ {m}
    /\ list' = [list EXCEPT ![m.room] = 0]
    /\ activeRoom' = IF m.op = "deleteSheet" THEN None ELSE activeRoom
    /\ detail' = IF \/ activeRoom' # activeRoom
                    \/ detail # None /\ detail.room = m.room
                 THEN None ELSE detail
    /\ dialog' = IF dialog = m.op THEN None ELSE dialog
    /\ UNCHANGED <<server, fetch, listReq, sheet, link, ops, history>>

(* create appends what the server answered.                                *)
CreateOk(m) ==
    /\ Ok(m) /\ m.op = "create"
    /\ muts' = muts \ {m}
    /\ list' = [list EXCEPT ![m.room] = @ + 1]
    /\ UNCHANGED <<server, activeRoom, detail, fetch, listReq, dialog, sheet,
                   link, ops, history>>

JoinAppends(m) ==   \* mutant: no look whether the room is listed
    /\ Ok(m) /\ m.op = "join"
    /\ muts' = muts \ {m}
    /\ list' = [list EXCEPT ![m.room] = @ + 1]
    /\ listReq' = [listReq EXCEPT !["link"] = [room |-> m.room, answer |-> None]]
    /\ UNCHANGED <<server, activeRoom, detail, fetch, dialog, sheet, link,
                   ops, history>>

(* join appends the room unless it is listed, then the link's handler      *)
(* refreshes the list and, once that settled, opens the room.              *)
JoinOk(m) ==
    /\ Ok(m) /\ m.op = "join"
    /\ muts' = muts \ {m}
    /\ list' = [list EXCEPT ![m.room] = IF @ = 0 THEN 1 ELSE @]
    /\ listReq' = [listReq EXCEPT !["link"] = [room |-> m.room, answer |-> None]]
    /\ UNCHANGED <<server, activeRoom, detail, fetch, dialog, sheet, link,
                   ops, history>>

(* A refusal, a server error, or an answer lost after the row was written. *)
MutationFails(m) ==
    /\ m \in muts
    /\ muts' = muts \ {m}
    /\ sheet' = [sheet EXCEPT !.payBusy = @ /\ m.op \notin Marks,
                              !.reminding = @ /\ m.op # "remind"]
    /\ mark' = IF m.op \in Marks THEN [mark EXCEPT ![m.room] = "unknown"] ELSE mark
    /\ link' = IF m.op = "join" THEN "none" ELSE link
    /\ UNCHANGED <<server, activeRoom, detail, fetch, list, listReq, dialog,
                   ops, told, seen>>

-----------------------------------------------------------------------------
(* fetchRooms, called when a page mounts and by the invite link.  Nothing  *)
(* orders its answers with those of the mutations.                         *)
FetchRooms ==
    /\ LinkHandled /\ activeRoom = None /\ listReq["page"] = None
    /\ listReq' = [listReq EXCEPT !["page"] = [room |-> None, answer |-> None]]
    /\ UNCHANGED <<server, activeRoom, detail, fetch, muts, list, dialog,
                   sheet, link, ops, history>>

ListRead(c) ==
    /\ listReq[c] # None /\ listReq[c].answer = None
    /\ listReq' = [listReq EXCEPT ![c].answer = Visible]
    /\ UNCHANGED <<server, activeRoom, detail, fetch, muts, list, dialog,
                   sheet, link, ops, history>>

(* The answer replaces the list; a failure leaves it and records an error. *)
ListAnswered(c, ok) ==
    /\ listReq[c] # None
    /\ ok => listReq[c].answer # None
    /\ list' = IF ok THEN Listed(listReq[c].answer) ELSE list
    /\ listReq' = [listReq EXCEPT ![c] = None]
    /\ IF c = "link"
       THEN /\ activeRoom' = listReq[c].room
            /\ link' = "none"
            /\ ActiveRoomEffect(listReq[c].room)
       ELSE UNCHANGED <<activeRoom, link, fetch, detail, sheet, dialog, told>>
    /\ UNCHANGED <<server, muts, ops, mark, seen>>

-----------------------------------------------------------------------------
FetchSettles == FetchPopulates \/ FetchFails

Backend ==
    \/ FetchRead
    \/ \E m \in muts : Handle(m)
    \/ \E m \in muts, r \in Rooms : HandleCreate(m, r)
    \/ \E c \in Callers : ListRead(c)

User ==
    \/ \E r \in Rooms : RoomLink(r) \/ JoinByInvite(r) \/ OpenRoom(r) \/ DeleteCard(r)
    \/ CloseRoom
    \/ \E d \in Dialogs : OpenDialog(d)
    \/ CancelDialog \/ Confirm
    \/ \E op \in Edits \ ConfirmedEdits : PickEdit(op)
    \/ Remind \/ CreateRoom \/ FetchRooms

Answered ==
    \/ FetchSettles
    \/ \E m \in muts : MarkOk(m) \/ DeleteOk(m) \/ CreateOk(m) \/ JoinOk(m)
    \/ \E m \in muts : RefetchAfterMutation(m) \/ MutationFails(m)
    \/ \E c \in Callers, ok \in BOOLEAN : ListAnswered(c, ok)

Next == User \/ Backend \/ Answered

(* fetch() settles: every GET is answered or rejected in the end.          *)
Fairness == WF_vars(FetchRead) /\ WF_vars(FetchSettles)

Spec == Init /\ [][Next]_vars /\ Fairness

-----------------------------------------------------------------------------
TypeOK ==
    /\ server \in [Rooms -> ServerRoom]
    /\ activeRoom \in Rooms \cup {None}
    /\ detail \in RoomDetailData \cup {None}
    /\ fetch \in Fetches \cup {None}
    /\ muts \subseteq Mutations
    /\ \A m \in muts : m.op # "create" => m.room \in Rooms
    /\ list \in [Rooms -> Nat]
    /\ listReq \in [Callers -> ListRequests \cup {None}]
    /\ dialog \in Dialogs \cup {None}
    /\ sheet \in [reminding : BOOLEAN, payBusy : BOOLEAN]
    /\ link \in {"none", "room", "invite", "joining"}
    /\ ops \in 0 .. MaxOps
    /\ told \in Reports \cup {"no"}
    /\ mark \in [Rooms -> Marks \cup {"none", "unknown"}]
    /\ seen \in [Rooms -> Nat]

(* What a GET brings is never older than what the client had heard of the  *)
(* room when it was sent: a refetch shows the edit it follows, and closing *)
(* and opening the sheet again does not lose one.                          *)
FreshAfterWrite ==
    fetch # None /\ fetch.answer # None =>
        fetch.answer.ver >= fetch.since

(* Per-member marks never overlap (pendingPayUid): with none in flight and *)
(* none failed, the server holds the mark the user was last told of.       *)
LastMarkWins ==
    \A r \in Rooms :
        /\ \A m \in muts : m.op \in Marks => m.room # r
        /\ mark[r] \in Marks
        => server[r].paid = (mark[r] = "pay")

(* A room joined by an invite link is listed once, whichever of the list   *)
(* refresh and the join is answered first.                                 *)
JoinedListedOnce == \A r \in Rooms : ~server[r].owner => list[r] <= 1

(* An open sheet does not stay blank without a word: it gets a detail, is  *)
(* closed, or its load fails and the user sees a toast about it, or saw    *)
(* "Session expired" less than 30 s before the load was refused with a     *)
(* 401 (README).  Deletions are left out: one that is answered while the   *)
(* sheet shows the room blanks it for good (README).                       *)
Blank ==
    /\ activeRoom # None /\ detail = None /\ told = "no"
    /\ \A r \in Rooms : server[r].state # "gone"
BlankSheetIsExplained == Blank ~> ~Blank

=============================================================================
