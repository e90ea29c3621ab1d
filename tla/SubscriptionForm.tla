-------------------------- MODULE SubscriptionForm --------------------------
(***************************************************************************)
(* AddSubscriptionSheet, the handler GlobalModals gives it and the writing *)
(* half of subscriptionStore.  A row is abstracted to the calendar day of  *)
(* its next payment, which the backend anchors at noon in the user's       *)
(* stored time zone; the sheet shows it in the zone the client believes in *)
(* until the profile lands.                                                *)
(***************************************************************************)
EXTENDS Integers, FiniteSets

CONSTANTS Ids,         \* subscriptions
          None,
          Days,        \* calendar days a user picks
          Today,       \* the default of a new subscription
          StoredZone,  \* hours east of UTC: the zone in the profile
          GuessedZone, \* and the one shown before the profile lands
          MaxForms,    \* bound: times the sheet is opened
          MaxRequests  \* bound: requests in flight

ASSUME SubscriptionFormAssumption ==
    /\ None \notin Ids
    /\ Days \subseteq Int /\ Today \in Days
    /\ StoredZone \in -12 .. 14 /\ GuessedZone \in -12 .. 14
    /\ MaxForms \in Nat /\ MaxRequests \in Nat

VARIABLES rows,         \* the backend's rows: their day, None if there is none
          items,        \* the store's copy of them
          addSubOpen, initial, form,  \* the sheet, what it edits, its number
          step, draft,
          landed,       \* the profile, and with it the stored time zone
          addInFlight,  \* addSubscriptionInFlight
          requests,
          listing, listed,  \* fetchSubscriptions: where it is, what it read
          created       \* history: rows created per opening of the sheet

sheetVars == <<addSubOpen, initial, form, step, draft>>
fetchVars == <<listing, listed>>
subFormVars == <<rows, items, sheetVars, landed, addInFlight, requests,
                 fetchVars, created>>

Forms == 1 .. MaxForms
Requests == [kind : {"add", "update", "delete"}, id : Ids \cup {None},
             day : Int, form : 0 .. MaxForms, handled : BOOLEAN]

(* isoDateInTz: the day of an instant, in a zone of so many hours.         *)
NoonOf(day, zone) == 24 * day + 12 - zone
DayIn(instant, zone) == (instant + zone) \div 24
ShownDay(day) ==
    DayIn(NoonOf(day, StoredZone), IF landed THEN StoredZone ELSE GuessedZone)

BlankDraft == [edited |-> FALSE, dated |-> FALSE, day |-> Today]
DraftOf(row) ==
    [edited |-> FALSE, dated |-> FALSE, day |-> ShownDay(row.day)]

SubFormInit ==
    /\ rows \in [Ids -> {None, Today}]
    /\ items = [i \in Ids |-> None]
    /\ addSubOpen = FALSE /\ initial = None /\ form = 0
    /\ step = "catalog" /\ draft = BlankDraft
    /\ landed \in BOOLEAN
    /\ addInFlight = FALSE /\ requests = {}
    /\ listing = "sent" /\ listed = items
    /\ created = [f \in Forms |-> 0]

-----------------------------------------------------------------------------
(* The effect on [open, initial, userTimezone]: every field is set again.  *)
ResetForm(row, zoneLanded) ==
    IF row # None
    THEN /\ step' = "form"
         /\ draft' = [DraftOf(row) EXCEPT !.day =
              DayIn(NoonOf(row.day, StoredZone),
                    IF zoneLanded THEN StoredZone ELSE GuessedZone)]
    ELSE step' = "catalog" /\ draft' = BlankDraft

(* openAddSub: a new one, or the card of a listed subscription.            *)
OpenAddSub(id) ==
    /\ ~addSubOpen /\ form < MaxForms
    /\ id # None => items[id] # None
    /\ addSubOpen' = TRUE /\ form' = form + 1
    /\ initial' = IF id = None THEN None ELSE [id |-> id, day |-> items[id]]
    /\ ResetForm(initial', landed)
    /\ UNCHANGED <<rows, items, landed, addInFlight, requests, fetchVars,
                   created>>

(* Cancel, a swipe down or the back button: the fields stay as they are.   *)
CloseAddSub ==
    /\ addSubOpen
    /\ addSubOpen' = FALSE /\ initial' = None
    /\ UNCHANGED <<rows, items, form, step, draft, landed, addInFlight,
                   requests, fetchVars, created>>

ProfileLandsQuietly ==   \* mutant: userTimezone is no dependency of the effect
    /\ ~landed
    /\ landed' = TRUE
    /\ UNCHANGED <<rows, items, sheetVars, addInFlight, requests, fetchVars,
                   created>>

(* The profile lands, and an open sheet starts over.                       *)
ProfileLands ==
    /\ ~landed
    /\ landed' = TRUE
    /\ IF addSubOpen THEN ResetForm(initial, TRUE) ELSE UNCHANGED <<step,
                                                                    draft>>
    /\ UNCHANGED <<rows, items, addSubOpen, initial, form, addInFlight,
                   requests, fetchVars, created>>

-----------------------------------------------------------------------------
EditSheet(s) ==
    /\ addSubOpen /\ step = s
    /\ UNCHANGED <<rows, items, addSubOpen, initial, form, landed, addInFlight,
                   requests, fetchVars, created>>

(* A popular service fills the form in, the custom tile blanks its name.   *)
PickFromCatalog ==
    /\ EditSheet("catalog")
    /\ draft' = [draft EXCEPT !.edited = TRUE]
    /\ step' = "form"

(* The chevron of a new subscription, "change service" of any.             *)
BackToCatalog ==
    /\ EditSheet("form")
    /\ step' = "catalog"
    /\ UNCHANGED draft

(* Name and icon, for a custom one only, amount, period, note and so on.   *)
EditField ==
    /\ EditSheet("form")
    /\ draft' = [draft EXCEPT !.edited = TRUE]
    /\ UNCHANGED step

PickDay(d) ==
    /\ EditSheet("form")
    /\ draft' = [draft EXCEPT !.dated = TRUE, !.day = d]
    /\ UNCHANGED step

-----------------------------------------------------------------------------
Request(kind, id) ==
    [kind |-> kind, id |-> id, day |-> draft.day, form |-> form,
     handled |-> FALSE]

Send(r) ==
    /\ Cardinality(requests) < MaxRequests
    /\ requests' = requests \cup {r}

(* addSubscription's guard: a save while a POST is in flight resolves at   *)
(* once, so the sheet closes and the tap is confirmed.                     *)
SaveNewUnguarded ==   \* mutant: no single-flight guard
    /\ addSubOpen /\ step = "form" /\ initial = None
    /\ Send(Request("add", None))
    /\ addInFlight' = TRUE
    /\ UNCHANGED <<rows, items, sheetVars, landed, fetchVars, created>>

SaveNew ==
    /\ addSubOpen /\ step = "form" /\ initial = None
    /\ ~addInFlight
    /\ Send(Request("add", None))
    /\ addInFlight' = TRUE
    /\ UNCHANGED <<rows, items, sheetVars, landed, fetchVars, created>>

SaveNewIgnored ==
    /\ addSubOpen /\ step = "form" /\ initial = None
    /\ addInFlight
    /\ addSubOpen' = FALSE
    /\ UNCHANGED <<rows, items, initial, form, step, draft, landed,
                   addInFlight, requests, fetchVars, created>>

SaveEdit ==
    /\ addSubOpen /\ step = "form" /\ initial # None
    /\ Send(Request("update", initial.id))
    /\ UNCHANGED <<rows, items, sheetVars, landed, addInFlight, fetchVars,
                   created>>

(* The swipe card of Dashboard's list.                                     *)
DeleteSubscription(id) ==
    /\ ~addSubOpen /\ items[id] # None
    /\ Send([Request("delete", id) EXCEPT !.form = 0, !.day = Today])
    /\ UNCHANGED <<rows, items, sheetVars, landed, addInFlight, fetchVars,
                   created>>

-----------------------------------------------------------------------------
Handled(r, id) ==
    (requests \ {r}) \cup {[r EXCEPT !.handled = TRUE, !.id = id]}

HandleAdd(r, id) ==
    /\ r.kind = "add" /\ ~r.handled /\ rows[id] = None
    /\ \A q \in requests : q.id # id
    /\ rows' = [rows EXCEPT ![id] = r.day]
    /\ created' = [created EXCEPT ![r.form] = @ + 1]
    /\ requests' = Handled(r, id)
    /\ UNCHANGED <<items, sheetVars, landed, addInFlight, fetchVars>>

HandleChange(r) ==
    /\ r.kind # "add" /\ ~r.handled /\ rows[r.id] # None
    /\ rows' = [rows EXCEPT ![r.id] =
                                IF r.kind = "update" THEN r.day ELSE None]
    /\ requests' = Handled(r, r.id)
    /\ UNCHANGED <<items, sheetVars, landed, addInFlight, fetchVars,
                   created>>

(* handleSave in GlobalModals swallows a failure, so the sheet closes      *)
(* either way, whichever opening of it is on screen by now.                *)
Answered(r, ok) ==
    /\ r \in requests /\ (ok => r.handled)
    /\ requests' = requests \ {r}
    /\ items' =
         CASE ~ok -> items
           [] ok /\ r.kind = "delete" -> [items EXCEPT ![r.id] = None]
           [] ok /\ r.kind = "add" -> [items EXCEPT ![r.id] = r.day]
           [] OTHER -> [items EXCEPT ![r.id] =
                                     IF @ = None THEN None ELSE r.day]
    /\ addInFlight' = (addInFlight /\ r.kind # "add")
    /\ IF r.kind = "delete"
       THEN UNCHANGED <<addSubOpen, initial>>
       ELSE addSubOpen' = FALSE /\ initial' = None
    /\ UNCHANGED <<rows, form, step, draft, landed, fetchVars,
                   created>>

(* fetchSubscriptions, sent when the index route mounts; the dashboard     *)
(* does not wait for it.  Its answer replaces the whole list.              *)
ListingRead ==
    /\ listing = "sent"
    /\ listing' = "read" /\ listed' = rows
    /\ UNCHANGED <<rows, items, sheetVars, landed, addInFlight, requests,
                   created>>

ListingAnswered(ok) ==
    /\ listing = IF ok THEN "read" ELSE "sent"
    /\ items' = IF ok THEN listed ELSE items
    /\ listing' = "settled" /\ listed' = [i \in Ids |-> None]
    /\ UNCHANGED <<rows, sheetVars, landed, addInFlight, requests, created>>

SubFormNext ==
    \/ \E id \in Ids \cup {None} : OpenAddSub(id)
    \/ CloseAddSub \/ ProfileLands
    \/ PickFromCatalog \/ BackToCatalog \/ EditField
    \/ \E d \in Days : PickDay(d)
    \/ SaveNew \/ SaveNewIgnored \/ SaveEdit
    \/ \E id \in Ids : DeleteSubscription(id)
    \/ \E r \in requests, id \in Ids : HandleAdd(r, id)
    \/ \E r \in requests : HandleChange(r)
    \/ \E r \in requests, ok \in BOOLEAN : Answered(r, ok)
    \/ ListingRead
    \/ \E ok \in BOOLEAN : ListingAnswered(ok)

SubFormSpec == SubFormInit /\ [][SubFormNext]_subFormVars

-----------------------------------------------------------------------------
SubFormTypeOK ==
    /\ rows \in [Ids -> Int \cup {None}] /\ items \in [Ids -> Int \cup {None}]
    /\ addSubOpen \in BOOLEAN /\ form \in 0 .. MaxForms
    /\ initial \in [id : Ids, day : Int] \cup {None}
    /\ step \in {"catalog", "form"}
    /\ draft \in [edited : BOOLEAN, dated : BOOLEAN, day : Int]
    /\ landed \in BOOLEAN /\ addInFlight \in BOOLEAN
    /\ requests \subseteq Requests
    /\ listing \in {"sent", "read", "settled"}
    /\ listed \in [Ids -> Int \cup {None}]
    /\ created \in [Forms -> Nat]

(* One opening of the sheet creates at most one subscription, however      *)
(* often Save is tapped and in whatever order the answers come.            *)
OneRowPerForm == \A f \in Forms : created[f] <= 1

(* Once the profile has landed, the sheet shows the day the row was saved  *)
(* with as long as the user picked no other: saving an edit of something   *)
(* else does not move the payment.                                         *)
UntouchedDateKept ==
    addSubOpen /\ landed /\ initial # None /\ ~draft.dated
        => draft.day = initial.day

=============================================================================
