--------------------------- MODULE CreateRoomForm ---------------------------
(***************************************************************************)
(* CreateRoomSheet: the three-step form that creates a shared room.  The   *)
(* component stays mounted, so its state outlives the drawer; an effect    *)
(* resets most of it when the drawer closes.  What is typed is abstracted  *)
(* to whether it suffices: a name, a custom service, the note asked of a   *)
(* second service of one brand.  A search matches everything or nothing.   *)
(***************************************************************************)
EXTENDS Catalogue, Naturals, Sequences

CONSTANTS Currencies,
          MaxPicked,   \* bound: services picked in one draft
          MaxSaves     \* bound: POST /rooms requests

ASSUME CreateRoomAssumption ==
    /\ MaxPicked \in Nat /\ MaxSaves \in Nat

VARIABLES createRoomOpen,             \* modalStore.createRoomOpen
          roomStep,
          named,            \* the name is not blank
          currency, touched,
          defaultCurrency,  \* settingsStore, arrives whenever the profile does
          services,         \* the services picked so far
          newSearch, newDebounced,
          newCustom,           \* the custom form has a name and an amount
          newDup,              \* pendingDupService
          newNote,             \* pendingNote is not blank
          saving,
          inFlight, saves   \* POST requests: running, ever sent

basics == <<named, currency, touched>>
finding == <<newSearch, newDebounced>>
dialog == <<newDup, newNote>>
roomDraft == <<roomStep, basics, services, newCustom, dialog>>
requestVars == <<saving, inFlight, saves>>
outside == <<createRoomOpen, defaultCurrency, requestVars>>
roomFormVars == <<outside, roomDraft, finding>>

Picked == [brand : Brands \cup {"default"}, noted : BOOLEAN]

RoomFormInit ==
    /\ createRoomOpen = FALSE /\ roomStep = "basics" /\ named = FALSE
    /\ \E c \in Currencies : defaultCurrency = c /\ currency = c
    /\ touched = FALSE /\ services = <<>>
    /\ newSearch = "matching" /\ newDebounced = "matching"
    /\ newCustom = FALSE /\ newDup = "none" /\ newNote = FALSE
    /\ saving = FALSE /\ inFlight = 0 /\ saves = 0

-----------------------------------------------------------------------------
OpenForm ==
    /\ ~createRoomOpen
    /\ createRoomOpen' = TRUE
    /\ UNCHANGED <<roomDraft, defaultCurrency, finding, requestVars>>

(* The two effects that follow a close: the draft is cleared, and with the *)
(* field untouched again the settings' currency is adopted.                *)
ClearDraft ==
    /\ roomStep' = "basics" /\ named' = FALSE /\ services' = <<>>
    /\ touched' = FALSE /\ currency' = defaultCurrency
    /\ newSearch' = "matching" /\ newCustom' = FALSE
    /\ newDup' = "none" /\ newNote' = FALSE

(* Cancel, a swipe down, Telegram's back button, which no dialog covers.   *)
CloseFormClearsSaving ==   \* mutant: the reset takes `saving` with it
    /\ createRoomOpen
    /\ createRoomOpen' = FALSE
    /\ ClearDraft
    /\ saving' = FALSE
    /\ UNCHANGED <<defaultCurrency, newDebounced, inFlight, saves>>

CloseForm ==
    /\ createRoomOpen
    /\ createRoomOpen' = FALSE
    /\ ClearDraft
    /\ UNCHANGED <<defaultCurrency, newDebounced, requestVars>>

(* The profile answer or the settings page change the default currency.    *)
SettingsArrive(c) ==
    /\ c # defaultCurrency
    /\ defaultCurrency' = c
    /\ currency' = IF touched THEN currency ELSE c
    /\ UNCHANGED <<createRoomOpen, roomStep, named, touched, services,
                   newCustom, dialog, finding, requestVars>>

-----------------------------------------------------------------------------
On(s) == createRoomOpen /\ roomStep = s /\ newDup = "none"

(* Step 1: the name, the currency, Next.                                   *)
TypeName(filled) ==
    /\ On("basics")
    /\ named' = filled
    /\ UNCHANGED <<outside, roomStep, currency, touched, services, newCustom,
                   dialog, finding>>

PickCurrency(c) ==
    /\ On("basics")
    /\ currency' = c /\ touched' = TRUE
    /\ UNCHANGED <<outside, roomStep, named, services, newCustom, dialog,
                   finding>>

GoTo(from, to) ==
    /\ On(from)
    /\ roomStep' = to
    /\ UNCHANGED <<outside, basics, services, newCustom, dialog, finding>>

NextStep == named /\ GoTo("basics", "services")
BackToBasics == GoTo("services", "basics")
OpenCustom == GoTo("services", "custom")
CancelCustom == GoTo("custom", "services")

(* Step 3: the custom service.  Its form is blank on the next visit.       *)
FillCustom(filled) ==
    /\ On("custom")
    /\ newCustom' = filled
    /\ UNCHANGED <<outside, roomStep, basics, services, dialog, finding>>

Append1(brand, noted) ==
    /\ Len(services) < MaxPicked
    /\ services' = Append(services, [brand |-> brand, noted |-> noted])

AddCustomService ==
    /\ On("custom") /\ newCustom
    /\ Append1("default", FALSE)
    /\ newCustom' = FALSE
    /\ roomStep' = "services"
    /\ UNCHANGED <<outside, basics, dialog, finding>>

(* Step 2: the list follows the search 300 ms later and shows skeletons in *)
(* between.                                                                *)
TypeSearch(q) ==
    /\ On("services")
    /\ newSearch' = q
    /\ UNCHANGED <<outside, roomDraft, newDebounced>>

DebounceFires ==
    /\ newDebounced # newSearch
    /\ newDebounced' = newSearch
    /\ UNCHANGED <<outside, roomDraft, newSearch>>

Offered == newSearch = newDebounced /\ newDebounced = "matching"
IsDuplicate(b) == \E i \in 1 .. Len(services) : services[i].brand = b

(* A brand picked before opens the dialog that asks for a note.            *)
ServiceClick(b) ==
    /\ On("services") /\ Offered
    /\ IF IsDuplicate(b)
       THEN /\ newDup' = b /\ newNote' = FALSE
            /\ UNCHANGED services
       ELSE Append1(b, FALSE) /\ UNCHANGED dialog
    /\ UNCHANGED <<outside, roomStep, basics, newCustom, finding>>

TypeNote(filled) ==
    /\ createRoomOpen /\ newDup # "none"
    /\ newNote' = filled
    /\ UNCHANGED <<outside, roomStep, basics, services, newCustom, newDup,
                   finding>>

ConfirmDup ==
    /\ createRoomOpen /\ newDup # "none" /\ newNote
    /\ Append1(newDup, TRUE)
    /\ newDup' = "none" /\ newNote' = FALSE
    /\ UNCHANGED <<outside, roomStep, basics, newCustom, finding>>

CancelDup ==
    /\ createRoomOpen /\ newDup # "none"
    /\ newDup' = "none"
    /\ UNCHANGED <<outside, roomStep, basics, services, newCustom, newNote,
                   finding>>

RemoveService(i) ==
    /\ On("services")
    /\ services' = [j \in 1 .. Len(services) - 1 |->
                      IF j < i THEN services[j] ELSE services[j + 1]]
    /\ UNCHANGED <<outside, roomStep, basics, newCustom, dialog, finding>>

-----------------------------------------------------------------------------
(* handleSave: the button is disabled while saving or with nothing picked. *)
Save ==
    /\ On("services") /\ ~saving /\ services # <<>>
    /\ saves < MaxSaves
    /\ IF named
       THEN /\ saving' = TRUE /\ inFlight' = inFlight + 1 /\ saves' = saves + 1
            /\ UNCHANGED roomStep
       ELSE roomStep' = "basics" /\ UNCHANGED requestVars
    /\ UNCHANGED <<createRoomOpen, basics, services, newCustom, dialog,
                   defaultCurrency, finding>>

(* The answer.  A success closes whatever form is open by then.            *)
SaveAnswered(ok) ==
    /\ inFlight > 0
    /\ inFlight' = inFlight - 1
    /\ saving' = FALSE
    /\ IF ok /\ createRoomOpen
       THEN createRoomOpen' = FALSE /\ ClearDraft
       ELSE UNCHANGED <<createRoomOpen, roomDraft, newSearch>>
    /\ UNCHANGED <<defaultCurrency, newDebounced, saves>>

RoomFormNext ==
    \/ OpenForm \/ CloseForm
    \/ \E c \in Currencies : SettingsArrive(c) \/ PickCurrency(c)
    \/ \E filled \in BOOLEAN :
         TypeName(filled) \/ FillCustom(filled) \/ TypeNote(filled)
    \/ NextStep \/ BackToBasics
    \/ OpenCustom \/ CancelCustom \/ AddCustomService
    \/ \E q \in Queries : TypeSearch(q)
    \/ DebounceFires
    \/ \E b \in Brands : ServiceClick(b)
    \/ ConfirmDup \/ CancelDup
    \/ \E i \in 1 .. Len(services) : RemoveService(i)
    \/ Save
    \/ \E ok \in BOOLEAN : SaveAnswered(ok)

RoomFormSpec == RoomFormInit /\ [][RoomFormNext]_roomFormVars

-----------------------------------------------------------------------------
RoomFormTypeOK ==
    /\ createRoomOpen \in BOOLEAN /\ saving \in BOOLEAN /\ touched \in BOOLEAN
    /\ roomStep \in {"basics", "services", "custom"}
    /\ named \in BOOLEAN /\ newCustom \in BOOLEAN /\ newNote \in BOOLEAN
    /\ currency \in Currencies /\ defaultCurrency \in Currencies
    /\ services \in Seq(Picked) /\ Len(services) <= MaxPicked
    /\ newSearch \in Queries /\ newDebounced \in Queries
    /\ newDup \in Brands \cup {"none"}
    /\ saves \in 0 .. MaxSaves /\ inFlight \in 0 .. saves

(* A room is created once per tap on Create: no second POST leaves while   *)
(* one is running, also when the form is closed and opened in between.     *)
OneCreateInFlight == inFlight <= 1 /\ (inFlight = 1 => saving)
=============================================================================
