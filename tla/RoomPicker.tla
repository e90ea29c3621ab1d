----------------------------- MODULE RoomPicker -----------------------------
(***************************************************************************)
(* The service picker inside SharedRoomSheet, for one room: the list with  *)
(* its search, the inline form of a custom service and the dialog that     *)
(* asks for a note when the room already has a service of the brand.  None *)
(* of its buttons waits for the request it sent.  A detail request reads   *)
(* and answers in one step here; RoomClient has the two apart.             *)
(***************************************************************************)
EXTENDS Catalogue, Naturals, Sequences, FiniteSets

CONSTANT MaxAdds   \* bound: POST /rooms/:id/services requests

ASSUME PickerAssumption == MaxAdds \in Nat

VARIABLES room,              \* the backend's services of the room
          sheetOpen, loading,
          showing, shown,    \* activeDetail: is there one, its services
          picking, search, debounced,
          customMode, custom,  \* the inline form, whether it is filled in
          dup, note,         \* pendingDupService, pendingNote
          adds, sent,        \* POST requests: running, ever sent
          unsure             \* history: brands tapped again before the answer,
                             \* or whose answer was lost

view == <<sheetOpen, loading, showing, shown>>
pickerForm == <<picking, search, debounced, customMode, custom, dup, note>>
pickerVars == <<room, view, pickerForm, adds, sent, unsure>>

Service == [brand : Brands \cup {"default"}, noted : BOOLEAN]
Adds == [n : 1 .. MaxAdds, brand : Brands \cup {"default"}, noted : BOOLEAN,
         handled : BOOLEAN]

PickerInit ==
    /\ room = <<>> /\ shown = <<>>
    /\ sheetOpen = FALSE /\ loading = FALSE /\ showing = FALSE
    /\ picking = FALSE /\ search = "matching" /\ debounced = "matching"
    /\ customMode = FALSE /\ custom = FALSE /\ dup = "none" /\ note = FALSE
    /\ adds = {} /\ sent = 0 /\ unsure = {}

-----------------------------------------------------------------------------
OpenSheet ==
    /\ ~sheetOpen
    /\ sheetOpen' = TRUE /\ loading' = TRUE
    /\ UNCHANGED <<room, showing, shown, pickerForm, adds, sent, unsure>>

(* A swipe passes through the sheet's own handler, the Close button and    *)
(* Telegram's back button do not.                                          *)
CloseSheet(swiped) ==
    /\ sheetOpen /\ (swiped => dup = "none")
    /\ sheetOpen' = FALSE /\ showing' = FALSE /\ shown' = <<>>
    /\ picking' = (picking /\ ~swiped)
    /\ UNCHANGED <<room, loading, search, debounced, customMode, custom, dup,
                   note, adds, sent, unsure>>

Show(ok) ==
    /\ showing' = ok
    /\ shown' = IF ok THEN room ELSE <<>>
    /\ loading' = FALSE

DetailArrives(ok) ==
    /\ loading
    /\ Show(ok)
    /\ UNCHANGED <<room, sheetOpen, pickerForm, adds, sent, unsure>>

-----------------------------------------------------------------------------
(* The sheet's controls answer while a room is shown and no dialog covers. *)
Touchable == sheetOpen /\ showing /\ dup = "none"
Picking == Touchable /\ picking
Listing == Picking /\ search = debounced
Only(unchanged) == UNCHANGED <<room, view, adds, sent, unsure, unchanged>>

TogglePicking ==
    /\ Touchable
    /\ picking' = ~picking /\ search' = "matching"
    /\ Only(<<debounced, customMode, custom, dup, note>>)

TypeServiceSearch(q) ==
    /\ Picking
    /\ search' = q
    /\ Only(<<picking, debounced, customMode, custom, dup, note>>)

SearchSettles ==
    /\ debounced # search
    /\ debounced' = search
    /\ Only(<<picking, search, customMode, custom, dup, note>>)

ToggleCustom(on) ==
    /\ Listing /\ customMode = ~on
    /\ on => debounced = "matching"
    /\ customMode' = on
    /\ Only(<<picking, search, debounced, custom, dup, note>>)

TypeCustom(filled) ==
    /\ Listing /\ customMode
    /\ custom' = filled
    /\ Only(<<picking, search, debounced, customMode, dup, note>>)

Post(brand, noted) ==
    /\ sent < MaxAdds
    /\ sent' = sent + 1
    /\ adds' = adds \cup
         {[n |-> sent + 1, brand |-> brand, noted |-> noted,
           handled |-> FALSE]}
    /\ unsure' = IF \E r \in adds : r.brand = brand
                 THEN unsure \cup {brand} ELSE unsure
    /\ UNCHANGED <<room, view>>

AddCustom ==
    /\ Listing /\ customMode /\ custom
    /\ \E noted \in BOOLEAN : Post("default", noted)
    /\ UNCHANGED pickerForm

HasBrand(b) == \E i \in 1 .. Len(shown) : shown[i].brand = b

TapServiceUnasked(b) ==   \* mutant: the room's services are not consulted
    /\ Listing /\ debounced = "matching"
    /\ Post(b, FALSE) /\ UNCHANGED pickerForm

TapService(b) ==
    /\ Listing /\ debounced = "matching"
    /\ IF HasBrand(b)
       THEN /\ dup' = b /\ note' = FALSE
            /\ Only(<<picking, search, debounced, customMode, custom>>)
       ELSE Post(b, FALSE) /\ UNCHANGED pickerForm

(* The dialog about the second service of a brand.  It outlives a sheet    *)
(* closed with the back button, and then its Add finds no room to add to.  *)
TypeDupNote(filled) ==
    /\ dup # "none"
    /\ note' = filled
    /\ Only(<<picking, search, debounced, customMode, custom, dup>>)

AnswerDup(add) ==
    /\ dup # "none" /\ (add => note)
    /\ dup' = "none"
    /\ IF add /\ showing
       THEN Post(dup, TRUE)
       ELSE UNCHANGED <<room, view, adds, sent, unsure>>
    /\ UNCHANGED <<picking, search, debounced, customMode, custom, note>>

-----------------------------------------------------------------------------
HandleAddService(r) ==
    /\ r \in adds /\ ~r.handled
    /\ room' = Append(room, [brand |-> r.brand, noted |-> r.noted])
    /\ adds' = (adds \ {r}) \cup {[r EXCEPT !.handled = TRUE]}
    /\ UNCHANGED <<view, pickerForm, sent, unsure>>

(* addService resolves after the detail was fetched again, which shows the *)
(* room even if the sheet was closed meanwhile; the picker then folds up.  *)
AddSettled(r, refetched) ==
    /\ r \in adds /\ r.handled
    /\ adds' = adds \ {r}
    /\ Show(refetched)
    /\ picking' = FALSE
    /\ IF r.brand = "default"
       THEN customMode' = FALSE /\ custom' = FALSE /\ UNCHANGED <<dup, note>>
       ELSE dup' = "none" /\ note' = FALSE /\ UNCHANGED <<customMode, custom>>
    /\ UNCHANGED <<room, sheetOpen, search, debounced, sent, unsure>>

(* Refused, or done and the answer lost: a toast, nothing is fetched.      *)
AddFails(r) ==
    /\ r \in adds
    /\ adds' = adds \ {r}
    /\ unsure' = IF r.handled THEN unsure \cup {r.brand} ELSE unsure
    /\ UNCHANGED <<room, view, pickerForm, sent>>

RemoveShown(i) ==
    /\ Touchable /\ room = shown /\ adds = {}
    /\ room' = [j \in 1 .. Len(room) - 1 |->
                  IF j < i THEN room[j] ELSE room[j + 1]]
    /\ shown' = room'
    /\ UNCHANGED <<sheetOpen, loading, showing, pickerForm, adds, sent,
                   unsure>>

PickerNext ==
    \/ OpenSheet \/ TogglePicking \/ SearchSettles \/ AddCustom
    \/ \E yes \in BOOLEAN : \/ CloseSheet(yes) \/ DetailArrives(yes)
                            \/ ToggleCustom(yes) \/ TypeCustom(yes)
                            \/ TypeDupNote(yes) \/ AnswerDup(yes)
    \/ \E q \in Queries : TypeServiceSearch(q)
    \/ \E b \in Brands : TapService(b)
    \/ \E r \in adds : HandleAddService(r) \/ AddFails(r)
    \/ \E r \in adds, ok \in BOOLEAN : AddSettled(r, ok)
    \/ \E i \in 1 .. Len(shown) : RemoveShown(i)

PickerSpec == PickerInit /\ [][PickerNext]_pickerVars

-----------------------------------------------------------------------------
PickerTypeOK ==
    /\ room \in Seq(Service) /\ shown \in Seq(Service)
    /\ sheetOpen \in BOOLEAN /\ loading \in BOOLEAN /\ showing \in BOOLEAN
    /\ picking \in BOOLEAN /\ customMode \in BOOLEAN /\ custom \in BOOLEAN
    /\ search \in Queries /\ debounced \in Queries
    /\ dup \in Brands \cup {"none"} /\ note \in BOOLEAN
    /\ adds \subseteq Adds /\ sent \in 0 .. MaxAdds
    /\ unsure \subseteq Brands \cup {"default"}

(* A second service of a brand without a note that tells the two apart is  *)
(* added only by tapping again before the first add was answered, or after *)
(* its answer was lost: neither a removal, a failed refetch nor a sheet    *)
(* closed and opened again gets one past the dialog.                       *)
Bare(b) ==
    Cardinality({i \in 1 .. Len(room) : room[i].brand = b /\ ~room[i].noted})
NoteTellsApart == \A b \in Brands \ unsure : Bare(b) <= 1
=============================================================================
