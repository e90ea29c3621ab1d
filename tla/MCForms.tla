------------------------------ MODULE MCForms ------------------------------
(* The three forms of the client: creating a room, adding or editing a     *)
(* subscription, adding a service to a room.  They share no state, so one  *)
(* of them is played per behaviour and the run is the sum of the three.    *)
EXTENDS CreateRoomForm, SubscriptionForm, RoomPicker

VARIABLE played

MCInit ==
    /\ RoomFormInit /\ SubFormInit /\ PickerInit
    /\ played \in {"room", "subscription", "picker"}
    /\ played # "room" => currency = CHOOSE c \in Currencies : TRUE
    /\ played # "subscription" => landed /\ rows = items

Play(part) ==
    /\ played = part /\ UNCHANGED played
    /\ part # "room" => UNCHANGED roomFormVars
    /\ part # "subscription" => UNCHANGED subFormVars
    /\ part # "picker" => UNCHANGED pickerVars

MCNext ==
    \/ Play("room") /\ RoomFormNext
    \/ Play("subscription") /\ SubFormNext
    \/ Play("picker") /\ PickerNext

MCSpec == MCInit /\ [][MCNext]_<<roomFormVars, subFormVars, pickerVars, played>>
=============================================================================
