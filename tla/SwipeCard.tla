------------------------------ MODULE SwipeCard ------------------------------
(***************************************************************************)
(* A swipeable card of the lists: useSwipeGesture with its touch and mouse *)
(* handlers, the snap animation with its two ways to end, the clicks of    *)
(* the browser and of buttonClickPrimer, and the delete tray of the card.  *)
(* Distances are pixels to the left, speeds tenths of a pixel per ms.      *)
(***************************************************************************)
EXTENDS Integers, Sequences, FiniteSets

CONSTANTS Travels,   \* how far a pointer is from where it went down, each way
          Speeds,    \* of its last movement
          MaxSnaps   \* bound: snap timers running when a press begins

ASSUME SwipeAssumption ==
    Travels \subseteq Int /\ Speeds \subseteq Nat /\ MaxSnaps \in Nat

VARIABLES trayOpen, offset,     \* React state
          swiping, axis, dragX, speed, mouseActive, didDrag,
          animating, snaps,     \* snap timers, oldest first
          contact,              \* the pointer
          reach,                \* "near": never out of the slop of a tap,
                                \* "away": out of it, "back": in it again
          clickDue,             \* "mouse": the emulated mouse events, then a
                                \* click; "click": a click; "none"
          primer, recent,       \* buttonClickPrimer
          confirm, deleting,    \* the card's dialog and delete
          clicked, dragged,     \* history of the last press: its click, did it
          rearmed               \* move the card, did its own emulated mouse
                                \* events make the hook forget that

gestureVars == <<swiping, axis, dragX, speed, mouseActive, didDrag>>
snapVars == <<trayOpen, offset, animating, snaps>>
pressVars == <<contact, reach, dragged, rearmed>>
clickVars == <<clickDue, primer, recent, clicked>>
trayVars == <<confirm, deleting>>
swipeVars == <<gestureVars, snapVars, pressVars, clickVars, trayVars>>

DISTANCE_THRESHOLD == 80
VELOCITY_THRESHOLD == 4
VELOCITY_REDUCED_DISTANCE == 30
SNAP_OPEN == 80
MAX_SWIPE == 120

AXIS_LOCK_DISTANCE == 6
TAP_MOVE_TOLERANCE == 10   \* of buttonClickPrimer; a browser's is no smaller

Absolute(a) == IF a < 0 THEN -a ELSE a
Largest(a, b) == IF a > b THEN a ELSE b
clampOffset(raw) ==
    IF raw > MAX_SWIPE THEN MAX_SWIPE + ((raw - MAX_SWIPE) * 3) \div 10
    ELSE Largest(0, raw)

(* The distance beyond which a release opens the tray.                     *)
Threshold(v) ==
    IF v > VELOCITY_THRESHOLD
    THEN Largest(VELOCITY_REDUCED_DISTANCE, DISTANCE_THRESHOLD - v * 8)
    ELSE DISTANCE_THRESHOLD

Base == IF trayOpen THEN SNAP_OPEN ELSE 0

SwipeInit ==
    /\ trayOpen = FALSE /\ offset = 0 /\ swiping = FALSE /\ axis = "none"
    /\ dragX = 0 /\ speed = 0 /\ mouseActive = FALSE /\ didDrag = FALSE
    /\ animating = FALSE /\ snaps = <<>> /\ confirm = FALSE /\ deleting = "no"
    /\ contact = "up" /\ reach = "near" /\ dragged = FALSE /\ rearmed = FALSE
    /\ clickDue = "none" /\ primer = FALSE /\ recent = FALSE
    /\ clicked = "none"

-----------------------------------------------------------------------------
snapTo(open) ==
    /\ animating' = TRUE
    /\ offset' = IF open THEN SNAP_OPEN ELSE 0
    /\ snaps' = Append(snaps, [open |-> open, listening |-> TRUE])
    /\ UNCHANGED trayOpen

(* transitionend, of the card or bubbling from what is on it: every        *)
(* listener runs.  A snap to where the card already is has none.           *)
TransitionEnds ==
    /\ \E last \in DOMAIN snaps :
          /\ snaps[last].listening
          /\ \A i \in DOMAIN snaps : snaps[i].listening => i <= last
          /\ trayOpen' = snaps[last].open
    /\ snaps' = [i \in DOMAIN snaps |-> [snaps[i] EXCEPT !.listening = FALSE]]
    /\ animating' = FALSE
    /\ UNCHANGED <<offset, gestureVars, pressVars, clickVars, trayVars>>

(* 350 ms after a snap: its listener goes, called or not.                  *)
SnapTimer ==
    /\ snaps # <<>>
    /\ snaps' = Tail(snaps)
    /\ animating' = FALSE
    /\ UNCHANGED <<trayOpen, offset, gestureVars, pressVars, clickVars, trayVars>>

decideSnap == snapTo(dragX > Threshold(speed))

-----------------------------------------------------------------------------
CardMounted == deleting # "gone"
CanPress == /\ CardMounted /\ ~confirm /\ deleting = "no" /\ contact = "up"
            /\ clickDue = "none" /\ ~primer /\ Len(snaps) < MaxSnaps

(* Both kinds of press begin a gesture unless the card is animating; only  *)
(* the mouse's forgets the drag before it.                                 *)
GestureBegins(byMouse) ==
    IF animating
    THEN UNCHANGED gestureVars
    ELSE /\ swiping' = TRUE /\ axis' = "none" /\ dragX' = Base /\ speed' = 0
         /\ mouseActive' = (mouseActive \/ byMouse)
         /\ didDrag' = (didDrag /\ ~byMouse)

Press(kind) ==
    /\ CanPress
    /\ contact' = kind /\ reach' = "near" /\ dragged' = FALSE
    /\ rearmed' = FALSE /\ clicked' = "none"
    /\ GestureBegins(kind = "mouse")
    /\ UNCHANGED <<snapVars, clickDue, primer, recent, trayVars>>

Beyond(x, y, d) == Absolute(x) > d \/ Absolute(y) > d
Axis(x, y) ==
    IF axis # "none" THEN axis
    ELSE IF ~Beyond(x, y, AXIS_LOCK_DISTANCE) THEN "none"
    ELSE IF Absolute(x) > Absolute(y) THEN "x" ELSE "y"

(* The first movement of more than 6 px decides the axis for the whole     *)
(* gesture, and is a drag when it is sideways.  The drag is a tap as well, *)
(* for the browser and the primer, as long as it stays within 10 px.       *)
Moved(kind, x, y, v, noted) ==
    /\ contact = kind
    /\ reach' = IF Beyond(x, y, TAP_MOVE_TOLERANCE) THEN "away"
                ELSE IF reach = "away" THEN "back" ELSE reach
    /\ LET along == Axis(x, y) IN
       IF ~swiping \/ (kind = "mouse" /\ ~mouseActive) \/ along = "none"
       THEN UNCHANGED <<gestureVars, offset, dragged>>
       ELSE IF along = "y"
       THEN /\ swiping' = FALSE /\ axis' = "y"
            /\ mouseActive' = (mouseActive /\ kind # "mouse")
            /\ UNCHANGED <<dragX, speed, didDrag, offset, dragged>>
       ELSE /\ axis' = "x" /\ didDrag' = (didDrag \/ noted)
            /\ dragX' = Base + x /\ offset' = clampOffset(Base + x)
            /\ speed' = v /\ dragged' = TRUE
            /\ UNCHANGED <<swiping, mouseActive>>
    /\ UNCHANGED <<trayOpen, animating, snaps, contact, rearmed, clickVars,
                   trayVars>>

MoveUnflagged(kind, x, y, v) ==   \* mutant: a mouse drag is not noted
    Moved(kind, x, y, v, kind = "touch")
Move(kind, x, y, v) == Moved(kind, x, y, v, TRUE)

Release == IF swiping /\ (contact = "touch" \/ mouseActive)
           THEN swiping' = FALSE /\ axis' = "none" /\ decideSnap
           ELSE UNCHANGED <<swiping, axis, snapVars>>

(* A touch that stayed near is followed by emulated mouse events and a     *)
(* click, which iOS may drop; a mouse press by a click, also after a drag. *)
(* The primer looks after a quick press that ends near where it began.     *)
Lift(dropped, quick) ==
    /\ contact \in {"touch", "mouse"}
    /\ contact' = "up"
    /\ Release
    /\ mouseActive' = (mouseActive /\ contact = "touch")
    /\ clickDue' = CASE contact = "mouse" -> "click"
                     [] contact = "touch" /\ reach = "near" /\ ~dropped -> "mouse"
                     [] OTHER -> "none"
    /\ primer' = (quick /\ reach # "away")
    /\ UNCHANGED <<dragX, speed, didDrag, reach, dragged, rearmed, recent,
                   clicked, trayVars>>

(* Taken away by the system: the hook has no handler for it.               *)
TouchCancel ==
    /\ contact = "touch"
    /\ contact' = "up"
    /\ UNCHANGED <<gestureVars, snapVars, reach, dragged, rearmed, clickVars,
                   trayVars>>

EmulatedMouse ==
    /\ clickDue = "mouse"
    /\ clickDue' = "click"
    /\ IF animating \/ deleting # "no"
       THEN UNCHANGED <<gestureVars, snapVars, rearmed>>
       ELSE /\ rearmed' = TRUE
            /\ didDrag' = FALSE /\ swiping' = FALSE /\ axis' = "none"
            /\ dragX' = Base /\ speed' = 0 /\ mouseActive' = FALSE
            /\ snapTo(FALSE)
    /\ UNCHANGED <<contact, reach, dragged, primer, recent, clicked, trayVars>>

-----------------------------------------------------------------------------
handleCardClick ==
    IF didDrag THEN clicked' = "ignored" /\ UNCHANGED snapVars
    ELSE IF trayOpen THEN clicked' = "closed" /\ snapTo(FALSE)
    ELSE clicked' = "opened" /\ UNCHANGED snapVars

NativeClick ==
    /\ clickDue = "click"
    /\ clickDue' = "none" /\ recent' = TRUE
    /\ handleCardClick
    /\ UNCHANGED <<gestureVars, pressVars, primer, trayVars>>

(* 60 ms after the release; a native click may still come later.           *)
PrimerFires ==
    /\ primer
    /\ primer' = FALSE
    /\ IF recent THEN UNCHANGED <<recent, clicked, snapVars>>
       ELSE recent' = TRUE /\ handleCardClick
    /\ UNCHANGED <<gestureVars, pressVars, clickDue, trayVars>>

(* 120 ms after a click, longer than the primer waits.                     *)
ClickForgotten ==
    /\ recent /\ ~primer
    /\ recent' = FALSE
    /\ UNCHANGED <<gestureVars, snapVars, pressVars, clickDue, primer, clicked,
                   trayVars>>

-----------------------------------------------------------------------------
handleDeleteTap ==
    /\ CanPress /\ offset >= SNAP_OPEN
    /\ confirm' = TRUE
    /\ UNCHANGED <<gestureVars, snapVars, pressVars, clickVars, deleting>>

(* Escape closes the dialog and leaves the tray open.                      *)
handleCancelDelete(escaped) ==
    /\ confirm
    /\ confirm' = FALSE
    /\ IF escaped THEN UNCHANGED snapVars ELSE snapTo(FALSE)
    /\ UNCHANGED <<gestureVars, pressVars, clickVars, deleting>>

handleConfirmDelete ==
    /\ confirm
    /\ confirm' = FALSE /\ deleting' = "collapsing"
    /\ UNCHANGED <<gestureVars, snapVars, pressVars, clickVars>>

(* After 300 ms the list is asked to delete; if it cannot, the card stays  *)
(* collapsed.                                                              *)
DeleteAsked ==
    /\ deleting = "collapsing"
    /\ deleting' = "asked"
    /\ UNCHANGED <<gestureVars, snapVars, pressVars, clickVars, confirm>>

DeleteSettled(ok) ==
    /\ deleting = "asked"
    /\ deleting' = IF ok THEN "gone" ELSE "failed"
    /\ UNCHANGED <<gestureVars, snapVars, pressVars, clickVars, confirm>>

(* The list is left and shown again.                                       *)
Remount ==
    /\ CardMounted /\ contact = "up" /\ clickDue = "none" /\ ~primer
    /\ deleting \in {"no", "failed"}
    /\ trayOpen' = FALSE /\ offset' = 0 /\ swiping' = FALSE /\ axis' = "none"
    /\ dragX' = 0 /\ speed' = 0 /\ mouseActive' = FALSE /\ didDrag' = FALSE
    /\ animating' = FALSE /\ snaps' = <<>> /\ confirm' = FALSE
    /\ deleting' = "no"
    /\ UNCHANGED <<pressVars, clickVars>>

SwipeNext ==
    \/ TransitionEnds \/ SnapTimer
    \/ \E kind \in {"touch", "mouse"} :
          \/ Press(kind)
          \/ \E x, y \in Travels, v \in Speeds : Move(kind, x, y, v)
    \/ \E dropped, quick \in BOOLEAN : Lift(dropped, quick)
    \/ TouchCancel \/ EmulatedMouse
    \/ NativeClick \/ PrimerFires \/ ClickForgotten
    \/ handleDeleteTap \/ handleConfirmDelete
    \/ \E escaped \in BOOLEAN : handleCancelDelete(escaped)
    \/ DeleteAsked \/ \E ok \in BOOLEAN : DeleteSettled(ok)
    \/ Remount

SwipeSpec == SwipeInit /\ [][SwipeNext]_swipeVars

-----------------------------------------------------------------------------
SwipeTypeOK ==
    /\ trayOpen \in BOOLEAN /\ offset \in Nat
    /\ swiping \in BOOLEAN /\ axis \in {"none", "x", "y"}
    /\ dragX \in Int /\ speed \in Nat
    /\ mouseActive \in BOOLEAN /\ didDrag \in BOOLEAN /\ animating \in BOOLEAN
    /\ snaps \in Seq([open : BOOLEAN, listening : BOOLEAN])
    /\ contact \in {"up", "touch", "mouse"}
    /\ reach \in {"near", "away", "back"}
    /\ dragged \in BOOLEAN /\ rearmed \in BOOLEAN /\ clickDue \in {"none", "mouse", "click"}
    /\ primer \in BOOLEAN /\ recent \in BOOLEAN
    /\ clicked \in {"none", "ignored", "closed", "opened"}
    /\ confirm \in BOOLEAN
    /\ deleting \in {"no", "collapsing", "asked", "failed", "gone"}

(* The press that moved the card sideways never opens what it shows,       *)
(* whichever click comes of it, the mouse's own, the one after a touch     *)
(* that is a drag and a tap at once, or the primer's; unless that touch's  *)
(* emulated mouse events come when the card has stopped moving: they are   *)
(* a press to the hook, which forgets the drag before the click (README).  *)
SwipeOpensNothing == clicked = "opened" /\ dragged => rearmed
=============================================================================
