----------------------------- MODULE PagesProofs -----------------------------
(***************************************************************************)
(* Theorems about the pages of the client: the shell with its back button, *)
(* the settings, the premium sheet, the swipeable card and the list.       *)
(***************************************************************************)
EXTENDS DashboardList, Pages, SettingsClient, PremiumCheckout, SwipeCard,
        FiniteSetTheorems, TLAPS

(***************************************************************************)
(* Pages.                                                                  *)
(***************************************************************************)
\* What the effect of the back button sees.
LEMMA DepsAreHandlers ==
  ASSUME addSub \in {"closed", "new", "edit"}, createOpen \in BOOLEAN, roomOpen \in BOOLEAN
  PROVE  Deps \in Handlers /\ Unmounted \in Handlers
<1>1. Unmounted \in Handlers
  BY DEF Unmounted, Handlers
<1>2. ASSUME NEW v \in BOOLEAN, NEW a \in BOOLEAN, NEW s \in BOOLEAN
      PROVE  [mounted |-> TRUE, visible |-> v, add |-> a, create |-> createOpen,
              room |-> roomOpen, sub |-> s] \in Handlers
  BY DEF Handlers
<1>3. (tab # "dashboard" \/ addSub # "closed" \/ roomOpen \/ createOpen) \in BOOLEAN
      /\ (addSub # "closed") \in BOOLEAN /\ (tab # "dashboard") \in BOOLEAN
  OBVIOUS
<1> QED
  BY <1>1, <1>2, <1>3 DEF Deps

\* The stack of handlers stays one.
LEMMA HandlerStacks ==
  ASSUME NEW s \in Seq(Handlers), NEW h \in Handlers
  PROVE  hideBackButton(s) \in Seq(Handlers) /\ showBackButton(s, h) \in Seq(Handlers)
<1>1. CASE s = <<>>
  BY <1>1 DEF hideBackButton, showBackButton
<1>2. CASE s # <<>>
  <2>1. Len(s) \in Nat /\ Len(s) >= 1
    BY <1>2
  <2>2. SubSeq(s, 1, Len(s) - 1) \in Seq(Handlers)
    BY <2>1
  <2> QED
    BY <1>2, <2>2 DEF hideBackButton, showBackButton
<1> QED
  BY <1>1, <1>2

\* The shell keeps its types.
THEOREM PagesTypeCorrect ==
  PagesSpec => []PagesTypeOK
<1> USE PagesAssumption DEF Slides, Tabs, BootRequests
<1>1. PagesInit => PagesTypeOK
  <2> SUFFICES ASSUME PagesInit PROVE PagesTypeOK
    OBVIOUS
  <2>1. ran \in Handlers /\ stack \in Seq(Handlers)
    BY DEF PagesInit, Unmounted, Handlers
  <2>2. slide \in 0 .. Slides /\ subs \in 0 .. MaxItems /\ rooms \in 0 .. MaxItems
    BY DEF PagesInit
  <2> QED
    BY <2>1, <2>2 DEF PagesInit, PagesTypeOK
<1>2. PagesTypeOK /\ [PagesNext]_pagesVars => PagesTypeOK'
  <2> SUFFICES ASSUME PagesTypeOK, [PagesNext]_pagesVars PROVE PagesTypeOK'
    OBVIOUS
  <2> USE DEF PagesTypeOK, sheets, boot, intro, counts, backVars, Rest
  <2>1. CASE RunBackEffect
    <3> DEFINE cleaned == IF ran.visible THEN hideBackButton(stack) ELSE stack
    <3>1. Deps \in Handlers
      BY DepsAreHandlers
    <3>2. cleaned \in Seq(Handlers)
      BY HandlerStacks
    <3>3. \/ stack' = showBackButton(cleaned, Deps) \/ stack' = hideBackButton(cleaned)
          \/ stack' = cleaned
      BY <2>1 DEF RunBackEffect
    <3> HIDE DEF cleaned
    <3>4. stack' \in Seq(Handlers) /\ ran' \in Handlers
      BY <2>1, <3>1, <3>2, <3>3, HandlerStacks DEF RunBackEffect
    <3>5. UNCHANGED <<mode, page, tab, boot, sheets, premium, intro, counts,
                      gated, subscribed, link>>
      BY <2>1 DEF RunBackEffect
    <3> QED
      BY <3>4, <3>5
  <2>2. CASE BackPressed
    <3> DEFINE h == stack[Len(stack)]
    <3>1. handleBack(h)
      BY <2>2 DEF BackPressed
    <3> HIDE DEF h
    <3>2. /\ addSub' \in {"closed", "new", "edit"} /\ createOpen' \in BOOLEAN
          /\ roomOpen' \in BOOLEAN /\ tab' \in Tabs
      BY <3>1 DEF handleBack
    <3>3. UNCHANGED <<mode, page, boot, filterOpen, premium, intro, counts,
                      gated, subscribed, link, backVars>>
      BY <2>2 DEF BackPressed
    <3> QED
      BY <3>2, <3>3
  <2>3. ASSUME NEW r \in BootRequests, NEW on \in BOOLEAN, BootSettles(r, on)
        PROVE  PagesTypeOK'
    BY <2>3 DEF BootSettles
  <2>4. ASSUME NEW s \in 0 .. MaxItems, NEW r \in 0 .. MaxItems, ListsArrive(s, r)
        PROVE  PagesTypeOK'
    BY <2>4 DEF ListsArrive
  <2>5. CASE ProfileTellsPremium
    BY <2>5 DEF ProfileTellsPremium
  <2>6. ASSUME NEW t \in Tabs, handleTabChange(t) PROVE PagesTypeOK'
    BY <2>6 DEF handleTabChange
  <2>7. CASE openAdd
    <3>1. (premium' = TRUE /\ UNCHANGED addSub) \/ (addSub' = "new" /\ UNCHANGED premium)
      BY <2>7 DEF openAdd
    <3>2. UNCHANGED <<createOpen, roomOpen, filterOpen>> /\ Rest
      BY <2>7 DEF openAdd
    <3>3. premium' \in BOOLEAN /\ addSub' \in {"closed", "new", "edit"}
      BY <3>1, Zenon
    <3> QED
      BY <3>2, <3>3
  <2>8. CASE openEdit
    BY <2>8 DEF openEdit
  <2>9. CASE handleDelete
    <3>1. subs' \in 0 .. MaxItems
      BY <2>9 DEF handleDelete
    <3> QED
      BY <2>9, <3>1 DEF handleDelete
  <2>10. CASE ToggleFilter
    BY <2>10 DEF ToggleFilter
  <2>11. ASSUME NEW saved \in BOOLEAN, closeAddSub(saved) PROVE PagesTypeOK'
    <3>1. subs' \in 0 .. MaxItems
      BY <2>11 DEF closeAddSub
    <3> QED
      BY <2>11, <3>1 DEF closeAddSub
  <2>12. ASSUME NEW saved \in BOOLEAN, closeCreateRoom(saved) PROVE PagesTypeOK'
    <3>1. rooms' \in 0 .. MaxItems
      BY <2>12 DEF closeCreateRoom
    <3> QED
      <4>1. createOpen' = FALSE
            /\ UNCHANGED <<mode, page, tab, boot, addSub, roomOpen, filterOpen, premium,
                           intro, subs, gated, subscribed, link, backVars>>
        BY <2>12 DEF closeCreateRoom
      <4>2. createOpen' \in BOOLEAN
        BY <4>1, Zenon
      <4>3. UNCHANGED <<mode, page, tab, boot, addSub, roomOpen, filterOpen, premium,
                        intro, subs, gated, subscribed, link, backVars>>
        BY <4>1
      <4> QED
        BY <3>1, <4>2, <4>3
  <2>13. CASE handleOpenRoom
    BY <2>13 DEF handleOpenRoom
  <2>14. CASE closeRoom
    <3>1. roomOpen' = FALSE /\ UNCHANGED <<addSub, createOpen, filterOpen, premium>> /\ Rest
      BY <2>14 DEF closeRoom
    <3>2. roomOpen' \in BOOLEAN
      BY <3>1, Zenon
    <3>3. UNCHANGED <<addSub, createOpen, filterOpen, premium>> /\ Rest
      BY <3>1, Zenon
    <3> QED
      BY <3>2, <3>3
  <2>15. ASSUME NEW opened \in BOOLEAN, LinkHandled(opened) PROVE PagesTypeOK'
    BY <2>15 DEF LinkHandled
  <2>16. CASE handleCreateRoom \/ RoomsPageCreate
    <3>1. (premium' = TRUE /\ UNCHANGED createOpen) \/ (createOpen' = TRUE /\ UNCHANGED premium)
      BY <2>16 DEF handleCreateRoom, RoomsPageCreate, GatedCreate
    <3>2. UNCHANGED <<addSub, roomOpen, filterOpen>> /\ Rest
      BY <2>16 DEF handleCreateRoom, RoomsPageCreate, GatedCreate
    <3>3. premium' \in BOOLEAN /\ createOpen' \in BOOLEAN
      BY <3>1, Zenon
    <3> QED
      BY <3>2, <3>3
  <2>18. CASE EmptyPageCreate
    BY <2>18 DEF EmptyPageCreate
  <2>19. CASE ClosePremium
    <3>1. premium' = FALSE /\ UNCHANGED sheets /\ Rest
      BY <2>19 DEF ClosePremium
    <3>2. premium' \in BOOLEAN
      BY <3>1, Zenon
    <3>3. UNCHANGED sheets /\ Rest
      BY <3>1, Zenon
    <3> QED
      BY <3>2, <3>3
  <2>20. CASE handleViewAllRooms
    BY <2>20 DEF handleViewAllRooms
  <2>a. MountHome => /\ tab' \in Tabs /\ loading' \in BOOLEAN
                     /\ pending' \subseteq BootRequests /\ slide' \in 0 .. Slides
                     /\ link' \in {"none", "pending", "handled"} /\ premium' \in BOOLEAN
    <3> SUFFICES ASSUME MountHome
                 PROVE  /\ tab' \in Tabs /\ loading' \in BOOLEAN
                        /\ pending' \subseteq BootRequests /\ slide' \in 0 .. Slides
                        /\ link' \in {"none", "pending", "handled"} /\ premium' \in BOOLEAN
      OBVIOUS
    <3>3. tab' \in Tabs /\ pending' \subseteq BootRequests
      BY DEF MountHome
    <3>4. loading' \in BOOLEAN /\ premium' \in BOOLEAN
      BY Zenon DEF MountHome
    <3>1. slide' \in 0 .. Slides
      BY DEF MountHome
    <3>2. link' \in {"none", "pending", "handled"}
      BY DEF MountHome
    <3> QED
      BY <3>1, <3>2, <3>3, <3>4
  <2>21. CASE LeaveRooms
    BY <2>21, <2>a DEF LeaveRooms
  <2>22. CASE NextSlide
    <3>1. slide' \in 0 .. Slides
      BY <2>22 DEF NextSlide
    <3> QED
      BY <2>22, <3>1 DEF NextSlide
  <2>23. ASSUME NEW stored \in BOOLEAN, finish(stored) PROVE PagesTypeOK'
    <3>1. slide' \in 0 .. Slides
      BY <2>23 DEF finish
    <3> QED
      BY <2>23, <3>1 DEF finish
  <2>24. ASSUME NEW by \in {"banned", "maintenance", "crashed"}, Replaced(by)
         PROVE  PagesTypeOK'
    BY <2>24 DEF Replaced
  <2>25. CASE TryAgain
    <3>1. CASE page = "home"
      BY <2>25, <2>a, <3>1 DEF TryAgain
    <3>2. CASE page # "home"
      BY <2>25, <3>2 DEF TryAgain
    <3> QED
      BY <3>1, <3>2
  <2>26. CASE UNCHANGED pagesVars
    BY <2>26 DEF pagesVars
  <2> QED
    BY <2>1, <2>2, <2>3, <2>4, <2>5, <2>6, <2>7, <2>8, <2>9, <2>10, <2>11, <2>12,
       <2>13, <2>14, <2>15, <2>16, <2>18, <2>19, <2>20, <2>21, <2>22, <2>23,
       <2>24, <2>25, <2>26 DEF PagesNext
<1> QED
  BY <1>1, <1>2, PTL DEF PagesSpec

\* One handler, the one the effect pushed when it last ran, or none.
HandlersMatch == stack = IF ran.visible THEN <<ran>> ELSE <<>>

\* Every step of the shell keeps the handlers in step with the sheets.
LEMMA HandlersMatchInductive ==
  ASSUME PagesTypeOK, HandlersMatch, [PagesNext]_pagesVars
  PROVE  HandlersMatch'
<1> USE DEF backVars, Rest
<1>1. CASE RunBackEffect
  <2> DEFINE cleaned == IF ran.visible THEN hideBackButton(stack) ELSE stack
  <2>1. cleaned = <<>>
    BY DEF HandlersMatch, hideBackButton
  <2>2. hideBackButton(<<>>) = <<>> /\ showBackButton(<<>>, Deps) = <<Deps>>
    BY DEF hideBackButton, showBackButton
  <2>3. /\ Deps.visible => stack' = showBackButton(cleaned, Deps)
        /\ ~Deps.visible /\ Deps.mounted => stack' = hideBackButton(cleaned)
        /\ ~Deps.visible /\ ~Deps.mounted => stack' = cleaned
        /\ ran' = Deps
    BY <1>1 DEF RunBackEffect
  <2> HIDE DEF cleaned
  <2> QED
    BY <2>1, <2>2, <2>3 DEF HandlersMatch
<1>2. CASE UNCHANGED backVars
  BY <1>2 DEF HandlersMatch
<1>3. CASE UNCHANGED pagesVars
  BY <1>2, <1>3 DEF pagesVars
<1>4. CASE BackPressed
  BY <1>2, <1>4 DEF BackPressed
<1>5. ASSUME NEW r \in BootRequests, NEW on \in BOOLEAN, BootSettles(r, on)
      PROVE  HandlersMatch'
  BY <1>2, <1>5 DEF BootSettles
<1>6. ASSUME NEW s \in 0 .. MaxItems, NEW r \in 0 .. MaxItems, ListsArrive(s, r)
      PROVE  HandlersMatch'
  BY <1>2, <1>6 DEF ListsArrive
<1>7. ASSUME NEW t \in Tabs, handleTabChange(t) PROVE HandlersMatch'
  BY <1>2, <1>7 DEF handleTabChange
<1>8. CASE ProfileTellsPremium \/ openAdd \/ openEdit \/ handleDelete \/ ToggleFilter
  BY <1>2, <1>8 DEF ProfileTellsPremium, openAdd, openEdit, handleDelete, ToggleFilter
<1>9. ASSUME NEW saved \in BOOLEAN, closeAddSub(saved) \/ closeCreateRoom(saved)
      PROVE  HandlersMatch'
  BY <1>2, <1>9 DEF closeAddSub, closeCreateRoom
<1>10. CASE handleOpenRoom \/ closeRoom \/ handleCreateRoom \/ RoomsPageCreate
            \/ EmptyPageCreate \/ ClosePremium
  BY <1>2, <1>10 DEF handleOpenRoom, closeRoom, handleCreateRoom, RoomsPageCreate,
     EmptyPageCreate, ClosePremium, GatedCreate
<1>11. ASSUME NEW opened \in BOOLEAN, LinkHandled(opened) PROVE HandlersMatch'
  BY <1>2, <1>11 DEF LinkHandled
<1>12. CASE handleViewAllRooms \/ LeaveRooms \/ NextSlide \/ TryAgain
  BY <1>2, <1>12 DEF handleViewAllRooms, LeaveRooms, NextSlide, TryAgain
<1>13. ASSUME NEW stored \in BOOLEAN, finish(stored) PROVE HandlersMatch'
  BY <1>2, <1>13 DEF finish
<1>14. ASSUME NEW by \in {"banned", "maintenance", "crashed"}, Replaced(by)
       PROVE  HandlersMatch'
  BY <1>2, <1>14 DEF Replaced
<1> QED
  BY <1>1, <1>3, <1>4, <1>5, <1>6, <1>7, <1>8, <1>9, <1>10, <1>11, <1>12, <1>13,
     <1>14 DEF PagesNext

\* The app opens with no sheet and no handler.
LEMMA PagesInitMatches == PagesInit => HandlersMatch
  BY DEF PagesInit, HandlersMatch, Unmounted

\* useTelegramBackButton: what its cleanups leave on the stack is the one handler
\* made for what is open, across tabs, sheets, remounts and crashes.
THEOREM BackButtonFollows ==
  PagesSpec => []BackButtonMatches
<1>1. HandlersMatch => BackButtonMatches
  BY DEF HandlersMatch, BackButtonMatches
<1> QED
  BY <1>1, PagesInitMatches, HandlersMatchInductive, PagesTypeCorrect, PTL DEF PagesSpec

\* handleBack: else-ifs over the layers, so that one press takes one away.
THEOREM BackButtonPeels ==
  PagesSpec => BackPeelsOne
<1>1. PagesTypeOK /\ HandlersMatch /\ [PagesNext]_pagesVars
        => [BackPressed /\ ran = Deps
              => /\ Layers' \subseteq Layers
                 /\ Cardinality(Layers \ Layers') = 1]_pagesVars
  <2> SUFFICES ASSUME PagesTypeOK, HandlersMatch, BackPressed, ran = Deps
               PROVE  /\ Layers' \subseteq Layers
                      /\ Cardinality(Layers \ Layers') = 1
    OBVIOUS
  <2> DEFINE h == stack[Len(stack)]
  <2>1. stack = <<Deps>> /\ Deps.visible /\ handleBack(h)
    BY DEF BackPressed, HandlersMatch
  <2>2. h = Deps
    BY <2>1
  <2> HIDE DEF h
  <2>3. Mounted
    BY <2>1 DEF Deps, Unmounted
  <2>4. /\ h.add <=> addSub # "closed"
        /\ h.create <=> createOpen
        /\ h.room <=> roomOpen
        /\ h.sub <=> tab # "dashboard"
        /\ addSub # "closed" \/ createOpen \/ roomOpen \/ tab # "dashboard"
    BY <2>1, <2>2, <2>3 DEF Deps
  <2>5. /\ "add" \in Layers <=> addSub # "closed"
        /\ "create" \in Layers <=> createOpen
        /\ "room" \in Layers <=> roomOpen
        /\ "sub" \in Layers <=> tab # "dashboard"
        /\ Layers \subseteq {"add", "create", "room", "sub"}
    BY DEF Layers
  <2>6. /\ "add" \in Layers' <=> addSub' # "closed"
        /\ "create" \in Layers' <=> createOpen'
        /\ "room" \in Layers' <=> roomOpen'
        /\ "sub" \in Layers' <=> tab' # "dashboard"
        /\ Layers' \subseteq {"add", "create", "room", "sub"}
    BY DEF Layers
  <2>7. \E l \in Layers : Layers \ Layers' = {l} /\ Layers' \subseteq Layers
    <3>1. CASE addSub # "closed"
      <4>1. addSub' = "closed" /\ (createOpen' <=> createOpen) /\ (roomOpen' <=> roomOpen)
            /\ tab' = tab
        BY <2>1, <2>4, <3>1 DEF handleBack
      <4> QED
        BY <2>5, <2>6, <3>1, <4>1
    <3>2. CASE addSub = "closed" /\ createOpen
      <4>1. addSub' = addSub /\ ~createOpen' /\ (roomOpen' <=> roomOpen) /\ tab' = tab
        BY <2>1, <2>4, <3>2 DEF handleBack
      <4> QED
        BY <2>5, <2>6, <3>2, <4>1
    <3>3. CASE addSub = "closed" /\ ~createOpen /\ roomOpen
      <4>1. addSub' = addSub /\ ~createOpen' /\ ~roomOpen' /\ tab' = tab
        BY <2>1, <2>4, <3>3 DEF handleBack
      <4> QED
        BY <2>5, <2>6, <3>3, <4>1
    <3>4. CASE addSub = "closed" /\ ~createOpen /\ ~roomOpen
      <4>1. addSub' = addSub /\ ~createOpen' /\ ~roomOpen' /\ tab' = "dashboard"
        BY <2>1, <2>4, <3>4 DEF handleBack
      <4> QED
        BY <2>4, <2>5, <2>6, <3>4, <4>1
    <3> QED
      BY <3>1, <3>2, <3>3, <3>4
  <2>8. PICK l \in Layers : Layers \ Layers' = {l} /\ Layers' \subseteq Layers
    BY <2>7
  <2>9. Cardinality({l}) = 1
    BY FS_Singleton
  <2> QED
    BY <2>8, <2>9
<1> QED
  BY <1>1, PagesInitMatches, HandlersMatchInductive, PagesTypeCorrect, PTL
     DEF PagesSpec, BackPeelsOne

(***************************************************************************)
(* SwipeCard.                                                              *)
(***************************************************************************)
Snaps == [open : BOOLEAN, listening : BOOLEAN]

\* Offsets are distances.
LEMMA OffsetsAreNumbers ==
  ASSUME NEW raw \in Int
  PROVE  clampOffset(raw) \in Nat
<1>1. CASE raw > MAX_SWIPE
  <2> DEFINE over == (raw - MAX_SWIPE) * 3
  <2>1. over \in Nat
    BY <1>1 DEF MAX_SWIPE
  <2> HIDE DEF over
  <2>2. over \div 10 \in Nat
    BY <2>1
  <2>3. MAX_SWIPE + over \div 10 \in Nat
    BY <2>2 DEF MAX_SWIPE
  <2> QED
    BY <1>1, <2>3 DEF clampOffset, over
<1>2. CASE ~(raw > MAX_SWIPE)
  BY <1>2 DEF clampOffset, Largest
<1> QED
  BY <1>1, <1>2

\* A snap appends one timer and its listener.
LEMMA SnapsKeepType ==
  ASSUME snaps \in Seq(Snaps), NEW open \in BOOLEAN, snapTo(open)
  PROVE  /\ snaps' \in Seq(Snaps) /\ animating' \in BOOLEAN /\ offset' \in Nat
         /\ UNCHANGED trayOpen
<1>1. [open |-> open, listening |-> TRUE] \in Snaps
  BY DEF Snaps
<1>2. snaps' \in Seq(Snaps)
  BY <1>1 DEF snapTo
<1>3. offset' \in Nat
  BY DEF snapTo, SNAP_OPEN
<1>4. animating' \in BOOLEAN /\ UNCHANGED trayOpen
  BY Zenon DEF snapTo
<1> QED
  BY <1>2, <1>3, <1>4

\* What snapTo and the steps that may leave the card as it is have in common.
SnapTyped == /\ snaps' \in Seq(Snaps) /\ animating' \in BOOLEAN /\ offset' \in Nat
             /\ UNCHANGED trayOpen

\* What a click on the card does to the snap and to the result has its type.
LEMMA ClicksKeepType ==
  ASSUME SwipeTypeOK, handleCardClick
  PROVE  SnapTyped /\ clicked' \in {"none", "ignored", "closed", "opened"}
<1>1. snaps \in Seq(Snaps)
  BY DEF SwipeTypeOK, Snaps
<1>2. ASSUME UNCHANGED snapVars PROVE SnapTyped
  <2>1. snaps' = snaps /\ offset' = offset /\ animating' = animating /\ trayOpen' = trayOpen
    BY <1>2 DEF snapVars
  <2>2. offset \in Nat /\ animating \in BOOLEAN
    BY DEF SwipeTypeOK
  <2> QED
    BY <1>1, <2>1, <2>2, Zenon DEF SnapTyped
<1>3. ASSUME snapTo(FALSE) PROVE SnapTyped
  <2>1. FALSE \in BOOLEAN
    OBVIOUS
  <2> QED
    BY <1>1, <1>3, <2>1, SnapsKeepType, Zenon DEF SnapTyped
<1>4. UNCHANGED snapVars \/ snapTo(FALSE)
  BY DEF handleCardClick
<1>5. clicked' \in {"none", "ignored", "closed", "opened"}
  BY DEF handleCardClick
<1> QED
  BY <1>2, <1>3, <1>4, <1>5

\* The gesture, the snaps and the tray keep their types.
THEOREM SwipeTypeCorrect ==
  SwipeSpec => []SwipeTypeOK
<1> USE SwipeAssumption
<1>1. SwipeInit => SwipeTypeOK
  <2> SUFFICES ASSUME SwipeInit PROVE SwipeTypeOK
    OBVIOUS
  <2>1. snaps \in Seq(Snaps)
    BY DEF SwipeInit
  <2>2. /\ trayOpen \in BOOLEAN /\ swiping \in BOOLEAN /\ mouseActive \in BOOLEAN
        /\ didDrag \in BOOLEAN /\ animating \in BOOLEAN /\ rearmed \in BOOLEAN
        /\ dragged \in BOOLEAN /\ primer \in BOOLEAN /\ recent \in BOOLEAN
        /\ confirm \in BOOLEAN
    BY Zenon DEF SwipeInit
  <2>3. offset \in Nat /\ dragX \in Int /\ speed \in Nat
    BY DEF SwipeInit
  <2>4. /\ axis = "none" /\ contact = "up" /\ reach = "near" /\ clickDue = "none" /\ clicked = "none"
        /\ deleting = "no"
    BY DEF SwipeInit
  <2> QED
    BY <2>1, <2>2, <2>3, <2>4 DEF SwipeTypeOK, Snaps
<1>2. SwipeTypeOK /\ [SwipeNext]_swipeVars => SwipeTypeOK'
  <2> SUFFICES ASSUME SwipeTypeOK, [SwipeNext]_swipeVars PROVE SwipeTypeOK'
    OBVIOUS
  <2> USE DEF gestureVars, snapVars, pressVars, clickVars, trayVars
  <2>a. /\ snaps \in Seq(Snaps) /\ Base \in Int
        /\ (SwipeTypeOK' <=>
              /\ trayOpen' \in BOOLEAN /\ offset' \in Nat
              /\ swiping' \in BOOLEAN /\ axis' \in {"none", "x", "y"}
              /\ dragX' \in Int /\ speed' \in Nat
              /\ mouseActive' \in BOOLEAN /\ didDrag' \in BOOLEAN
              /\ animating' \in BOOLEAN /\ snaps' \in Seq(Snaps)
              /\ contact' \in {"up", "touch", "mouse"}
              /\ reach' \in {"near", "away", "back"}
              /\ dragged' \in BOOLEAN /\ rearmed' \in BOOLEAN
              /\ clickDue' \in {"none", "mouse", "click"}
              /\ primer' \in BOOLEAN /\ recent' \in BOOLEAN
              /\ clicked' \in {"none", "ignored", "closed", "opened"}
              /\ confirm' \in BOOLEAN
              /\ deleting' \in {"no", "collapsing", "asked", "failed", "gone"})
    <3>1. Base \in Int
      BY DEF Base, SNAP_OPEN
    <3> QED
      BY <3>1 DEF SwipeTypeOK, Snaps
  <2>b. UNCHANGED snapVars => SnapTyped
    BY <2>a DEF SwipeTypeOK, SnapTyped
  <2>c. ASSUME NEW open \in BOOLEAN, snapTo(open) PROVE SnapTyped
    BY <2>a, <2>c, SnapsKeepType DEF SnapTyped
  <2>d. SnapTyped => /\ trayOpen' \in BOOLEAN /\ snaps' \in Seq(Snaps)
                     /\ animating' \in BOOLEAN /\ offset' \in Nat
    BY DEF SwipeTypeOK, SnapTyped
  <2>e. snaps \in Seq(Snaps) /\ \A i \in DOMAIN snaps : snaps[i] \in Snaps
    <3>1. snaps \in Seq(Snaps)
      BY <2>a
    <3> QED
      BY <3>1
  <2>1. CASE TransitionEnds
    <3>1. PICK last \in DOMAIN snaps : trayOpen' = snaps[last].open
      BY <2>1 DEF TransitionEnds
    <3>2. trayOpen' \in BOOLEAN
      <4>1. snaps[last] \in Snaps
        BY <2>e
      <4> QED
        BY <3>1, <4>1 DEF Snaps
    <3>3. \A i \in DOMAIN snaps : [snaps[i] EXCEPT !.listening = FALSE] \in Snaps
      <4> SUFFICES ASSUME NEW i \in DOMAIN snaps
                   PROVE  [snaps[i] EXCEPT !.listening = FALSE] \in Snaps
        OBVIOUS
      <4>1. snaps[i] \in Snaps
        BY <2>e
      <4> QED
        BY <4>1 DEF Snaps
    <3>4. snaps' \in Seq(Snaps)
      <4>1. PICK n \in Nat : snaps \in [1 .. n -> Snaps]
        BY <2>e
      <4>2. snaps' \in [1 .. n -> Snaps]
        BY <2>1, <3>3, <4>1 DEF TransitionEnds
      <4> QED
        BY <4>2
    <3>5. animating' \in BOOLEAN
      BY <2>1, Zenon DEF TransitionEnds
    <3>6. UNCHANGED <<offset, gestureVars, pressVars, clickVars, trayVars>>
      BY <2>1 DEF TransitionEnds
    <3> QED
      BY <2>a, <3>2, <3>4, <3>5, <3>6 DEF SwipeTypeOK
  <2>2. CASE SnapTimer
    <3>1. snaps' \in Seq(Snaps)
      BY <2>2, <2>a DEF SnapTimer
    <3>2. animating' \in BOOLEAN
      BY <2>2, Zenon DEF SnapTimer
    <3>3. UNCHANGED <<trayOpen, offset, gestureVars, pressVars, clickVars, trayVars>>
      BY <2>2 DEF SnapTimer
    <3> QED
      BY <2>a, <3>1, <3>2, <3>3 DEF SwipeTypeOK
  <2>3. ASSUME NEW kind \in {"touch", "mouse"}, Press(kind) PROVE SwipeTypeOK'
    <3>1. UNCHANGED <<snapVars, clickDue, primer, recent, trayVars>> /\ contact' = kind
          /\ reach' = "near"
      BY <2>3 DEF Press
    <3>2. rearmed' \in BOOLEAN /\ dragged' \in BOOLEAN
          /\ clicked' \in {"none", "ignored", "closed", "opened"}
      BY <2>3, Zenon DEF Press
    <3>3. GestureBegins(kind = "mouse")
      BY <2>3 DEF Press
    <3>4. /\ swiping' \in BOOLEAN /\ axis' \in {"none", "x", "y"}
          /\ mouseActive' \in BOOLEAN /\ didDrag' \in BOOLEAN
      <4>1. CASE animating
        BY <3>3, <4>1 DEF GestureBegins, SwipeTypeOK
      <4>2. CASE ~animating
        <5>1. /\ swiping' = TRUE /\ axis' = "none"
              /\ mouseActive' = (mouseActive \/ (kind = "mouse"))
              /\ didDrag' = (didDrag /\ ~(kind = "mouse"))
          BY <3>3, <4>2 DEF GestureBegins
        <5> QED
          BY <5>1, Zenon
      <4> QED
        BY <4>1, <4>2
    <3>5. dragX' \in Int /\ speed' \in Nat
      BY <3>3, <2>a DEF GestureBegins, SwipeTypeOK
    <3> QED
      BY <2>a, <3>1, <3>2, <3>4, <3>5 DEF SwipeTypeOK
  <2>4. ASSUME NEW kind \in {"touch", "mouse"}, NEW x \in Travels, NEW y \in Travels,
               NEW v \in Speeds, Move(kind, x, y, v)
        PROVE  SwipeTypeOK'
    <3> DEFINE along == Axis(x, y)
               Untracked == ~swiping \/ (kind = "mouse" /\ ~mouseActive)
    <3> USE DEF Move, Moved
    <3>1. UNCHANGED <<trayOpen, animating, snaps, contact, rearmed, clickVars, trayVars>>
          /\ reach' \in {"near", "away", "back"}
      BY <2>4 DEF SwipeTypeOK
    <3> HIDE DEF along, Untracked
    <3>2. x \in Int /\ v \in Nat
      OBVIOUS
    <3>3. CASE Untracked \/ along = "none"
      <4>1. UNCHANGED <<gestureVars, offset, dragged>>
        BY <2>4, <3>3 DEF along, Untracked
      <4> QED
        BY <2>a, <3>1, <4>1 DEF SwipeTypeOK
    <3>4. CASE ~(Untracked \/ along = "none") /\ along = "y"
      <4>1. /\ swiping' = FALSE /\ axis' = "y"
            /\ mouseActive' = (mouseActive /\ kind # "mouse")
            /\ UNCHANGED <<dragX, speed, didDrag, offset, dragged>>
        BY <2>4, <3>4 DEF along, Untracked
      <4>2. swiping' \in BOOLEAN /\ mouseActive' \in BOOLEAN /\ axis' \in {"none", "x", "y"}
        BY <4>1, Zenon
      <4>3. UNCHANGED <<dragX, speed, didDrag, offset, dragged>>
        BY <4>1
      <4> QED
        BY <2>a, <3>1, <4>2, <4>3 DEF SwipeTypeOK
    <3>5. CASE ~(Untracked \/ along = "none") /\ along # "y"
      <4>1. /\ axis' = "x" /\ didDrag' = (didDrag \/ TRUE)
            /\ dragX' = Base + x /\ offset' = clampOffset(Base + x)
            /\ speed' = v /\ dragged' = TRUE
            /\ UNCHANGED <<swiping, mouseActive>>
        BY <2>4, <3>5 DEF along, Untracked
      <4>2. dragX' \in Int /\ offset' \in Nat /\ speed' \in Nat
        <5>1. Base + x \in Int
          BY <2>a, <3>2
        <5>2. dragX' \in Int /\ speed' \in Nat
          BY <3>2, <4>1, <5>1
        <5>3. offset' \in Nat
          BY <4>1, <5>1, OffsetsAreNumbers
        <5> QED
          BY <5>2, <5>3
      <4>3. didDrag' \in BOOLEAN /\ dragged' \in BOOLEAN /\ axis' \in {"none", "x", "y"}
        BY <4>1, Zenon
      <4>4. UNCHANGED <<swiping, mouseActive>>
        BY <4>1
      <4> QED
        BY <2>a, <3>1, <4>2, <4>3, <4>4 DEF SwipeTypeOK
    <3> QED
      BY <3>3, <3>4, <3>5
  <2>5. ASSUME NEW dropped \in BOOLEAN, NEW quick \in BOOLEAN, Lift(dropped, quick)
        PROVE  SwipeTypeOK'
    <3>1. UNCHANGED <<dragX, speed, didDrag, reach, dragged, rearmed, recent, clicked,
                      trayVars>>
          /\ contact' = "up" /\ Release
      BY <2>5 DEF Lift
    <3>2. mouseActive' \in BOOLEAN
      <4>1. mouseActive' = (mouseActive /\ contact = "touch")
        BY <2>5 DEF Lift
      <4> QED
        BY <4>1, Zenon
    <3>3. primer' \in BOOLEAN
      <4>1. primer' = (quick /\ reach # "away")
        BY <2>5 DEF Lift
      <4> QED
        BY <4>1, Zenon
    <3>4. clickDue' \in {"none", "mouse", "click"}
      BY <2>5 DEF Lift
    <3>5. SnapTyped /\ swiping' \in BOOLEAN /\ axis' \in {"none", "x", "y"}
      <4>1. CASE swiping /\ (contact = "touch" \/ mouseActive)
        <5>1. swiping' = FALSE /\ axis' = "none" /\ decideSnap
          BY <3>1, <4>1 DEF Release
        <5>2. (dragX > Threshold(speed)) \in BOOLEAN
          OBVIOUS
        <5>3. SnapTyped
          BY <2>c, <5>1, <5>2 DEF decideSnap
        <5>4. swiping' \in BOOLEAN /\ axis' \in {"none", "x", "y"}
          BY <5>1, Zenon
        <5> QED
          BY <5>3, <5>4
      <4>2. CASE ~(swiping /\ (contact = "touch" \/ mouseActive))
        BY <2>b, <3>1, <4>2 DEF Release, SwipeTypeOK
      <4> QED
        BY <4>1, <4>2
    <3> QED
      BY <2>a, <2>d, <3>1, <3>2, <3>3, <3>4, <3>5 DEF SwipeTypeOK
  <2>6. CASE TouchCancel
    BY <2>6 DEF TouchCancel, SwipeTypeOK
  <2>7. CASE EmulatedMouse
    <3>1. UNCHANGED <<contact, reach, dragged, primer, recent, clicked, trayVars>>
          /\ clickDue' = "click"
      BY <2>7 DEF EmulatedMouse
    <3>2. CASE animating \/ deleting # "no"
      <4>1. UNCHANGED <<gestureVars, snapVars, rearmed>>
        BY <2>7, <3>2 DEF EmulatedMouse
      <4> QED
        BY <2>a, <3>1, <4>1 DEF SwipeTypeOK
    <3>3. CASE ~(animating \/ deleting # "no")
      <4>1. /\ didDrag' = FALSE /\ swiping' = FALSE /\ axis' = "none"
            /\ dragX' = Base /\ speed' = 0 /\ mouseActive' = FALSE /\ snapTo(FALSE)
            /\ rearmed' = TRUE
        BY <2>7, <3>3 DEF EmulatedMouse
      <4>2. SnapTyped
        BY <2>c, <4>1
      <4>3. dragX' \in Int /\ speed' \in Nat
        BY <2>a, <4>1
      <4>4. didDrag' \in BOOLEAN /\ swiping' \in BOOLEAN /\ mouseActive' \in BOOLEAN
            /\ axis' \in {"none", "x", "y"} /\ rearmed' \in BOOLEAN
        BY <4>1, Zenon
      <4> QED
        BY <2>a, <2>d, <3>1, <4>2, <4>3, <4>4 DEF SwipeTypeOK
    <3> QED
      BY <3>2, <3>3
  <2>8. CASE NativeClick
    <3>1. handleCardClick /\ UNCHANGED <<gestureVars, pressVars, primer, trayVars>>
          /\ clickDue' = "none"
      BY <2>8 DEF NativeClick
    <3>2. recent' \in BOOLEAN
      BY <2>8, Zenon DEF NativeClick
    <3>3. SnapTyped /\ clicked' \in {"none", "ignored", "closed", "opened"}
      BY <3>1, ClicksKeepType
    <3> QED
      BY <2>a, <2>d, <3>1, <3>2, <3>3 DEF SwipeTypeOK
  <2>9. CASE PrimerFires
    <3>1. UNCHANGED <<gestureVars, pressVars, clickDue, trayVars>>
      BY <2>9 DEF PrimerFires
    <3>2. primer' \in BOOLEAN
      BY <2>9, Zenon DEF PrimerFires
    <3>3. /\ SnapTyped /\ clicked' \in {"none", "ignored", "closed", "opened"}
          /\ recent' \in BOOLEAN
      <4>1. CASE recent
        BY <2>9, <2>b, <4>1 DEF PrimerFires, SwipeTypeOK
      <4>2. CASE ~recent
        <5>1. recent' = TRUE /\ handleCardClick
          BY <2>9, <4>2 DEF PrimerFires
        <5>2. recent' \in BOOLEAN
          BY <5>1, Zenon
        <5> QED
          BY <5>1, <5>2, ClicksKeepType
      <4> QED
        BY <4>1, <4>2
    <3> QED
      BY <2>a, <2>d, <3>1, <3>2, <3>3 DEF SwipeTypeOK
  <2>10. CASE ClickForgotten
    <3>1. UNCHANGED <<gestureVars, snapVars, pressVars, clickDue, primer, clicked, trayVars>>
      BY <2>10 DEF ClickForgotten
    <3>2. recent' \in BOOLEAN
      BY <2>10, Zenon DEF ClickForgotten
    <3> QED
      BY <2>a, <3>1, <3>2 DEF SwipeTypeOK
  <2>11. CASE handleDeleteTap
    <3>1. UNCHANGED <<gestureVars, snapVars, pressVars, clickVars, deleting>>
      BY <2>11 DEF handleDeleteTap
    <3>2. confirm' \in BOOLEAN
      BY <2>11, Zenon DEF handleDeleteTap
    <3> QED
      BY <2>a, <3>1, <3>2 DEF SwipeTypeOK
  <2>12. CASE handleConfirmDelete
    <3>1. UNCHANGED <<gestureVars, snapVars, pressVars, clickVars>>
          /\ deleting' = "collapsing"
      BY <2>12 DEF handleConfirmDelete
    <3>2. confirm' \in BOOLEAN
      BY <2>12, Zenon DEF handleConfirmDelete
    <3> QED
      BY <2>a, <3>1, <3>2 DEF SwipeTypeOK
  <2>13. ASSUME NEW escaped \in BOOLEAN, handleCancelDelete(escaped) PROVE SwipeTypeOK'
    <3>1. UNCHANGED <<gestureVars, pressVars, clickVars, deleting>>
      BY <2>13 DEF handleCancelDelete
    <3>2. confirm' \in BOOLEAN
      BY <2>13, Zenon DEF handleCancelDelete
    <3>3. (UNCHANGED snapVars) \/ snapTo(FALSE)
      BY <2>13 DEF handleCancelDelete
    <3>4. SnapTyped
      BY <2>b, <2>c, <3>3
    <3> QED
      BY <2>a, <2>d, <3>1, <3>2, <3>4 DEF SwipeTypeOK
  <2>14. CASE DeleteAsked
    BY <2>14 DEF DeleteAsked, SwipeTypeOK
  <2>15. ASSUME NEW ok \in BOOLEAN, DeleteSettled(ok) PROVE SwipeTypeOK'
    BY <2>15 DEF DeleteSettled, SwipeTypeOK
  <2>16. CASE Remount
    <3>1. offset' \in Nat /\ dragX' \in Int /\ speed' \in Nat /\ snaps' \in Seq(Snaps)
      BY <2>16 DEF Remount
    <3>2. /\ trayOpen' \in BOOLEAN /\ swiping' \in BOOLEAN /\ mouseActive' \in BOOLEAN
          /\ didDrag' \in BOOLEAN /\ animating' \in BOOLEAN /\ confirm' \in BOOLEAN
          /\ axis' = "none" /\ deleting' = "no"
      BY <2>16, Zenon DEF Remount
    <3>3. UNCHANGED <<pressVars, clickVars>>
      BY <2>16 DEF Remount
    <3> QED
      BY <2>a, <3>1, <3>2, <3>3 DEF SwipeTypeOK
  <2>17. CASE UNCHANGED swipeVars
    BY <2>17 DEF swipeVars, SwipeTypeOK
  <2> QED
    BY <2>1, <2>2, <2>3, <2>4, <2>5, <2>6, <2>7, <2>8, <2>9, <2>10, <2>11, <2>12,
       <2>13, <2>14, <2>15, <2>16, <2>17 DEF SwipeNext
<1> QED
  BY <1>1, <1>2, PTL DEF SwipeSpec

(***************************************************************************)
(* The press that moved the card opens nothing.  While a click of it may   *)
(* still come, didDrag tells that it moved the card, until the press's own *)
(* emulated mouse events clear the flag.                                   *)
(***************************************************************************)
ClickMayCome == contact # "up" \/ clickDue # "none" \/ primer
PressInv ==
    /\ contact # "up" => clicked = "none" /\ ~primer /\ clickDue = "none" /\ ~rearmed
    /\ dragged /\ ClickMayCome => didDrag \/ rearmed
    /\ SwipeOpensNothing

\* Every step of a gesture keeps PressInv.
LEMMA PressInvInductive ==
  ASSUME SwipeTypeOK, PressInv, [SwipeNext]_swipeVars
  PROVE  PressInv'
<1> USE DEF gestureVars, snapVars, pressVars, clickVars, trayVars
<1>a. UNCHANGED <<didDrag, pressVars, clickDue, primer, clicked>> => PressInv'
  BY DEF PressInv, ClickMayCome, SwipeOpensNothing
<1>1. CASE TransitionEnds \/ SnapTimer \/ ClickForgotten
  BY <1>a, <1>1 DEF TransitionEnds, SnapTimer, ClickForgotten
<1>2. ASSUME NEW kind \in {"touch", "mouse"}, Press(kind) PROVE PressInv'
  <2>1. /\ contact' = kind /\ dragged' = FALSE /\ clicked' = "none" /\ rearmed' = FALSE
        /\ clickDue' = "none" /\ ~primer /\ primer' = primer
    BY <1>2 DEF Press, CanPress
  <2> QED
    BY <2>1 DEF PressInv, SwipeOpensNothing
<1>3. ASSUME NEW kind \in {"touch", "mouse"}, NEW x \in Travels, NEW y \in Travels,
             NEW v \in Speeds, Move(kind, x, y, v)
      PROVE  PressInv'
  <2>1. /\ contact = kind
        /\ UNCHANGED <<contact, clickVars, rearmed>>
    BY <1>3 DEF Move, Moved
  <2>2. clicked = "none" /\ ~primer /\ clickDue = "none" /\ ~rearmed
    BY <2>1 DEF PressInv
  <2>3. (UNCHANGED <<didDrag, dragged>>) \/ didDrag' = (didDrag \/ TRUE)
    BY <1>3 DEF Move, Moved
  <2>4. dragged' => didDrag'
    BY <2>1, <2>2, <2>3 DEF PressInv, ClickMayCome
  <2> QED
    BY <2>1, <2>2, <2>4 DEF PressInv, SwipeOpensNothing
<1>4. ASSUME NEW dropped \in BOOLEAN, NEW quick \in BOOLEAN, Lift(dropped, quick)
      PROVE  PressInv'
  <2>1. /\ contact # "up" /\ contact' = "up"
        /\ UNCHANGED <<didDrag, dragged, rearmed, clicked>>
    BY <1>4 DEF Lift
  <2>2. dragged => didDrag \/ rearmed
    BY <2>1 DEF PressInv, ClickMayCome
  <2> QED
    BY <2>1, <2>2 DEF PressInv, SwipeOpensNothing
<1>5. CASE TouchCancel
  BY <1>5 DEF TouchCancel, PressInv, ClickMayCome, SwipeOpensNothing
<1>6. CASE EmulatedMouse
  <2>1. /\ clickDue = "mouse" /\ clickDue' = "click"
        /\ UNCHANGED <<contact, dragged, primer, clicked>>
        /\ (UNCHANGED <<didDrag, rearmed>>) \/ rearmed' = TRUE
    BY <1>6 DEF EmulatedMouse
  <2>2. contact = "up" /\ ClickMayCome
    BY <2>1 DEF PressInv, ClickMayCome
  <2> QED
    BY <2>1, <2>2 DEF PressInv, SwipeOpensNothing
<1>b. ASSUME handleCardClick, ClickMayCome PROVE clicked' = "opened" /\ dragged => rearmed
  BY <1>b DEF handleCardClick, PressInv
<1>7. CASE NativeClick
  <2>1. /\ clickDue = "click" /\ clickDue' = "none" /\ handleCardClick
        /\ UNCHANGED <<didDrag, pressVars, primer>>
    BY <1>7 DEF NativeClick
  <2>2. contact = "up" /\ ClickMayCome
    BY <2>1 DEF PressInv, ClickMayCome
  <2> QED
    BY <1>b, <2>1, <2>2 DEF PressInv, ClickMayCome, SwipeOpensNothing
<1>8. CASE PrimerFires
  <2>1. /\ primer /\ primer' = FALSE /\ UNCHANGED <<didDrag, pressVars, clickDue>>
        /\ (clicked' = clicked \/ handleCardClick)
    BY <1>8 DEF PrimerFires
  <2>2. contact = "up" /\ ClickMayCome
    BY <2>1 DEF PressInv, ClickMayCome
  <2> QED
    BY <1>b, <2>1, <2>2 DEF PressInv, ClickMayCome, SwipeOpensNothing
<1>9. CASE handleDeleteTap \/ handleConfirmDelete \/ DeleteAsked
  BY <1>a, <1>9 DEF handleDeleteTap, handleConfirmDelete, DeleteAsked
<1>10. ASSUME NEW escaped \in BOOLEAN, handleCancelDelete(escaped) PROVE PressInv'
  BY <1>a, <1>10 DEF handleCancelDelete
<1>11. ASSUME NEW ok \in BOOLEAN, DeleteSettled(ok) PROVE PressInv'
  BY <1>a, <1>11 DEF DeleteSettled
<1>12. CASE Remount
  <2>1. /\ contact = "up" /\ clickDue = "none" /\ ~primer /\ UNCHANGED <<pressVars, clickVars>>
    BY <1>12 DEF Remount
  <2> QED
    BY <2>1 DEF PressInv, ClickMayCome, SwipeOpensNothing
<1>13. CASE UNCHANGED swipeVars
  BY <1>a, <1>13 DEF swipeVars
<1> QED
  BY <1>1, <1>2, <1>3, <1>4, <1>5, <1>6, <1>7, <1>8, <1>9, <1>10, <1>11, <1>12, <1>13
     DEF SwipeNext

\* handleCardClick: didDrag is what keeps the click that ends a swipe from opening
\* the card, for every way the click can come, unless the emulated mouse events of
\* that very press made the hook forget the drag.
THEOREM SwipeIsNoTap ==
  SwipeSpec => []SwipeOpensNothing
<1>1. SwipeInit => PressInv
  BY DEF SwipeInit, PressInv, SwipeOpensNothing
<1>2. PressInv => SwipeOpensNothing
  BY DEF PressInv
<1> QED
  BY <1>1, <1>2, PressInvInductive, SwipeTypeCorrect, PTL DEF SwipeSpec

(***************************************************************************)
(* PremiumCheckout.                                                        *)
(***************************************************************************)
\* A payment goes on to a phase of its kind.
LEMMA FlowsAdvance ==
  ASSUME NEW f \in flows, flows \subseteq Flows, NEW phase,
         \/ /\ f.kind = "stars"
            /\ phase \in {"posting", "invoice", "charged", "profile", "pending"}
         \/ f.kind = "crypto" /\ phase \in {"posting", "linked", "paid"}
  PROVE  Advance(f, phase) \subseteq Flows
<1>1. f \in Flows
  OBVIOUS
<1>2. [f EXCEPT !.phase = phase] \in Flows
  BY <1>1 DEF Flows
<1> QED
  BY <1>2 DEF Advance

\* The phases tell the kinds apart, but for the first.
LEMMA PhaseTellsKind ==
  ASSUME NEW f \in Flows
  PROVE  /\ f.kind \in {"stars", "crypto"} /\ f.plan \in Plans
         /\ f.phase \in {"invoice", "charged", "profile", "pending"} => f.kind = "stars"
         /\ f.phase \in {"linked", "paid"} => f.kind = "crypto"
  BY DEF Flows

\* The premium sheet and its payments keep their types.
THEOREM CheckoutTypeCorrect ==
  CheckoutSpec => []CheckoutTypeOK
<1> USE CheckoutAssumption
<1>1. CheckoutInit => CheckoutTypeOK
  <2> SUFFICES ASSUME CheckoutInit PROVE CheckoutTypeOK
    OBVIOUS
  <2>1. openings \in 0 .. MaxOpenings /\ begun \in 0 .. MaxFlows /\ flows \subseteq Flows
        /\ plan \in Plans
    BY DEF CheckoutInit, Plans
  <2>2. /\ checkoutOpen \in BOOLEAN /\ loadingStars \in BOOLEAN /\ loadingCrypto \in BOOLEAN
        /\ awaiting \in BOOLEAN /\ timer \in BOOLEAN /\ donor \in BOOLEAN
        /\ charged \in BOOLEAN /\ entitled \in BOOLEAN /\ leftOver \in BOOLEAN
    BY Zenon DEF CheckoutInit
  <2> QED
    BY <2>1, <2>2 DEF CheckoutTypeOK
<1>2. CheckoutTypeOK /\ [CheckoutNext]_checkoutVars => CheckoutTypeOK'
  <2> SUFFICES ASSUME CheckoutTypeOK, [CheckoutNext]_checkoutVars PROVE CheckoutTypeOK'
    OBVIOUS
  <2> USE DEF flagVars, openVars, flowVars, paidVars
  <2>a. flows \subseteq Flows
    BY DEF CheckoutTypeOK
  <2>b. Reset => /\ checkoutOpen' \in BOOLEAN /\ loadingStars' \in BOOLEAN
                 /\ loadingCrypto' \in BOOLEAN /\ awaiting' \in BOOLEAN
                 /\ timer' \in BOOLEAN /\ UNCHANGED openings
    BY Zenon DEF Reset
  <2>1. CASE OpenCheckout
    <3>1. openings' \in 0 .. MaxOpenings /\ timer' \in BOOLEAN
      BY <2>1 DEF OpenCheckout, CheckoutTypeOK
    <3>2. checkoutOpen' \in BOOLEAN
      BY <2>1, Zenon DEF OpenCheckout
    <3>3. UNCHANGED <<plan, loadingStars, loadingCrypto, awaiting, flowVars, donor,
                      paidVars, leftOver>>
      BY <2>1 DEF OpenCheckout
    <3> QED
      BY <3>1, <3>2, <3>3 DEF CheckoutTypeOK
  <2>2. CASE CloseCheckout
    <3>1. leftOver' \in BOOLEAN
      <4>1. leftOver' = (leftOver \/ Awaited(flows) # {})
        BY <2>2 DEF CloseCheckout
      <4> QED
        BY <4>1, Zenon
    <3>2. Reset /\ UNCHANGED <<plan, flowVars, donor, paidVars>>
      BY <2>2 DEF CloseCheckout
    <3> QED
      BY <2>b, <3>1, <3>2 DEF CheckoutTypeOK
  <2>3. ASSUME NEW p \in Plans, Select(p) PROVE CheckoutTypeOK'
    BY <2>3 DEF Select, CheckoutTypeOK
  <2>c. ASSUME NEW kind \in {"stars", "crypto"}, Begin(kind)
        PROVE  begun' \in 0 .. MaxFlows /\ flows' \subseteq Flows
    <3> DEFINE f == [n |-> begun + 1, kind |-> kind, plan |-> plan, phase |-> "posting"]
    <3>1. begun + 1 \in 1 .. MaxFlows /\ plan \in Plans
      BY <2>c DEF Begin, CheckoutTypeOK
    <3>2. f \in Flows
      BY <3>1 DEF Flows
    <3>3. begun' = begun + 1 /\ flows' = flows \cup {f}
      BY <2>c DEF Begin
    <3> HIDE DEF f
    <3> QED
      BY <2>a, <3>1, <3>2, <3>3
  <2>4. CASE handleStars
    <3>1. begun' \in 0 .. MaxFlows /\ flows' \subseteq Flows
      BY <2>4, <2>c DEF handleStars
    <3>2. loadingStars' \in BOOLEAN
      BY <2>4, Zenon DEF handleStars
    <3>3. UNCHANGED <<openVars, plan, loadingCrypto, awaiting, timer, donor, paidVars, leftOver>>
      BY <2>4 DEF handleStars
    <3> QED
      BY <3>1, <3>2, <3>3 DEF CheckoutTypeOK
  <2>5. CASE handleCrypto
    <3>1. begun' \in 0 .. MaxFlows /\ flows' \subseteq Flows
      BY <2>5, <2>c DEF handleCrypto
    <3>2. loadingCrypto' \in BOOLEAN
      BY <2>5, Zenon DEF handleCrypto
    <3>3. UNCHANGED <<openVars, plan, loadingStars, awaiting, timer, donor, paidVars, leftOver>>
      BY <2>5 DEF handleCrypto
    <3> QED
      BY <3>1, <3>2, <3>3 DEF CheckoutTypeOK
  <2>6. ASSUME NEW f \in flows, PostFails(f) PROVE CheckoutTypeOK'
    <3>1. flows' \subseteq Flows
          /\ UNCHANGED <<openVars, plan, awaiting, timer, begun, donor, paidVars, leftOver>>
      BY <2>6, <2>a DEF PostFails
    <3>2. loadingStars' \in BOOLEAN /\ loadingCrypto' \in BOOLEAN
      <4>1. /\ loadingStars' = (loadingStars /\ f.kind # "stars")
            /\ loadingCrypto' = (loadingCrypto /\ f.kind # "crypto")
        BY <2>6 DEF PostFails
      <4> QED
        BY <4>1, Zenon
    <3> QED
      BY <3>1, <3>2 DEF CheckoutTypeOK
  <2>7. ASSUME NEW f \in flows, openInvoice(f) PROVE CheckoutTypeOK'
    <3>1. flows' \subseteq Flows
      BY <2>7, <2>a, FlowsAdvance DEF openInvoice
    <3> QED
      BY <2>7, <3>1 DEF openInvoice, CheckoutTypeOK
  <2>d. ASSUME NEW f \in flows, Charge(f) \/ CryptoPaid(f)
        PROVE  CheckoutTypeOK'
    <3>1. flows' \subseteq Flows
      <4>1. CASE Charge(f)
        <5>1. f.kind = "stars"
          BY <2>a, <4>1, PhaseTellsKind DEF Charge
        <5> QED
          BY <2>a, <4>1, <5>1, FlowsAdvance DEF Charge
      <4>2. CASE CryptoPaid(f)
        <5>1. f.kind = "crypto"
          BY <2>a, <4>2, PhaseTellsKind DEF CryptoPaid
        <5> QED
          BY <2>a, <4>2, <5>1, FlowsAdvance DEF CryptoPaid
      <4> QED
        BY <2>d, <4>1, <4>2
    <3>2. charged' \in BOOLEAN
      BY <2>d, Zenon DEF Charge, CryptoPaid
    <3>3. UNCHANGED <<openVars, plan, flagVars, begun, donor, entitled, leftOver>>
      BY <2>d DEF Charge, CryptoPaid
    <3> QED
      BY <3>1, <3>2, <3>3 DEF CheckoutTypeOK
  <2>8. ASSUME NEW f \in flows, InvoicePaid(f) PROVE CheckoutTypeOK'
    <3>1. f.kind = "stars"
      BY <2>a, <2>8, PhaseTellsKind DEF InvoicePaid
    <3>2. flows' \subseteq Flows
      BY <2>8, <2>a, <3>1, FlowsAdvance DEF InvoicePaid
    <3> QED
      BY <2>8, <3>2 DEF InvoicePaid, CheckoutTypeOK
  <2>9. ASSUME NEW f \in flows, InvoiceEnds(f) PROVE CheckoutTypeOK'
    <3>1. flows' \subseteq Flows
          /\ UNCHANGED <<openVars, plan, loadingCrypto, awaiting, timer, begun, donor,
                         paidVars, leftOver>>
      BY <2>9, <2>a DEF InvoiceEnds
    <3>2. loadingStars' \in BOOLEAN
      BY <2>9, Zenon DEF InvoiceEnds
    <3> QED
      BY <3>1, <3>2 DEF CheckoutTypeOK
  <2>e. ASSUME NEW f \in flows, InvoicePending(f) PROVE CheckoutTypeOK'
    <3>1. f.kind = "stars"
      BY <2>a, <2>e, PhaseTellsKind DEF InvoicePending
    <3>2. flows' \subseteq Flows
          /\ UNCHANGED <<openVars, plan, loadingCrypto, awaiting, timer, begun, donor,
                         paidVars, leftOver>>
      BY <2>e, <2>a, <3>1, FlowsAdvance DEF InvoicePending
    <3>3. loadingStars' \in BOOLEAN
      BY <2>e, Zenon DEF InvoicePending
    <3> QED
      BY <3>2, <3>3 DEF CheckoutTypeOK
  <2>f. ASSUME NEW f \in flows, NEW p \in BOOLEAN, PendingSettles(f, p)
        PROVE  CheckoutTypeOK'
    <3>1. flows' \subseteq Flows
          /\ UNCHANGED <<openVars, plan, flagVars, begun, donor, entitled, leftOver>>
      BY <2>f, <2>a DEF PendingSettles
    <3>2. charged' \in BOOLEAN
      <4>1. charged' = (charged \/ p)
        BY <2>f DEF PendingSettles
      <4> QED
        BY <4>1, Zenon
    <3> QED
      BY <3>1, <3>2 DEF CheckoutTypeOK
  <2>10. ASSUME NEW f \in flows, NEW answered \in BOOLEAN, StarsDone(f, answered)
         PROVE  CheckoutTypeOK'
    <3>1. flows' \subseteq Flows /\ UNCHANGED <<plan, begun, paidVars>>
      BY <2>10, <2>a DEF StarsDone
    <3>2. donor' \in BOOLEAN /\ leftOver' \in BOOLEAN
      <4>1. /\ donor' = (donor \/ (answered /\ entitled))
            /\ leftOver' = (leftOver \/ (checkoutOpen /\ Awaited(flows \ {f}) # {}))
        BY <2>10 DEF StarsDone
      <4> QED
        BY <4>1, Zenon
    <3>3. CASE checkoutOpen
      <4>1. Reset
        BY <2>10, <3>3 DEF StarsDone
      <4> QED
        BY <2>b, <3>1, <3>2, <4>1 DEF CheckoutTypeOK
    <3>4. CASE ~checkoutOpen
      <4>1. /\ loadingStars' = FALSE /\ UNCHANGED <<openVars, timer>>
            /\ \/ awaiting' = FALSE /\ loadingCrypto' = FALSE
               \/ UNCHANGED <<awaiting, loadingCrypto>>
        BY <2>10, <3>4 DEF StarsDone
      <4>2. loadingStars' \in BOOLEAN /\ UNCHANGED <<openVars, timer>>
        BY <4>1, Zenon
      <4>3. awaiting' \in BOOLEAN /\ loadingCrypto' \in BOOLEAN
        BY <4>1 DEF CheckoutTypeOK
      <4> QED
        BY <3>1, <3>2, <4>2, <4>3 DEF CheckoutTypeOK
    <3> QED
      BY <3>3, <3>4
  <2>11. ASSUME NEW f \in flows, CryptoLinked(f) PROVE CheckoutTypeOK'
    <3>1. flows' \subseteq Flows
      BY <2>11, <2>a, FlowsAdvance DEF CryptoLinked
    <3>2. awaiting' \in BOOLEAN /\ loadingCrypto' \in BOOLEAN
      <4>1. awaiting' = ~donor /\ loadingCrypto' = (loadingCrypto /\ ~donor)
        BY <2>11 DEF CryptoLinked
      <4> QED
        BY <4>1, Zenon
    <3>3. timer' \in BOOLEAN
      <4>1. timer' = timer \/ timer' = (checkoutOpen /\ ~donor)
        BY <2>11 DEF CryptoLinked
      <4>2. timer \in BOOLEAN
        BY DEF CheckoutTypeOK
      <4> QED
        BY <4>1, <4>2, Zenon
    <3>4. UNCHANGED <<openVars, plan, loadingStars, begun, donor, paidVars, leftOver>>
      BY <2>11 DEF CryptoLinked
    <3> QED
      BY <3>1, <3>2, <3>3, <3>4 DEF CheckoutTypeOK
  <2>12. ASSUME NEW f \in flows, CryptoExpires(f) PROVE CheckoutTypeOK'
    BY <2>12 DEF CryptoExpires, CheckoutTypeOK
  <2>13. CASE Webhook
    <3>1. charged' \in BOOLEAN /\ entitled' \in BOOLEAN
      BY <2>13, Zenon DEF Webhook
    <3>2. UNCHANGED <<openVars, plan, flagVars, flowVars, donor, leftOver>>
      BY <2>13 DEF Webhook
    <3> QED
      BY <3>1, <3>2 DEF CheckoutTypeOK
  <2>14. ASSUME NEW byTimer \in BOOLEAN, NEW answered \in BOOLEAN, Refresh(byTimer, answered)
         PROVE  CheckoutTypeOK'
    <3>1. /\ donor' = (answered /\ entitled) /\ awaiting' = ~donor'
          /\ loadingCrypto' = (loadingCrypto /\ ~donor')
          /\ timer' = (timer /\ ~byTimer /\ ~donor')
      BY <2>14 DEF Refresh
    <3>2. /\ donor' \in BOOLEAN /\ awaiting' \in BOOLEAN /\ loadingCrypto' \in BOOLEAN
          /\ timer' \in BOOLEAN
      BY <3>1, Zenon
    <3>3. flows' \subseteq Flows
          /\ UNCHANGED <<openVars, plan, loadingStars, begun, paidVars, leftOver>>
      BY <2>14, <2>a DEF Refresh
    <3> QED
      BY <3>2, <3>3 DEF CheckoutTypeOK
  <2>15. CASE UNCHANGED checkoutVars
    BY <2>15 DEF checkoutVars, CheckoutTypeOK
  <2> QED
    BY <2>1, <2>2, <2>3, <2>4, <2>5, <2>6, <2>7, <2>d, <2>8, <2>9, <2>e, <2>f, <2>10,
       <2>11, <2>12, <2>13, <2>14, <2>15 DEF CheckoutNext
<1> QED
  BY <1>1, <1>2, PTL DEF CheckoutSpec

\* The flow that went on is the only change Advance makes, and keeps its kind.
LEMMA AdvanceKeepsKinds ==
  ASSUME NEW f \in flows, flows \subseteq Flows, NEW phase
  PROVE  LET g == [f EXCEPT !.phase = phase]
         IN  /\ g.kind = f.kind /\ g.phase = phase
             /\ Advance(f, phase) = (flows \ {f}) \cup {g}
<1>1. f \in Flows
  OBVIOUS
<1> QED
  BY <1>1 DEF Flows, Advance

\* A busy button has its POST or its invoice; the crypto button only its POST,
\* unless the sheet waits for the webhook.
BusyInv ==
    /\ loadingStars => \E f \in flows : f.kind = "stars" /\ f.phase # "pending"
    /\ loadingCrypto => awaiting \/ \E f \in flows : f.kind = "crypto" /\ f.phase = "posting"

\* What the flags say of the one payment a sheet that stayed open awaits.
FlagsTell(f) ==
    /\ checkoutOpen
    /\ f.kind = "stars" => loadingStars
    /\ f.kind = "crypto" /\ f.phase = "posting" => loadingCrypto /\ ~awaiting /\ ~donor
    /\ f.phase \in {"linked", "paid"} => awaiting
OneInv ==
    ~leftOver => /\ \A f, g \in Awaited(flows) : f = g
                 /\ \A f \in Awaited(flows) : FlagsTell(f)

\* Every step of the premium sheet keeps BusyInv.
LEMMA BusyInvInductive ==
  ASSUME CheckoutTypeOK, BusyInv, [CheckoutNext]_checkoutVars
  PROVE  BusyInv'
<1> USE DEF flagVars, openVars, flowVars, paidVars
<1>a. flows \subseteq Flows
  BY DEF CheckoutTypeOK
<1>b. ASSUME UNCHANGED <<loadingStars, loadingCrypto, awaiting, flows>> PROVE BusyInv'
  BY <1>b DEF BusyInv
<1>c. Reset => BusyInv'
  BY DEF Reset, BusyInv
\* A payment that goes on, to a phase other than the first, with the flags as before.
<1>d. ASSUME NEW f \in flows, f.phase # "posting", NEW phase, flows' = Advance(f, phase),
             phase # "pending", UNCHANGED <<loadingStars, loadingCrypto, awaiting>>
      PROVE  BusyInv'
  <2> DEFINE g == [f EXCEPT !.phase = phase]
  <2>1. g.kind = f.kind /\ g.phase = phase /\ flows' = (flows \ {f}) \cup {g}
    BY <1>a, <1>d, AdvanceKeepsKinds
  <2> HIDE DEF g
  <2> QED
    BY <1>d, <2>1 DEF BusyInv
<1>1. CASE OpenCheckout \/ Webhook
  BY <1>b, <1>1 DEF OpenCheckout, Webhook
<1>2. CASE CloseCheckout
  BY <1>c, <1>2 DEF CloseCheckout
<1>3. ASSUME NEW p \in Plans, Select(p) PROVE BusyInv'
  BY <1>b, <1>3 DEF Select
<1>4. CASE handleStars
  <2> DEFINE f == [n |-> begun + 1, kind |-> "stars", plan |-> plan, phase |-> "posting"]
  <2>1. flows' = flows \cup {f} /\ UNCHANGED <<loadingCrypto, awaiting>>
    BY <1>4 DEF handleStars, Begin
  <2>2. f.kind = "stars" /\ f.phase # "pending"
    OBVIOUS
  <2> HIDE DEF f
  <2> QED
    BY <2>1, <2>2 DEF BusyInv
<1>5. CASE handleCrypto
  <2> DEFINE f == [n |-> begun + 1, kind |-> "crypto", plan |-> plan, phase |-> "posting"]
  <2>1. flows' = flows \cup {f} /\ UNCHANGED <<loadingStars, awaiting>>
    BY <1>5 DEF handleCrypto, Begin
  <2>2. f.kind = "crypto" /\ f.phase = "posting"
    OBVIOUS
  <2> HIDE DEF f
  <2> QED
    BY <2>1, <2>2 DEF BusyInv
<1>6. ASSUME NEW f \in flows, PostFails(f) PROVE BusyInv'
  <2>1. /\ flows' = flows \ {f} /\ awaiting' = awaiting
        /\ loadingStars' => loadingStars /\ f.kind # "stars"
        /\ loadingCrypto' => loadingCrypto /\ f.kind # "crypto"
    BY <1>6 DEF PostFails
  <2> QED
    BY <2>1 DEF BusyInv
<1>7. ASSUME NEW f \in flows, openInvoice(f) PROVE BusyInv'
  <2> DEFINE g == [f EXCEPT !.phase = "invoice"]
  <2>1. /\ g.kind = f.kind /\ flows' = (flows \ {f}) \cup {g} /\ f.kind = "stars"
        /\ g.phase = "invoice"
        /\ UNCHANGED <<loadingStars, loadingCrypto, awaiting>>
    BY <1>7, <1>a, AdvanceKeepsKinds DEF openInvoice
  <2> HIDE DEF g
  <2> QED
    BY <2>1 DEF BusyInv
<1>8. ASSUME NEW f \in flows, Charge(f) \/ InvoicePaid(f) \/ CryptoPaid(f) PROVE BusyInv'
  BY <1>d, <1>8 DEF Charge, InvoicePaid, CryptoPaid
<1>9. ASSUME NEW f \in flows, InvoiceEnds(f) PROVE BusyInv'
  <2>1. /\ flows' = flows \ {f} /\ ~loadingStars' /\ UNCHANGED <<awaiting, loadingCrypto>>
        /\ f.phase # "posting"
    BY <1>9 DEF InvoiceEnds
  <2> QED
    BY <2>1 DEF BusyInv
<1>e. ASSUME NEW f \in flows, InvoicePending(f) PROVE BusyInv'
  <2> DEFINE g == [f EXCEPT !.phase = "pending"]
  <2>1. /\ flows' = (flows \ {f}) \cup {g} /\ f.phase # "posting" /\ ~loadingStars'
        /\ UNCHANGED <<awaiting, loadingCrypto>>
    BY <1>e, <1>a, AdvanceKeepsKinds DEF InvoicePending
  <2> HIDE DEF g
  <2> QED
    BY <2>1 DEF BusyInv
<1>f. ASSUME NEW f \in flows, NEW p \in BOOLEAN, PendingSettles(f, p) PROVE BusyInv'
  <2>1. /\ flows' = flows \ {f} /\ f.phase = "pending"
        /\ UNCHANGED <<loadingStars, loadingCrypto, awaiting>>
    BY <1>f DEF PendingSettles
  <2> QED
    BY <2>1 DEF BusyInv
<1>10. ASSUME NEW f \in flows, NEW answered \in BOOLEAN, StarsDone(f, answered) PROVE BusyInv'
  <2>1. flows' = flows \ {f} /\ f.phase # "posting"
    BY <1>10 DEF StarsDone
  <2>2. CASE checkoutOpen
    BY <1>c, <1>10, <2>2 DEF StarsDone
  <2>3. CASE ~checkoutOpen
    <3>1. ~loadingStars' /\ (~loadingCrypto' \/ UNCHANGED <<awaiting, loadingCrypto>>)
      BY <1>10, <2>3 DEF StarsDone
    <3> QED
      BY <2>1, <3>1 DEF BusyInv
  <2> QED
    BY <2>2, <2>3
<1>11. ASSUME NEW f \in flows, CryptoLinked(f) PROVE BusyInv'
  <2> DEFINE g == [f EXCEPT !.phase = "linked"]
  <2>1. /\ g.kind = f.kind /\ flows' = (flows \ {f}) \cup {g} /\ f.kind = "crypto"
        /\ loadingStars' = loadingStars /\ (loadingCrypto' => awaiting')
    BY <1>11, <1>a, AdvanceKeepsKinds DEF CryptoLinked
  <2> HIDE DEF g
  <2> QED
    BY <2>1 DEF BusyInv
<1>12. ASSUME NEW f \in flows, CryptoExpires(f) PROVE BusyInv'
  <2>1. /\ flows' = flows \ {f} /\ f.phase = "linked"
        /\ UNCHANGED <<loadingStars, loadingCrypto, awaiting>>
    BY <1>12 DEF CryptoExpires
  <2>2. f.kind = "crypto"
    BY <1>a, <2>1, PhaseTellsKind
  <2> QED
    BY <2>1, <2>2 DEF BusyInv
<1>13. ASSUME NEW byTimer \in BOOLEAN, NEW answered \in BOOLEAN, Refresh(byTimer, answered)
       PROVE  BusyInv'
  <2>1. /\ loadingStars' = loadingStars /\ (loadingCrypto' => awaiting')
        /\ \A f \in flows : f.phase \notin {"linked", "paid"} => f \in flows'
    BY <1>13 DEF Refresh
  <2>2. \A f \in flows : f.kind = "stars" => f.phase \notin {"linked", "paid"}
    BY <1>a, PhaseTellsKind
  <2> QED
    BY <2>1, <2>2 DEF BusyInv
<1>14. CASE UNCHANGED checkoutVars
  BY <1>b, <1>14 DEF checkoutVars
<1> QED
  BY <1>1, <1>2, <1>3, <1>4, <1>5, <1>6, <1>7, <1>8, <1>9, <1>e, <1>f, <1>10, <1>11,
     <1>12, <1>13, <1>14 DEF CheckoutNext

\* PremiumSheet: every way a flow ends, and the effect of a close, clears the flag
\* it set.
THEOREM NoIdleSpinner ==
  CheckoutSpec => []BusyMeansRunning
<1>1. CheckoutInit => BusyInv
  BY DEF CheckoutInit, BusyInv
<1>2. BusyInv => BusyMeansRunning
  BY DEF BusyInv, BusyMeansRunning, Awaited
<1> QED
  BY <1>1, <1>2, BusyInvInductive, CheckoutTypeCorrect, PTL DEF CheckoutSpec

\* Every step of the premium sheet keeps OneInv.
LEMMA OneInvInductive ==
  ASSUME CheckoutTypeOK, OneInv, [CheckoutNext]_checkoutVars
  PROVE  OneInv'
<1> USE DEF flagVars, openVars, flowVars, paidVars, Awaited
<1>a. flows \subseteq Flows
  BY DEF CheckoutTypeOK
<1>b. ASSUME UNCHANGED <<checkoutOpen, loadingStars, loadingCrypto, awaiting, donor, leftOver>>,
             flows' = flows \/ \E f \in flows : flows' = flows \ {f}
      PROVE  OneInv'
  BY <1>b DEF OneInv, FlagsTell
\* The one payment ends.
<1>d. ASSUME NEW f \in Awaited(flows), flows' = flows \ {f}, leftOver' = leftOver
      PROVE  OneInv'
  <2>1. ~leftOver => Awaited(flows)' = {}
    BY <1>d DEF OneInv
  <2> QED
    BY <1>d, <2>1 DEF OneInv
\* The one payment goes on, and the flags still tell.
<1>e. ASSUME NEW f \in Awaited(flows), NEW phase, flows' = Advance(f, phase), leftOver' = leftOver,
             NEW g, g = [f EXCEPT !.phase = phase],
             ~leftOver /\ phase # "pending" => FlagsTell(g)'
      PROVE  OneInv'
  <2>1. flows' = (flows \ {f}) \cup {g} /\ g.phase = phase
    BY <1>a, <1>e, AdvanceKeepsKinds
  <2>2. ~leftOver => Awaited(flows)' \subseteq {g}
    BY <2>1 DEF OneInv
  <2>3. ~leftOver' => \A h \in Awaited(flows)' : h = g /\ phase # "pending"
    BY <1>e, <2>1, <2>2
  <2> QED
    BY <1>e, <2>3 DEF OneInv
<1>1. CASE OpenCheckout
  <2>1. /\ ~checkoutOpen /\ flows' = flows /\ leftOver' = leftOver
    BY <1>1 DEF OpenCheckout
  <2>2. ~leftOver => Awaited(flows) = {}
    BY <2>1 DEF OneInv, FlagsTell
  <2> QED
    BY <2>1, <2>2 DEF OneInv
<1>2. CASE CloseCheckout
  <2>1. flows' = flows /\ (Awaited(flows) # {} => leftOver')
    BY <1>2 DEF CloseCheckout
  <2> QED
    BY <2>1 DEF OneInv
<1>3. ASSUME NEW p \in Plans, Select(p) PROVE OneInv'
  BY <1>b, <1>3 DEF Select
\* Nothing is awaited when a payment may begin.
<1>f. ASSUME CanPay, ~leftOver PROVE Awaited(flows) = {}
  <2> SUFFICES ASSUME NEW f \in Awaited(flows) PROVE FALSE
    OBVIOUS
  <2>1. FlagsTell(f) /\ f \in Flows
    BY <1>a, <1>f DEF OneInv
  <2>2. f.kind = "stars" \/ (f.kind = "crypto" /\ f.phase \in {"posting", "linked", "paid"})
    BY <2>1 DEF Flows
  <2> QED
    BY <1>f, <2>1, <2>2 DEF CanPay, FlagsTell
\* The payment that begins.
<1>g. ASSUME NEW f, flows' = flows \cup {f}, CanPay, UNCHANGED leftOver, FlagsTell(f)'
      PROVE  OneInv'
  <2>1. ~leftOver => Awaited(flows)' \subseteq {f}
    BY <1>f, <1>g
  <2> QED
    BY <1>g, <2>1 DEF OneInv
<1>4. CASE handleStars
  <2>1. PICK f : /\ f = [n |-> begun + 1, kind |-> "stars", plan |-> plan, phase |-> "posting"]
                 /\ flows' = flows \cup {f}
    BY <1>4 DEF handleStars, Begin
  <2>2. f.kind = "stars" /\ f.phase = "posting"
    BY <2>1
  <2>3. CanPay /\ checkoutOpen' /\ leftOver' = leftOver /\ loadingStars'
    BY <1>4 DEF handleStars, Begin
  <2>4. FlagsTell(f)'
    BY <2>2, <2>3 DEF FlagsTell
  <2> QED
    BY <1>g, <2>1, <2>3, <2>4
<1>5. CASE handleCrypto
  <2>1. PICK f : /\ f = [n |-> begun + 1, kind |-> "crypto", plan |-> plan, phase |-> "posting"]
                 /\ flows' = flows \cup {f}
    BY <1>5 DEF handleCrypto, Begin
  <2>2. f.kind = "crypto" /\ f.phase = "posting"
    BY <2>1
  <2>3. /\ CanPay /\ checkoutOpen' /\ leftOver' = leftOver /\ loadingCrypto'
        /\ ~awaiting' /\ ~donor'
    BY <1>5 DEF handleCrypto, Begin, CanPay
  <2>4. FlagsTell(f)'
    BY <2>2, <2>3 DEF FlagsTell
  <2> QED
    BY <1>g, <2>1, <2>3, <2>4
<1>6. ASSUME NEW f \in flows, PostFails(f) \/ InvoiceEnds(f) \/ CryptoExpires(f) PROVE OneInv'
  BY <1>d, <1>6 DEF PostFails, InvoiceEnds, CryptoExpires
<1>h. ASSUME NEW f \in flows, InvoicePending(f) PROVE OneInv'
  <2>1. /\ f \in Awaited(flows) /\ flows' = Advance(f, "pending") /\ leftOver' = leftOver
    BY <1>h DEF InvoicePending
  <2> QED
    BY <1>e, <2>1
<1>i. ASSUME NEW f \in flows, NEW p \in BOOLEAN, PendingSettles(f, p) PROVE OneInv'
  BY <1>b, <1>i DEF PendingSettles
<1>7. ASSUME NEW f \in Awaited(flows), NEW phase \in {"invoice", "charged", "profile", "paid"},
             flows' = Advance(f, phase),
             phase = "paid" => f.phase = "linked",
             UNCHANGED <<checkoutOpen, loadingStars, loadingCrypto, awaiting, donor, leftOver>>
      PROVE  OneInv'
  <2> DEFINE g == [f EXCEPT !.phase = phase]
  <2>1. g.kind = f.kind /\ g.phase = phase
    BY <1>a, AdvanceKeepsKinds
  <2>2. ~leftOver => FlagsTell(f)
    BY DEF OneInv
  <2> HIDE DEF g
  <2>3. ~leftOver => FlagsTell(g)'
    BY <1>7, <2>1, <2>2 DEF FlagsTell
  <2> QED
    BY <1>e, <1>7, <2>3 DEF g
<1>8. ASSUME NEW f \in flows, openInvoice(f) \/ Charge(f) \/ InvoicePaid(f) \/ CryptoPaid(f)
      PROVE  OneInv'
  BY <1>7, <1>8 DEF openInvoice, Charge, InvoicePaid, CryptoPaid
<1>9. ASSUME NEW f \in flows, NEW answered \in BOOLEAN, StarsDone(f, answered) PROVE OneInv'
  <2>1. flows' = flows \ {f} /\ f \in Awaited(flows) /\ (leftOver => leftOver')
    BY <1>9 DEF StarsDone
  <2>2. ~leftOver => Awaited(flows)' = {}
    BY <2>1 DEF OneInv
  <2> QED
    BY <2>1, <2>2 DEF OneInv
<1>10. ASSUME NEW f \in flows, CryptoLinked(f) PROVE OneInv'
  <2> DEFINE g == [f EXCEPT !.phase = "linked"]
  <2>1. /\ f \in Awaited(flows) /\ f.phase = "posting" /\ f.kind = "crypto" /\ flows' = Advance(f, "linked")
        /\ awaiting' = ~donor /\ UNCHANGED <<checkoutOpen, loadingStars, leftOver>>
    BY <1>10 DEF CryptoLinked
  <2>2. g.kind = "crypto" /\ g.phase = "linked"
    BY <1>a, <2>1, AdvanceKeepsKinds
  <2>3. ~leftOver => FlagsTell(f)
    BY <2>1 DEF OneInv
  <2> HIDE DEF g
  <2>4. ~leftOver => FlagsTell(g)'
    BY <2>1, <2>2, <2>3 DEF FlagsTell
  <2> QED
    BY <1>e, <2>1, <2>4 DEF g
<1>11. ASSUME NEW byTimer \in BOOLEAN, NEW answered \in BOOLEAN, Refresh(byTimer, answered)
       PROVE  OneInv'
  <2>1. /\ awaiting /\ awaiting' = ~donor' /\ flows' \subseteq flows
        /\ UNCHANGED <<checkoutOpen, loadingStars, leftOver>>
        /\ donor' => \A f \in flows' : f.phase \notin {"linked", "paid"}
    BY <1>11 DEF Refresh
  <2>2. ASSUME ~leftOver, NEW f \in Awaited(flows)' PROVE FlagsTell(f)'
    <3>1. FlagsTell(f)
      BY <2>1, <2>2 DEF OneInv
    <3> QED
      BY <2>1, <2>2, <3>1 DEF FlagsTell
  <2> QED
    BY <2>1, <2>2 DEF OneInv
<1>12. CASE Webhook
  BY <1>b, <1>12 DEF Webhook
<1>13. CASE UNCHANGED checkoutVars
  BY <1>b, <1>13 DEF checkoutVars
<1> QED
  BY <1>1, <1>2, <1>3, <1>4, <1>5, <1>6, <1>h, <1>i, <1>8, <1>9, <1>10, <1>11, <1>12, <1>13
     DEF CheckoutNext

\* PremiumSheet: the buttons are disabled from the tap to the webhook, so a sheet
\* that stays open awaits one payment at a time; what openInvoice answered for as
\* pending, or gave up on, is awaited no longer.
THEOREM OnePaymentAtATime ==
  CheckoutSpec => []OneCheckout
<1>1. CheckoutInit => OneInv
  BY DEF CheckoutInit, OneInv, Awaited
<1>2. ASSUME OneInv PROVE OneCheckout
  <2> SUFFICES ASSUME ~leftOver PROVE Cardinality(Awaited(flows)) <= 1
    BY DEF OneCheckout
  <2>1. CASE Awaited(flows) = {}
    <3>1. Cardinality(Awaited(flows)) = 0
      BY <2>1, FS_EmptySet
    <3> QED
      BY <3>1
  <2>2. CASE Awaited(flows) # {}
    <3>1. PICK f \in Awaited(flows) : Awaited(flows) = {f}
      BY <1>2, <2>2 DEF OneInv
    <3>2. Cardinality(Awaited(flows)) = 1
      BY <3>1, FS_Singleton
    <3> QED
      BY <3>2
  <2> QED
    BY <2>1, <2>2
<1> QED
  BY <1>1, <1>2, OneInvInductive, CheckoutTypeCorrect, PTL DEF CheckoutSpec

(***************************************************************************)
(* SettingsClient.                                                         *)
(***************************************************************************)
\* A record of settings with one of them set is one.
LEMMA OneSet ==
  ASSUME NEW s \in [Fields -> Values], NEW f \in Fields, NEW v \in Values
  PROVE  [s EXCEPT ![f] = v] \in [Fields -> Values]
OBVIOUS

\* settingsStore and the sheets of the settings page keep their types.
THEOREM SettingsTypeCorrect ==
  SettingsSpec => []SettingsTypeOK
<1> USE SettingsAssumption
<1>1. SettingsInit => SettingsTypeOK
  <2> SUFFICES ASSUME SettingsInit PROVE SettingsTypeOK
    OBVIOUS
  <2>1. Defaults \in [Fields -> Values]
    BY DEF Defaults
  <2>2. server \in [Fields -> Values]
    BY DEF SettingsInit
  <2>3. profiles \in 0 .. MaxProfiles /\ saves \in 0 .. MaxPatches /\ attempt \in 0 .. Attempts
    BY DEF SettingsInit, Attempts
  <2> QED
    BY <2>1, <2>2, <2>3 DEF SettingsInit, SettingsTypeOK
<1>2. SettingsTypeOK /\ [SettingsNext]_settingsVars => SettingsTypeOK'
  <2> SUFFICES ASSUME SettingsTypeOK, [SettingsNext]_settingsVars PROVE SettingsTypeOK'
    OBVIOUS
  <2> USE DEF SettingsTypeOK, getVars, patchVars, syncVars, pageVars, histVars
  <2>a. "timezone" \in Fields /\ BrowserZone \in Values
    OBVIOUS
  <2>1. CASE FetchProfile
    <3>1. profiles' \in 0 .. MaxProfiles /\ profile' = "sent"
      BY <2>1 DEF FetchProfile
    <3>2. raced' \in BOOLEAN
      BY <2>1, Zenon DEF FetchProfile, Busy
    <3>3. UNCHANGED <<server, settings, snapshot, landed, patchVars, syncVars, pageVars, picked>>
      BY <2>1 DEF FetchProfile
    <3> QED
      BY <3>1, <3>2, <3>3
  <2>2. CASE ProfileRead
    BY <2>2 DEF ProfileRead
  <2>3. CASE ProfileAnswered
    <3>1. settings' \in [Fields -> Values]
      BY <2>3, <2>a, OneSet DEF ProfileAnswered
    <3>2. sync' \in {"off", "due", "sent", "handled"} /\ attempt' \in 0 .. Attempts
      BY <2>3 DEF ProfileAnswered, Attempts
    <3>3. landed' \in BOOLEAN
      BY <2>3, Zenon DEF ProfileAnswered
    <3>4. /\ profile' = "idle"
          /\ UNCHANGED <<server, snapshot, profiles, patchVars, pageVars, histVars>>
      BY <2>3 DEF ProfileAnswered
    <3> QED
      BY <3>1, <3>2, <3>3, <3>4
  <2>4. CASE ProfileFails
    BY <2>4 DEF ProfileFails
  <2>5. CASE SyncSends \/ SyncOk
    BY <2>5 DEF SyncSends, SyncOk
  <2>6. CASE SyncHandled
    <3>1. server' \in [Fields -> Values]
      BY <2>6, <2>a, OneSet DEF SyncHandled
    <3> QED
      BY <2>6, <3>1 DEF SyncHandled
  <2>7. ASSUME NEW refused \in BOOLEAN, SyncFails(refused) PROVE SettingsTypeOK'
    <3>1. sync' \in {"off", "due", "sent", "handled"} /\ attempt' \in 0 .. Attempts
      BY <2>7 DEF SyncFails, Attempts
    <3>2. raced' \in BOOLEAN
      BY <2>7, Zenon DEF SyncFails
    <3>3. UNCHANGED <<server, settings, getVars, patchVars, pageVars, picked>>
      BY <2>7 DEF SyncFails
    <3> QED
      BY <3>1, <3>2, <3>3
  <2>8. ASSUME NEW t \in {"language", "notifications", "privacy"}, OpenSettingsSheet(t)
        PROVE  SettingsTypeOK'
    BY <2>8 DEF OpenSettingsSheet
  <2>9. CASE CloseSettingsSheet
    BY <2>9 DEF CloseSettingsSheet
  <2>10. ASSUME NEW f \in Fields, NEW v \in Values, SaveSetting(f, v) PROVE SettingsTypeOK'
    <3>1. settings' \in [Fields -> Values]
      BY <2>10, OneSet DEF SaveSetting
    <3>2. saves' \in 0 .. MaxPatches /\ saves + 1 \in 1 .. MaxPatches
      BY <2>10 DEF SaveSetting
    <3>3. FALSE \in BOOLEAN
      OBVIOUS
    <3>4. [n |-> saves + 1, field |-> f, value |-> v, prev |-> settings, handled |-> FALSE]
            \in Patches
      BY <3>2, <3>3 DEF Patches
    <3>5. patches' \subseteq Patches
      BY <2>10, <3>4 DEF SaveSetting
    <3>6. saving' \subseteq Guarded
      BY <2>10 DEF SaveSetting
    <3>7. settingsSheet' \in {"none", "language", "notifications", "privacy"}
      BY <2>10 DEF SaveSetting
    <3>8. raced' \in BOOLEAN
      BY <2>10, Zenon DEF SaveSetting, Busy
    <3>9. picked' \in Values
      BY <2>10 DEF SaveSetting
    <3>10. UNCHANGED <<server, getVars, syncVars, downloading, erasing>>
      BY <2>10 DEF SaveSetting
    <3> QED
      BY <3>1, <3>2, <3>5, <3>6, <3>7, <3>8, <3>9, <3>10
  <2>11. ASSUME NEW q \in patches, PatchHandled(q) PROVE SettingsTypeOK'
    <3>1. q \in Patches
      OBVIOUS
    <3>2. q.field \in Fields /\ q.value \in Values
      BY <3>1 DEF Patches
    <3>3. server' \in [Fields -> Values]
      BY <2>11, <3>2, OneSet DEF PatchHandled
    <3>4. [q EXCEPT !.handled = TRUE] \in Patches
      BY <3>1 DEF Patches
    <3>5. patches' \subseteq Patches
      BY <2>11, <3>4 DEF PatchHandled
    <3>6. UNCHANGED <<settings, getVars, saves, saving, syncVars, pageVars, histVars>>
      BY <2>11 DEF PatchHandled
    <3> QED
      BY <3>3, <3>5, <3>6
  <2>12. ASSUME NEW q \in patches, PatchOk(q) PROVE SettingsTypeOK'
    <3>1. q.value \in Values
      BY DEF Patches
    <3>2. picked' \in Values
      BY <2>12, <3>1 DEF PatchOk
    <3>3. patches' \subseteq Patches /\ saving' \subseteq Guarded
      BY <2>12 DEF PatchOk
    <3>4. UNCHANGED <<server, settings, getVars, saves, syncVars, pageVars, raced>>
      BY <2>12 DEF PatchOk
    <3> QED
      BY <3>2, <3>3, <3>4
  <2>13. ASSUME NEW q \in patches, PatchFails(q) PROVE SettingsTypeOK'
    <3>1. q.prev \in [Fields -> Values] /\ q.handled \in BOOLEAN
      BY DEF Patches
    <3>2. settings' \in [Fields -> Values]
      BY <2>13, <3>1 DEF PatchFails
    <3>3. raced' \in BOOLEAN
      BY <2>13, Zenon DEF PatchFails
    <3>4. patches' \subseteq Patches /\ saving' \subseteq Guarded
      BY <2>13 DEF PatchFails
    <3>5. UNCHANGED <<server, getVars, saves, syncVars, pageVars, picked>>
      BY <2>13 DEF PatchFails
    <3> QED
      BY <3>2, <3>3, <3>4, <3>5
  <2>14. CASE HandleDownload
    <3>1. downloading' \in BOOLEAN
      BY <2>14, Zenon DEF HandleDownload
    <3>2. UNCHANGED <<server, settings, getVars, patchVars, syncVars, settingsSheet, erasing,
                      histVars>>
      BY <2>14 DEF HandleDownload
    <3> QED
      BY <3>1, <3>2
  <2>15. CASE HandleDeleteRequest
    BY <2>15 DEF HandleDeleteRequest
  <2>16. ASSUME NEW yes \in BOOLEAN, AnswerDialog(yes) PROVE SettingsTypeOK'
    BY <2>16 DEF AnswerDialog
  <2>17. ASSUME NEW yes \in BOOLEAN, DeleteAnswered(yes) PROVE SettingsTypeOK'
    <3>1. Defaults \in [Fields -> Values]
      BY DEF Defaults
    <3> QED
      BY <2>17, <3>1 DEF DeleteAnswered
  <2>18. CASE UNCHANGED settingsVars
    BY <2>18 DEF settingsVars
  <2> QED
    BY <2>1, <2>2, <2>3, <2>4, <2>5, <2>6, <2>7, <2>8, <2>9, <2>10, <2>11, <2>12, <2>13,
       <2>14, <2>15, <2>16, <2>17, <2>18 DEF SettingsNext
<1> QED
  BY <1>1, <1>2, PTL DEF SettingsSpec

\* What a save that runs has made of the settings and the row: the settings are
\* the record it started from with its value in it, and the row is one or the
\* other, as the backend handled it or not.
SaveTells(p) ==
    /\ settings = [p.prev EXCEPT ![p.field] = p.value]
    /\ p.handled => server = settings
    /\ ~p.handled => server = p.prev

\* What keeps the settings page true while requests come one at a time: where the
\* one that runs has got to, told by the settings and the row.
QuietNow ==
    /\ patches # {} => profile = "idle" /\ sync = "off"
    /\ profile # "idle" => sync = "off"
    /\ \A p, q \in patches : p = q
    /\ profile = "read" => snapshot = server
    /\ sync \in {"due", "sent"} => settings = [server EXCEPT !["timezone"] = BrowserZone]
    /\ sync = "handled" => settings = server
    /\ landed /\ patches = {} /\ sync = "off" => settings = server
    /\ landed => \A p \in patches : SaveTells(p)
QuietInv == ~raced /\ erasing # "done" => QuietNow

\* Every step keeps it.
LEMMA QuietInvInductive ==
  ASSUME SettingsTypeOK, QuietInv, [SettingsNext]_settingsVars
  PROVE  QuietInv'
<1> SUFFICES ASSUME ~raced', erasing' # "done" PROVE QuietNow'
  BY DEF QuietInv
<1> USE SettingsAssumption DEF getVars, patchVars, syncVars, pageVars, histVars
<1>a. ASSUME ~raced, erasing # "done" PROVE QuietNow
  BY <1>a DEF QuietInv
<1>b. ASSUME UNCHANGED <<server, settings, getVars, patchVars, syncVars>>,
             ~raced, erasing # "done"
      PROVE  QuietNow'
  BY <1>a, <1>b DEF QuietNow, SaveTells
<1>1. CASE FetchProfile
  <2>1. ~raced /\ ~Busy /\ erasing # "done"
    BY <1>1 DEF FetchProfile
  <2>2. QuietNow /\ patches = {} /\ sync = "off"
    BY <1>a, <2>1 DEF Busy
  <2>3. /\ profile' = "sent"
        /\ UNCHANGED <<server, settings, snapshot, landed, patches, sync>>
    BY <1>1 DEF FetchProfile
  <2> QED
    BY <2>2, <2>3 DEF QuietNow
<1>2. CASE ProfileRead
  <2>1. QuietNow /\ profile = "sent"
    BY <1>2, <1>a DEF ProfileRead
  <2>2. patches = {} /\ sync = "off"
    BY <2>1 DEF QuietNow
  <2>3. /\ profile' = "read" /\ snapshot' = server
        /\ UNCHANGED <<server, settings, landed, patches, sync>>
    BY <1>2 DEF ProfileRead
  <2> QED
    BY <2>1, <2>2, <2>3 DEF QuietNow
<1>3. CASE ProfileAnswered
  <2>1. QuietNow /\ profile = "read"
    BY <1>3, <1>a DEF ProfileAnswered
  <2>2. patches = {} /\ sync = "off" /\ snapshot = server
    BY <2>1 DEF QuietNow
  <2>3. profile' = "idle" /\ UNCHANGED <<server, snapshot, patches>>
    BY <1>3 DEF ProfileAnswered
  <2>4. CASE snapshot["timezone"] = "UTC"
    <3>1. settings' = [server EXCEPT !["timezone"] = BrowserZone] /\ sync' = "due"
      BY <1>3, <2>2, <2>4 DEF ProfileAnswered
    <3> QED
      BY <2>2, <2>3, <3>1 DEF QuietNow
  <2>5. CASE snapshot["timezone"] # "UTC"
    <3>1. settings' = server /\ sync' = "off"
      BY <1>3, <2>2, <2>5 DEF ProfileAnswered
    <3> QED
      BY <2>2, <2>3, <3>1 DEF QuietNow
  <2> QED
    BY <2>4, <2>5
<1>4. CASE ProfileFails
  <2>1. QuietNow /\ profile # "idle"
    BY <1>4, <1>a DEF ProfileFails
  <2>2. patches = {} /\ sync = "off"
    BY <2>1 DEF QuietNow
  <2>3. profile' = "idle" /\ UNCHANGED <<server, settings, landed, patches, sync>>
    BY <1>4 DEF ProfileFails
  <2> QED
    BY <2>1, <2>2, <2>3 DEF QuietNow
<1>5. CASE SyncSends
  <2>1. QuietNow /\ sync = "due"
    BY <1>5, <1>a DEF SyncSends
  <2>2. sync' = "sent" /\ UNCHANGED <<server, settings, getVars, patches>>
    BY <1>5 DEF SyncSends
  <2>3. patches = {} /\ profile = "idle"
    BY <2>1 DEF QuietNow
  <2> QED
    BY <2>1, <2>2, <2>3 DEF QuietNow
<1>6. CASE SyncHandled
  <2>1. QuietNow /\ sync = "sent"
    BY <1>6, <1>a DEF SyncHandled
  <2>2. /\ sync' = "handled" /\ UNCHANGED <<settings, getVars, patches>>
        /\ server' = [server EXCEPT !["timezone"] = BrowserZone]
    BY <1>6 DEF SyncHandled
  <2>3. patches = {} /\ profile = "idle" /\ settings = server'
    BY <2>1, <2>2 DEF QuietNow
  <2> QED
    BY <2>2, <2>3 DEF QuietNow
<1>7. CASE SyncOk
  <2>1. QuietNow /\ sync = "handled"
    BY <1>7, <1>a DEF SyncOk
  <2>2. sync' = "off" /\ UNCHANGED <<server, settings, getVars, patches>>
    BY <1>7 DEF SyncOk
  <2>3. patches = {} /\ profile = "idle" /\ settings = server
    BY <2>1 DEF QuietNow
  <2> QED
    BY <2>2, <2>3 DEF QuietNow
<1>8. ASSUME NEW refused \in BOOLEAN, SyncFails(refused) PROVE FALSE
  BY <1>8 DEF SyncFails
<1>9. ASSUME NEW t \in {"language", "notifications", "privacy"}, OpenSettingsSheet(t)
      PROVE  QuietNow'
  BY <1>9, <1>b DEF OpenSettingsSheet
<1>10. CASE CloseSettingsSheet
  BY <1>10, <1>b DEF CloseSettingsSheet
<1>11. ASSUME NEW f \in Fields, NEW v \in Values, SaveSetting(f, v) PROVE QuietNow'
  <2>1. ~raced /\ ~Busy /\ erasing # "done"
    BY <1>11 DEF SaveSetting
  <2>2. QuietNow /\ patches = {} /\ sync = "off" /\ profile = "idle"
    BY <1>a, <2>1 DEF Busy
  <2>3. PICK r : r = [n |-> saves + 1, field |-> f, value |-> v, prev |-> settings,
                      handled |-> FALSE]
    OBVIOUS
  <2>4. /\ settings' = [settings EXCEPT ![f] = v] /\ patches' = {r}
        /\ UNCHANGED <<server, getVars, sync>>
    BY <1>11, <2>2, <2>3 DEF SaveSetting
  <2>5. r.field = f /\ r.value = v /\ r.prev = settings /\ ~r.handled
    BY <2>3
  <2>6. ASSUME landed PROVE settings = server
    BY <2>2, <2>6 DEF QuietNow
  <2>7. landed' => \A q \in patches' : SaveTells(q)'
    BY <2>4, <2>5, <2>6 DEF SaveTells
  <2> QED
    BY <2>2, <2>4, <2>7 DEF QuietNow
<1>12. ASSUME NEW p \in patches, PatchHandled(p) PROVE QuietNow'
  <2>1. QuietNow /\ ~raced /\ erasing # "done"
    BY <1>12, <1>a DEF PatchHandled
  <2>2. patches = {p} /\ profile = "idle" /\ sync = "off"
    BY <2>1 DEF QuietNow
  <2>3. p \in Patches
    BY DEF SettingsTypeOK
  <2>4. PICK r : r = [p EXCEPT !.handled = TRUE]
    OBVIOUS
  <2>5. r.field = p.field /\ r.value = p.value /\ r.prev = p.prev /\ r.handled
    BY <2>3, <2>4 DEF Patches
  <2>6. /\ ~p.handled /\ patches' = {r}
        /\ server' = [server EXCEPT ![p.field] = p.value]
        /\ UNCHANGED <<settings, getVars, sync>>
    BY <1>12, <2>2, <2>4 DEF PatchHandled
  <2>7. landed => SaveTells(p)
    BY <2>1 DEF QuietNow
  <2>8. landed' => \A q \in patches' : SaveTells(q)'
    BY <2>5, <2>6, <2>7 DEF SaveTells
  <2> QED
    BY <2>2, <2>6, <2>8 DEF QuietNow
<1>13. ASSUME NEW p \in patches, PatchOk(p) PROVE QuietNow'
  <2>1. QuietNow
    BY <1>13, <1>a DEF PatchOk
  <2>2. patches = {p} /\ profile = "idle" /\ sync = "off"
    BY <2>1 DEF QuietNow
  <2>3. p.handled /\ patches' = {} /\ UNCHANGED <<server, settings, getVars, sync>>
    BY <1>13, <2>2 DEF PatchOk
  <2>4. landed => settings = server
    BY <2>1, <2>3 DEF QuietNow, SaveTells
  <2> QED
    BY <2>2, <2>3, <2>4 DEF QuietNow
<1>14. ASSUME NEW p \in patches, PatchFails(p) PROVE QuietNow'
  <2>1. QuietNow /\ ~p.handled
    BY <1>14, <1>a DEF PatchFails
  <2>2. patches = {p} /\ profile = "idle" /\ sync = "off"
    BY <2>1 DEF QuietNow
  <2>3. settings' = p.prev /\ patches' = {} /\ UNCHANGED <<server, getVars, sync>>
    BY <1>14, <2>2 DEF PatchFails
  <2>4. landed => server = p.prev
    BY <2>1 DEF QuietNow, SaveTells
  <2> QED
    BY <2>2, <2>3, <2>4 DEF QuietNow
<1>15. CASE HandleDownload
  BY <1>15, <1>b DEF HandleDownload
<1>16. CASE HandleDeleteRequest
  BY <1>16, <1>b DEF HandleDeleteRequest
<1>17. ASSUME NEW yes \in BOOLEAN, AnswerDialog(yes) PROVE QuietNow'
  BY <1>17, <1>b DEF AnswerDialog
<1>18. ASSUME NEW yes \in BOOLEAN, DeleteAnswered(yes) PROVE QuietNow'
  <2>1. ~yes
    BY <1>18 DEF DeleteAnswered
  <2> QED
    BY <1>18, <1>b, <2>1 DEF DeleteAnswered
<1>19. CASE UNCHANGED settingsVars
  BY <1>19, <1>b DEF settingsVars
<1> QED
  BY <1>1, <1>2, <1>3, <1>4, <1>5, <1>6, <1>7, <1>8, <1>9, <1>10, <1>11, <1>12, <1>13,
     <1>14, <1>15, <1>16, <1>17, <1>18, <1>19 DEF SettingsNext

\* settingsStore: without overlap and loss, what the settings page shows is the
\* row, through refusals, rollbacks and time zone syncs.
THEOREM SettingsPageIsTrue ==
  SettingsSpec => []QuietStoreIsTrue
<1>1. SettingsInit => QuietInv
  BY DEF SettingsInit, QuietInv, QuietNow
<1>2. SettingsTypeOK /\ QuietInv => QuietStoreIsTrue
  BY DEF QuietInv, QuietNow, QuietStoreIsTrue, Busy, SettingsTypeOK
<1>3. SettingsTypeOK /\ QuietInv /\ [SettingsNext]_settingsVars => QuietInv'
  BY QuietInvInductive
<1> QED
  BY <1>1, <1>2, <1>3, SettingsTypeCorrect, PTL DEF SettingsSpec

(***************************************************************************)
(* DashboardList.                                                          *)
(***************************************************************************)
\* Months and ranges are numbers.
LEMMA RangesAreDays ==
  /\ ThisMonth \in Int
  /\ \A q \in Presets : range(q) \in [from : Int, to : Int]
<1> USE ListAssumption
<1>1. ThisMonth \in Int
  BY DEF ThisMonth, MonthOf
<1>2. 3 * MonthLength \in Int /\ 60 * MonthLength \in Int
  OBVIOUS
<1>3. ThisMonth * MonthLength \in Int /\ (ThisMonth + 1) * MonthLength \in Int
  BY <1>1
<1>4. ASSUME NEW q \in Presets PROVE range(q) \in [from : Int, to : Int]
  <2> HIDE DEF ThisMonth
  <2>1. CASE q = "7d"
    BY <2>1 DEF range
  <2>2. CASE q = "30d"
    BY <2>2 DEF range
  <2>3. CASE q = "this_month"
    BY <2>3, <1>3 DEF range
  <2>4. CASE q = "3m"
    BY <2>4, <1>2 DEF range
  <2>5. CASE q = "all"
    BY <2>5, <1>2 DEF range
  <2> QED
    BY <2>1, <2>2, <2>3, <2>4, <2>5 DEF Presets
<1> QED
  BY <1>1, <1>4

\* A row more, a row less.
LEMMA RowAppended ==
  ASSUME NEW T, NEW n \in Nat, NEW q \in Seq(T), NEW x \in T, Len(q) < n
  PROVE  Append(q, x) \in Seq(T) /\ Len(Append(q, x)) <= n
OBVIOUS

\* A sequence without one of its entries is a sequence one shorter.
LEMMA RowRemoved ==
  ASSUME NEW T, NEW n \in Nat, NEW q \in Seq(T), NEW i \in DOMAIN q, Len(q) <= n, NEW r,
         r = [j \in 1 .. Len(q) - 1 |-> q[IF j < i THEN j ELSE j + 1]]
  PROVE  r \in Seq(T) /\ Len(r) <= n
<1> DEFINE m == Len(q) - 1
<1>1. m \in Nat /\ i \in 1 .. m + 1 /\ m <= n
  OBVIOUS
<1>2. \A j \in 1 .. m : q[IF j < i THEN j ELSE j + 1] \in T
  BY <1>1
<1>3. r = [j \in 1 .. m |-> q[IF j < i THEN j ELSE j + 1]]
  OBVIOUS
<1> HIDE DEF m
<1>4. r \in Seq(T) /\ Len(r) = m
  BY <1>1, <1>2, <1>3
<1> QED
  BY <1>1, <1>4

\* The store's filters, the sheet's draft and the pages' own state keep their types.
THEOREM ListTypeCorrect ==
  ListSpec => []ListTypeOK
<1>b. MaxShown \in Nat
  BY ListAssumption
<1>c. \A d \in Dues \cup {Now} : d \in Int
  <2>1. \A s \in Pool : s.due \in Nat
    BY ListAssumption
  <2>2. Now \in Nat
    BY ListAssumption
  <2> QED
    BY <2>1, <2>2 DEF Dues
<1>f. \A c \in Int, d \in {-1, 1} : c + d \in Int
  OBVIOUS
<1>d. DEFAULT_SORT \in SORT_OPTIONS /\ "all" \in Presets /\ "name" \in RoomSorts
  BY DEF DEFAULT_SORT, SORT_OPTIONS, Presets, RoomSorts
<1>e. DefaultFilters \in [sort : SORT_OPTIONS, types : SUBSET TYPE_OPTIONS,
                          categories : SUBSET Categories]
  BY <1>d DEF DefaultFilters
<1>1. ListInit => ListTypeOK
  <2> SUFFICES ASSUME ListInit PROVE ListTypeOK
    OBVIOUS
  <2>1. shownItems \in Seq(Pool) /\ Len(shownItems) <= MaxShown
    <3>1. shownItems = <<>>
      BY DEF ListInit
    <3> QED
      BY <1>b, <3>1
  <2>2. dateRange \in [from : Int, to : Int] /\ cursor \in Int
    BY <1>d, RangesAreDays DEF ListInit
  <2> QED
    BY <1>d, <1>e, <2>1, <2>2 DEF ListInit, ListTypeOK
<1>2. ListTypeOK /\ [ListNext]_listVars => ListTypeOK'
  <2> SUFFICES ASSUME ListTypeOK, [ListNext]_listVars PROVE ListTypeOK'
    OBVIOUS
  <2> USE DEF ListTypeOK, filterVars, searchVars, sheetVars, calendarVars, rangeVars,
              roomsPageVars
  <2>a. shownItems \in Seq(Pool) /\ Len(shownItems) <= MaxShown /\ cursor \in Int
    OBVIOUS
  <2>1. ASSUME NEW s \in Pool, ItemAdded(s) PROVE ListTypeOK'
    <3>1. Len(shownItems) < MaxShown /\ shownItems' = Append(shownItems, s)
      BY <2>1 DEF ItemAdded
    <3>2. shownItems' \in Seq(Pool) /\ Len(shownItems') <= MaxShown
      BY <1>b, <2>a, <3>1, RowAppended
    <3> QED
      BY <2>1, <3>2 DEF ItemAdded
  <2>2. ASSUME NEW i \in DOMAIN shownItems, ItemRemoved(i) PROVE ListTypeOK'
    <3>1. shownItems' = [j \in 1 .. Len(shownItems) - 1 |->
                           shownItems[IF j < i THEN j ELSE j + 1]]
      BY <2>2 DEF ItemRemoved
    <3> HIDE DEF ListTypeOK
    <3>2. shownItems' \in Seq(Pool) /\ Len(shownItems') <= MaxShown
      BY <1>b, <2>a, <3>1, RowRemoved
    <3> QED
      BY <2>2, <3>2 DEF ItemRemoved, ListTypeOK
  <2>3. CASE fetchRates
    BY <2>3 DEF fetchRates
  <2>4. ASSUME NEW q \in ViewQueries \cup {""}, setFilter(q) PROVE ListTypeOK'
    BY <2>4 DEF setFilter
  <2>5. ASSUME NEW q \in ViewQueries \cup {""}, searchRooms(q) PROVE ListTypeOK'
    BY <2>5 DEF searchRooms
  <2>6. CASE SearchSettles
    BY <2>6 DEF SearchSettles
  <2>7. CASE openFilter
    <3>1. /\ draft' = [sort |-> sortBy, types |-> filterTypes, categories |-> filterCategories]
          /\ filterSheet' = TRUE
          /\ UNCHANGED <<shownItems, filterVars, searchVars, view, calendarVars, rangeVars,
                         rates, roomsPageVars>>
      BY <2>7 DEF openFilter
    <3>2. filterSheet' \in BOOLEAN
      BY <3>1, Zenon
    <3> QED
      BY <3>1, <3>2
  <2>8. CASE closeFilter
    <3>1. filterSheet' \in BOOLEAN
      BY <2>8, Zenon DEF closeFilter
    <3> QED
      BY <2>8, <1>e, <3>1 DEF closeFilter
  <2>9. ASSUME NEW d \in [sort : SORT_OPTIONS, types : SUBSET TYPE_OPTIONS,
                          categories : SUBSET Categories], Drafted(d)
        PROVE  ListTypeOK'
    BY <2>9 DEF Drafted
  <2>10. ASSUME NEW s \in SORT_OPTIONS, pickSort(s) PROVE ListTypeOK'
    BY <2>9, <2>10 DEF pickSort
  <2>11. ASSUME NEW t \in TYPE_OPTIONS, toggleType(t) PROVE ListTypeOK'
    BY <2>9, <2>11 DEF toggleType, Toggled
  <2>12. ASSUME NEW c \in Categories, toggleCategory(c) PROVE ListTypeOK'
    BY <2>9, <2>12 DEF toggleCategory, Toggled
  <2>13. CASE handleReset
    BY <2>13, <1>d, <1>e DEF handleReset
  <2>14. CASE handleApply
    <3>1. filterSheet' \in BOOLEAN
      BY <2>14, Zenon DEF handleApply
    <3> QED
      BY <2>14, <1>e, <3>1 DEF handleApply
  <2>15. ASSUME NEW v \in {"dashboard", "calendar", "analytics", "rooms"}, showView(v)
         PROVE  ListTypeOK'
    <3>1. dateRange' \in [from : Int, to : Int] /\ cursor' \in Int
      BY <2>15, <1>d, RangesAreDays DEF showView
    <3>2. debounced' \in ViewQueries \cup {""}
      BY <2>15 DEF showView
    <3> QED
      BY <2>15, <1>d, <3>1, <3>2 DEF showView
  <2>16. ASSUME NEW delta \in {-1, 1}, shiftMonth(delta) PROVE ListTypeOK'
    <3>1. cursor' = cursor + delta
      BY <2>16 DEF shiftMonth
    <3>2. cursor' \in Int
      BY <1>f, <2>a, <3>1
    <3> QED
      BY <2>16, <3>2 DEF shiftMonth
  <2>17. ASSUME NEW d \in Dues \cup {Now}, selectDay(d) PROVE ListTypeOK'
    BY <2>17 DEF selectDay
  <2>18. ASSUME NEW q \in Presets, handlePreset(q) PROVE ListTypeOK'
    BY <2>18, RangesAreDays DEF handlePreset
  <2>19. ASSUME NEW from \in Dues \cup {Now}, NEW to \in Dues \cup {Now},
                handleCustomRange(from, to)
         PROVE  ListTypeOK'
    <3>1. from \in Int /\ to \in Int
      BY <1>c
    <3> QED
      BY <2>19, <3>1 DEF handleCustomRange
  <2>20. ASSUME NEW s \in RoomSorts, setSort(s) PROVE ListTypeOK'
    BY <2>20 DEF setSort
  <2>21. CASE UNCHANGED listVars
    BY <2>21 DEF listVars
  <2> QED
    BY <2>1, <2>2, <2>3, <2>4, <2>5, <2>6, <2>7, <2>8, <2>10, <2>11, <2>12, <2>13, <2>14,
       <2>15, <2>16, <2>17, <2>18, <2>19, <2>20, <2>21 DEF ListNext
<1> QED
  BY <1>1, <1>2, PTL DEF ListSpec

\* The kept positions of a sequence are finitely many.
LEMMA KeptFinite ==
  ASSUME NEW T, NEW seq \in Seq(T), NEW S
  PROVE  /\ DOMAIN seq = 1 .. Len(seq) /\ Len(seq) \in Nat
         /\ Kept(seq, S) \subseteq DOMAIN seq
         /\ IsFiniteSet(Kept(seq, S)) /\ Cardinality(Kept(seq, S)) \in Nat
<1>1. DOMAIN seq = 1 .. Len(seq) /\ Len(seq) \in Nat
  OBVIOUS
<1>2. IsFiniteSet(1 .. Len(seq))
  BY <1>1, FS_Interval
<1>3. Kept(seq, S) \subseteq 1 .. Len(seq)
  BY <1>1 DEF Kept
<1> QED
  BY <1>1, <1>2, <1>3, FS_Subset, FS_CardinalityType

\* What comes before a position: it is none of it, and less than all; what comes
\* before an earlier one comes before it, too.
LEMMA RanksGrow ==
  ASSUME NEW T, NEW seq \in Seq(T), NEW S, NEW key,
         \A i \in Kept(seq, S) : key[seq[i]] \in Int,
         NEW i \in Kept(seq, S), NEW j \in Preceding(seq, S, key, i)
  PROVE  /\ Cardinality(Preceding(seq, S, key, j)) < Cardinality(Preceding(seq, S, key, i))
<1> DEFINE before(k) == Preceding(seq, S, key, k)
<1>1. before(i) \subseteq Kept(seq, S) /\ before(j) \subseteq Kept(seq, S) /\ j \in Kept(seq, S)
  BY DEF Preceding
<1>2. IsFiniteSet(before(i)) /\ IsFiniteSet(before(j))
  BY <1>1, KeptFinite, FS_Subset
<1>3. i \in Nat /\ j \in Nat /\ \A k \in Kept(seq, S) : k \in Nat
  BY <1>1, KeptFinite
<1>4. j \notin before(j)
  BY <1>1, <1>3 DEF Preceding
<1>5. before(j) \cup {j} \subseteq before(i)
  <2>1. ASSUME NEW k \in before(j) PROVE k \in before(i)
    <3>1. k \in Kept(seq, S)
      BY DEF Preceding
    <3>2. /\ key[seq[k]] < key[seq[j]] \/ (key[seq[k]] = key[seq[j]] /\ k < j)
          /\ key[seq[j]] < key[seq[i]] \/ (key[seq[j]] = key[seq[i]] /\ j < i)
      BY DEF Preceding
    <3>3. /\ key[seq[i]] \in Int /\ key[seq[j]] \in Int /\ key[seq[k]] \in Int
          /\ i \in Nat /\ j \in Nat /\ k \in Nat
      BY <1>1, <1>3, <3>1
    <3>4. key[seq[k]] < key[seq[i]] \/ (key[seq[k]] = key[seq[i]] /\ k < i)
      BY <3>2, <3>3
    <3> QED
      BY <3>1, <3>4 DEF Preceding
  <2> QED
    BY <2>1
<1> HIDE DEF before
<1>6. /\ IsFiniteSet(before(j) \cup {j})
      /\ Cardinality(before(j) \cup {j}) = Cardinality(before(j)) + 1
  BY <1>2, <1>4, FS_AddElement
<1>7. Cardinality(before(j) \cup {j}) <= Cardinality(before(i))
  BY <1>2, <1>5, FS_Subset
<1>8. Cardinality(before(i)) \in Nat /\ Cardinality(before(j)) \in Nat
  BY <1>2, FS_CardinalityType
<1>9. Cardinality(before(j)) < Cardinality(before(i))
  BY <1>6, <1>7, <1>8
<1> QED
  BY <1>9 DEF before

\* The position that comes k-th.
At(seq, S, key, k) == CHOOSE i \in Kept(seq, S) : Cardinality(Preceding(seq, S, key, i)) = k - 1

\* Ranks count the kept positions through: each place is taken by one of them.
LEMMA PlacesAreTaken ==
  ASSUME NEW T, NEW seq \in Seq(T), NEW S, NEW key,
         \A i \in Kept(seq, S) : key[seq[i]] \in Int
  PROVE  /\ \A k \in 1 .. Cardinality(Kept(seq, S)) :
               /\ At(seq, S, key, k) \in Kept(seq, S)
               /\ Cardinality(Preceding(seq, S, key, At(seq, S, key, k))) = k - 1
         /\ \A i \in Kept(seq, S) : \E k \in 1 .. Cardinality(Kept(seq, S)) :
               At(seq, S, key, k) = i
<1> DEFINE K == Kept(seq, S)
           n == Cardinality(K)
           before(i) == Preceding(seq, S, key, i)
           rank == [i \in K |-> Cardinality(before(i)) + 1]
<1>1. IsFiniteSet(K) /\ n \in Nat /\ \A i \in K : i \in Nat
  BY KeptFinite
<1>2. ASSUME NEW i \in K PROVE Cardinality(before(i)) \in Nat /\ Cardinality(before(i)) < n
  <2>1. before(i) \subseteq K /\ i \in K /\ i \notin before(i)
    BY <1>1 DEF Preceding
  <2> HIDE DEF before, K
  <2>2. IsFiniteSet(before(i)) /\ Cardinality(before(i)) \in Nat
    BY <1>1, <2>1, FS_Subset, FS_CardinalityType
  <2>3. Cardinality(before(i)) <= n /\ Cardinality(before(i)) # n
    BY <1>1, <2>1, FS_Subset
  <2> QED
    BY <1>1, <2>2, <2>3
<1>3. ASSUME NEW i \in K, NEW j \in K, i # j PROVE rank[i] # rank[j]
  <2>1. i \in before(j) \/ j \in before(i)
    BY <1>1, <1>3 DEF Preceding
  <2>2. /\ i \in before(j) => Cardinality(before(i)) < Cardinality(before(j))
        /\ j \in before(i) => Cardinality(before(j)) < Cardinality(before(i))
    BY RanksGrow
  <2> QED
    BY <1>2, <2>1, <2>2
<1>4. \A i \in K : rank[i] \in 1 .. n
  BY <1>1, <1>2
<1> HIDE DEF before, K, n
<1>5. rank \in Injection(K, 1 .. n)
  BY <1>3, <1>4 DEF Injection, IsInjective
<1>6. IsFiniteSet(1 .. n) /\ Cardinality(1 .. n) = n
  BY <1>1, FS_Interval
<1>7. rank \in Surjection(K, 1 .. n)
  BY <1>5, <1>6, FS_Injection DEF n
<1>8. \A k \in 1 .. n : \E i \in K : Cardinality(before(i)) = k - 1
  <2> SUFFICES ASSUME NEW k \in 1 .. n PROVE \E i \in K : Cardinality(before(i)) = k - 1
    OBVIOUS
  <2>1. PICK i \in K : rank[i] = k
    BY <1>7 DEF Surjection
  <2> QED
    BY <1>1, <1>2, <2>1
<1>9. \A k \in 1 .. n : LET i == At(seq, S, key, k) IN i \in K /\ Cardinality(before(i)) = k - 1
  BY <1>8 DEF At, before, K
<1>10. \A i \in K : \E k \in 1 .. n : At(seq, S, key, k) = i
  <2> SUFFICES ASSUME NEW i \in K PROVE At(seq, S, key, rank[i]) = i
    BY <1>4
  <2> DEFINE j == At(seq, S, key, rank[i])
  <2>1. rank[i] \in 1 .. n /\ rank[i] = Cardinality(before(i)) + 1
    BY <1>4
  <2>2. j \in K /\ Cardinality(before(j)) = rank[i] - 1
    BY <1>9, <2>1
  <2> HIDE DEF j
  <2>3. rank[j] = rank[i]
    BY <1>2, <2>1, <2>2
  <2>4. j = i
    BY <1>3, <2>2, <2>3
  <2> QED
    BY <2>4 DEF j
<1> QED
  BY <1>9, <1>10 DEF before, K, n

\* Rows stored once.
Apart(seq) == \A i, j \in DOMAIN seq : seq[i] = seq[j] => i = j

\* A sequence of different rows has as many rows as elements.
LEMMA ApartIsOnce ==
  ASSUME NEW T, NEW seq \in Seq(T), Apart(seq)
  PROVE  EachOnce(seq)
<1>1. Len(seq) \in Nat /\ DOMAIN seq = 1 .. Len(seq) /\ seq \in [1 .. Len(seq) -> T]
  OBVIOUS
<1> DEFINE E == Elements(seq)
<1>2. seq \in [1 .. Len(seq) -> E]
  BY <1>1 DEF Elements
<1>3. seq \in Surjection(1 .. Len(seq), E)
  BY <1>1, <1>2 DEF Surjection, Elements
<1>4. seq \in Injection(1 .. Len(seq), E)
  BY <1>1, <1>2 DEF Injection, IsInjective, Apart
<1>5. IsFiniteSet(1 .. Len(seq)) /\ Cardinality(1 .. Len(seq)) = Len(seq)
  BY <1>1, FS_Interval
<1> HIDE DEF E
<1>6. Cardinality(E) = Len(seq)
  BY <1>3, <1>4, <1>5, FS_Surjection
<1> QED
  BY <1>6 DEF E, EachOnce

\* What sorting what was filtered returns.
LEMMA SortedRows ==
  ASSUME NEW T, NEW seq \in Seq(T), NEW S, NEW key,
         \A i \in Kept(seq, S) : key[seq[i]] \in Int
  PROVE  /\ Sorted(seq, S, key) \in Seq(T)
         /\ Elements(Sorted(seq, S, key)) = Elements(seq) \cap S
         /\ InOrder(Sorted(seq, S, key), key)
         /\ Apart(seq) => Apart(Sorted(seq, S, key))
         /\ DOMAIN Sorted(seq, S, key) = 1 .. Cardinality(Kept(seq, S))
<1> DEFINE K == Kept(seq, S)
           n == Cardinality(K)
           at(k) == At(seq, S, key, k)
           r == Sorted(seq, S, key)
<1>1. /\ n \in Nat /\ K \subseteq DOMAIN seq /\ \A i \in K : i \in Nat
      /\ \A i \in K : seq[i] \in T /\ seq[i] \in S
  <2>1. n \in Nat /\ K \subseteq DOMAIN seq /\ DOMAIN seq = 1 .. Len(seq) /\ Len(seq) \in Nat
    BY KeptFinite
  <2>2. \A i \in DOMAIN seq : seq[i] \in T
    OBVIOUS
  <2>3. \A i \in K : seq[i] \in S
    BY DEF Kept
  <2> QED
    BY <2>1, <2>2, <2>3
<1>2. \A k \in 1 .. n : at(k) \in K /\ Cardinality(Preceding(seq, S, key, at(k))) = k - 1
  BY PlacesAreTaken
<1>3. \A i \in K : \E k \in 1 .. n : at(k) = i
  BY PlacesAreTaken
<1>4. r = [k \in 1 .. n |-> seq[at(k)]]
  BY DEF Sorted, At
<1> HIDE DEF at, r, n
<1>5. DOMAIN r = 1 .. n /\ \A k \in 1 .. n : r[k] = seq[at(k)]
  BY <1>4
<1>6. r \in Seq(T)
  <2>1. r \in [1 .. n -> T]
    BY <1>1, <1>2, <1>4
  <2> QED
    BY <1>1, <2>1
<1>7. Elements(r) = Elements(seq) \cap S
  <2>1. ASSUME NEW x \in Elements(r) PROVE x \in Elements(seq) \cap S
    BY <1>1, <1>2, <1>5, <2>1 DEF Elements
  <2>2. ASSUME NEW x \in Elements(seq) \cap S PROVE x \in Elements(r)
    <3>1. PICK i \in DOMAIN seq : seq[i] = x
      BY DEF Elements
    <3>2. i \in K
      BY <3>1 DEF Kept
    <3>3. PICK k \in 1 .. n : at(k) = i
      BY <1>3, <3>2
    <3> QED
      BY <1>5, <3>1, <3>3 DEF Elements
  <2> QED
    BY <2>1, <2>2
<1>8. ASSUME NEW k \in 1 .. n, NEW l \in 1 .. n, k < l PROVE key[r[k]] <= key[r[l]]
  <2> SUFFICES ASSUME ~(key[seq[at(k)]] <= key[seq[at(l)]]) PROVE FALSE
    BY <1>5
  <2>1. key[seq[at(k)]] \in Int /\ key[seq[at(l)]] \in Int
    BY <1>2
  <2>2. at(l) \in Preceding(seq, S, key, at(k))
    <3>1. key[seq[at(l)]] < key[seq[at(k)]]
      BY <2>1
    <3> QED
      BY <1>2, <3>1 DEF Preceding
  <2>3. Cardinality(Preceding(seq, S, key, at(l))) < Cardinality(Preceding(seq, S, key, at(k)))
    BY <1>2, <2>2, RanksGrow
  <2>4. l - 1 < k - 1
    BY <1>2, <2>3
  <2> QED
    BY <1>1, <1>8, <2>4
<1>9. InOrder(r, key)
  BY <1>5, <1>8 DEF InOrder
<1>10. ASSUME Apart(seq) PROVE Apart(r)
  <2> SUFFICES ASSUME NEW k \in 1 .. n, NEW l \in 1 .. n, r[k] = r[l] PROVE k = l
    BY <1>5 DEF Apart
  <2>1. at(k) = at(l)
    BY <1>1, <1>2, <1>5, <1>10 DEF Apart
  <2>2. k - 1 = l - 1
    BY <1>2, <2>1
  <2> QED
    BY <1>1, <2>2
<1> QED
  BY <1>5, <1>6, <1>7, <1>9, <1>10 DEF r, n

\* What a filter alone returns.
LEMMA FilteredRows ==
  ASSUME NEW T, NEW seq \in Seq(T), NEW S
  PROVE  /\ Filtered(seq, S) \in Seq(T)
         /\ Elements(Filtered(seq, S)) = Elements(seq) \cap S
         /\ Apart(seq) => Apart(Filtered(seq, S))
<1> DEFINE zero == [s \in S |-> 0]
<1>1. \A i \in Kept(seq, S) : zero[seq[i]] \in Int
  BY DEF Kept
<1> HIDE DEF zero
<1>2. Filtered(seq, S) = Sorted(seq, S, zero)
  BY DEF Filtered, zero
<1> QED
  BY <1>1, <1>2, SortedRows

\* Filters that keep the same rows of a list return the same.
LEMMA SameFilter ==
  ASSUME NEW T, NEW seq \in Seq(T), NEW S, NEW R,
         \A i \in DOMAIN seq : seq[i] \in S /\ seq[i] \in R
  PROVE  Filtered(seq, S) = Filtered(seq, R)
<1> DEFINE zero(Q) == [s \in Q |-> 0]
<1>1. Kept(seq, S) = DOMAIN seq /\ Kept(seq, R) = DOMAIN seq
  BY DEF Kept
<1>2. \A i \in DOMAIN seq : Preceding(seq, S, zero(S), i) = Preceding(seq, R, zero(R), i)
  BY <1>1 DEF Preceding
<1> HIDE DEF zero
<1> DEFINE n == Cardinality(DOMAIN seq)
           atS(k) == At(seq, S, zero(S), k)
           atR(k) == At(seq, R, zero(R), k)
<1>3. /\ Sorted(seq, S, zero(S)) = [k \in 1 .. n |-> seq[atS(k)]]
      /\ Sorted(seq, R, zero(R)) = [k \in 1 .. n |-> seq[atR(k)]]
  BY <1>1 DEF Sorted, At
<1>4. \A k : atS(k) = atR(k)
  BY <1>1, <1>2 DEF At
<1> HIDE DEF n, atS, atR
<1>5. Sorted(seq, S, zero(S)) = Sorted(seq, R, zero(R))
  BY <1>3, <1>4
<1>6. Filtered(seq, S) = Sorted(seq, S, zero(S)) /\ Filtered(seq, R) = Sorted(seq, R, zero(R))
  BY DEF Filtered, zero
<1> QED
  BY <1>5, <1>6

\* What ViewsMatchItems rests on besides the pipelines: no row is stored twice, a chosen
\* day lies in the month on display, a preset's range is the one shown, the rooms are
\* in the stored order, and the filter sheet is over the dashboard.
RowsDiffer     == \A i, j \in DOMAIN shownItems : shownItems[i] = shownItems[j] => i = j
ChosenIsShown  == selectedDate # NoDay => view = "calendar" /\ MonthOf(selectedDate) = cursor
PresetIsShown  == preset # "custom" => dateRange = range(preset)
OrderIsStored  == view = "rooms" => roomSort = storedSort
SheetIsAtHome  == filterSheet => view = "dashboard"

ViewState ==
  /\ ListTypeOK
  /\ RowsDiffer /\ ChosenIsShown /\ PresetIsShown /\ OrderIsStored /\ SheetIsAtHome

\* A row that is not there yet is appended: no row twice.
LEMMA AppendedDiffer ==
  ASSUME NEW T, NEW q \in Seq(T), NEW x \in T, NEW p, p = Append(q, x),
         \A i \in DOMAIN q : q[i] # x,
         \A i, j \in DOMAIN q : q[i] = q[j] => i = j
  PROVE  \A i, j \in DOMAIN p : p[i] = p[j] => i = j
<1>1. Len(q) \in Nat /\ DOMAIN q = 1 .. Len(q) /\ DOMAIN p = 1 .. Len(q) + 1
  OBVIOUS
<1>2. p[Len(q) + 1] = x /\ \A i \in 1 .. Len(q) : p[i] = q[i]
  OBVIOUS
<1>3. \A i \in 1 .. Len(q) + 1 : i \in 1 .. Len(q) \/ i = Len(q) + 1
  BY <1>1
<1> QED
  BY <1>1, <1>2, <1>3

\* A row is taken out: the others keep apart.
LEMMA RemovedDiffer ==
  ASSUME NEW T, NEW q \in Seq(T), NEW k \in DOMAIN q,
         NEW p, p = [j \in 1 .. Len(q) - 1 |-> q[IF j < k THEN j ELSE j + 1]],
         \A i, j \in DOMAIN q : q[i] = q[j] => i = j
  PROVE  \A i, j \in DOMAIN p : p[i] = p[j] => i = j
<1>1. Len(q) \in Nat /\ DOMAIN q = 1 .. Len(q) /\ DOMAIN p = 1 .. Len(q) - 1
  OBVIOUS
<1> DEFINE at(j) == IF j < k THEN j ELSE j + 1
<1>2. \A j \in DOMAIN p : at(j) \in DOMAIN q /\ p[j] = q[at(j)]
  BY <1>1
<1>3. \A i, j \in DOMAIN p : at(i) = at(j) => i = j
  BY <1>1
<1> HIDE DEF at
<1> QED
  BY <1>2, <1>3

\* Every step keeps the views' own state in step with the rows and with each other.
LEMMA ViewStep == ViewState /\ ListTypeOK' /\ [ListNext]_listVars => ViewState'
<1> SUFFICES ASSUME ViewState, ListTypeOK', [ListNext]_listVars PROVE ViewState'
  OBVIOUS
<1> USE DEF filterVars, searchVars, sheetVars, calendarVars, rangeVars, roomsPageVars
<1>t. shownItems \in Seq(Pool)
  BY DEF ViewState, ListTypeOK
<1>1. RowsDiffer'
  <2>1. ASSUME NEW s \in Pool, ItemAdded(s) PROVE RowsDiffer'
    BY <1>t, <2>1, AppendedDiffer DEF ItemAdded, ViewState, RowsDiffer
  <2>2. ASSUME NEW i \in DOMAIN shownItems, ItemRemoved(i) PROVE RowsDiffer'
    BY <1>t, <2>2, RemovedDiffer DEF ItemRemoved, ViewState, RowsDiffer
  <2>3. ASSUME UNCHANGED shownItems PROVE RowsDiffer'
    BY <2>3 DEF ViewState, RowsDiffer
  <2>4. \/ \E s \in Pool : ItemAdded(s)
        \/ \E i \in DOMAIN shownItems : ItemRemoved(i)
        \/ UNCHANGED shownItems
    BY DEF ListNext, fetchRates, setFilter, searchRooms, SearchSettles, openFilter,
       closeFilter, handleReset, handleApply, pickSort, toggleType, toggleCategory,
       Drafted, showView, shiftMonth, selectDay, handlePreset, handleCustomRange,
       setSort, listVars
  <2> QED
    BY <2>1, <2>2, <2>3, <2>4
<1>2. ASSUME NEW v \in {"dashboard", "calendar", "analytics", "rooms"}, showView(v)
      PROVE  ChosenIsShown' /\ PresetIsShown' /\ OrderIsStored' /\ SheetIsAtHome'
  BY <1>2 DEF ViewState, showView, ChosenIsShown, PresetIsShown, OrderIsStored, SheetIsAtHome
<1>3. ASSUME UNCHANGED <<view, calendarVars>>,
             \A v \in {"dashboard", "calendar", "analytics", "rooms"} : ~showView(v)
      PROVE  ChosenIsShown' /\ PresetIsShown' /\ OrderIsStored' /\ SheetIsAtHome'
  <2>1. ChosenIsShown'
    BY <1>3 DEF ViewState, ChosenIsShown
  <2>2. PresetIsShown'
    <3>1. ASSUME NEW p \in Presets, handlePreset(p) PROVE PresetIsShown'
      BY <3>1 DEF handlePreset, PresetIsShown
    <3>2. ASSUME NEW from, NEW to, handleCustomRange(from, to) PROVE PresetIsShown'
      BY <3>2 DEF handleCustomRange, PresetIsShown
    <3>3. ASSUME UNCHANGED rangeVars PROVE PresetIsShown'
      BY <3>3 DEF ViewState, PresetIsShown
    <3> QED
      BY <1>3, <3>1, <3>2, <3>3 DEF ListNext, ItemAdded, ItemRemoved, fetchRates, setFilter,
         searchRooms, SearchSettles, openFilter, closeFilter, handleReset, handleApply,
         pickSort, toggleType, toggleCategory, Drafted, shiftMonth, selectDay, setSort, listVars
  <2>3. OrderIsStored'
    <3>1. UNCHANGED <<roomSort, storedSort>> \/ roomSort' = storedSort'
      BY <1>3 DEF ListNext, ItemAdded, ItemRemoved, fetchRates, setFilter,
         searchRooms, SearchSettles, openFilter, closeFilter, handleReset, handleApply,
         pickSort, toggleType, toggleCategory, Drafted, shiftMonth, selectDay, handlePreset,
         handleCustomRange, setSort, listVars
    <3> QED
      BY <1>3, <3>1 DEF ViewState, OrderIsStored
  <2>4. SheetIsAtHome'
    <3>1. filterSheet' = filterSheet \/ filterSheet' = FALSE \/ (openFilter /\ view = "dashboard")
      BY <1>3 DEF ListNext, ItemAdded, ItemRemoved, fetchRates, setFilter, OnBar,
         searchRooms, SearchSettles, openFilter, closeFilter, handleReset, handleApply,
         pickSort, toggleType, toggleCategory, Drafted, shiftMonth, selectDay, handlePreset,
         handleCustomRange, setSort, listVars
    <3> QED
      BY <1>3, <3>1 DEF ViewState, SheetIsAtHome
  <2> QED
    BY <2>1, <2>2, <2>3, <2>4
<1>4. ASSUME NEW delta \in {-1, 1}, shiftMonth(delta)
      PROVE  ChosenIsShown' /\ PresetIsShown' /\ OrderIsStored' /\ SheetIsAtHome'
  BY <1>4 DEF ViewState, shiftMonth, ChosenIsShown, PresetIsShown, OrderIsStored, SheetIsAtHome
<1>5. ASSUME NEW d \in Dues \cup {Now}, selectDay(d)
      PROVE  ChosenIsShown' /\ PresetIsShown' /\ OrderIsStored' /\ SheetIsAtHome'
  BY <1>5 DEF ViewState, selectDay, ChosenIsShown, PresetIsShown, OrderIsStored, SheetIsAtHome
<1>6. \/ \E v \in {"dashboard", "calendar", "analytics", "rooms"} : showView(v)
      \/ \E delta \in {-1, 1} : shiftMonth(delta)
      \/ \E d \in Dues \cup {Now} : selectDay(d)
      \/ UNCHANGED <<view, calendarVars>>
  BY DEF ListNext, ItemAdded, ItemRemoved, fetchRates, setFilter, searchRooms, SearchSettles,
     openFilter, closeFilter, handleReset, handleApply, pickSort, toggleType, toggleCategory,
     Drafted, handlePreset, handleCustomRange, setSort, listVars
<1> QED
  BY <1>1, <1>2, <1>3, <1>4, <1>5, <1>6 DEF ViewState

\* For any rows, months and histories of the pages: no row is listed twice, and a chosen
\* day, a preset and the rooms' order are those of the view on display.
THEOREM ViewsKeepTheirState == ListSpec => []ViewState
<1>1. ListInit /\ ListTypeOK => ViewState
  <2> SUFFICES ASSUME ListInit, ListTypeOK PROVE ViewState
    OBVIOUS
  <2>1. RowsDiffer
    <3>1. DOMAIN shownItems = {}
      <4>1. shownItems = <<>>
        BY DEF ListInit
      <4>2. DOMAIN <<>> = {}
        OBVIOUS
      <4> QED
        BY <4>1, <4>2
    <3> QED
      BY <3>1 DEF RowsDiffer
  <2> QED
    BY <2>1 DEF ListInit, ViewState, ChosenIsShown, PresetIsShown, OrderIsStored, SheetIsAtHome
<1>2. ListSpec => []ListTypeOK
  BY ListTypeCorrect
<1> QED
  BY <1>1, <1>2, ViewStep, PTL DEF ListSpec

\* What a sequence holds is of its type.
LEMMA RowsAreTyped ==
  ASSUME NEW T, NEW seq \in Seq(T)
  PROVE  \A i \in DOMAIN seq : seq[i] \in T
  OBVIOUS

\* The sort keys of the rows are numbers, and rows are rows.
LEMMA RowKeys ==
  ASSUME ListTypeOK
  PROVE  /\ shownItems \in Seq(Pool) /\ \A i \in DOMAIN shownItems : shownItems[i] \in Pool
         /\ \A S : \A i \in Kept(shownItems, S) : /\ sortKey[shownItems[i]] \in Int
                                                  /\ dueKey[shownItems[i]] \in Int
         /\ \A s \in Pool : dueKey[s] = s.due /\ s.due \in Nat
<1>1. shownItems \in Seq(Pool) /\ \A i \in DOMAIN shownItems : shownItems[i] \in Pool
  BY RowsAreTyped DEF ListTypeOK
<1>2. \A s \in Pool : dueKey[s] = s.due /\ s.due \in Nat /\ s.amount \in Nat /\ s.name \in Nat
  BY ListAssumption DEF dueKey
<1>3. ASSUME NEW s \in Pool PROVE sortKey[s] \in Int
  <2>1. sortKey[s] \in {-s.amount, s.amount, s.name, s.due}
    BY DEF sortKey
  <2>2. -s.amount \in Int /\ s.amount \in Int /\ s.name \in Int /\ s.due \in Int
    BY <1>2
  <2> QED
    BY <2>1, <2>2
<1>4. ASSUME NEW S, NEW i \in Kept(shownItems, S) PROVE shownItems[i] \in Pool
  BY <1>1 DEF Kept
<1> QED
  BY <1>1, <1>2, <1>3, <1>4

\* The dashboard.
LEMMA DashboardShowsAll == ViewState => DashboardTrue
<1> SUFFICES ASSUME ViewState, view = "dashboard", debounced = query PROVE DashboardTrue
  BY DEF DashboardTrue
<1> DEFINE S == {s \in Pool : /\ debounced = "" \/ debounced \in s.words
                              /\ filterCategories = {} \/ s.tag \in filterCategories}
           shown == filteredSubscriptions
<1>0. ListTypeOK /\ Apart(shownItems)
  BY DEF ViewState, RowsDiffer, Apart
<1>1. CASE ~showSubscriptions
  <2>1. shown = <<>> /\ hasActiveFilters
    BY <1>1 DEF filteredSubscriptions, showSubscriptions, hasActiveFilters
  <2>2. EachOnce(<<>>) /\ \A key : InOrder(<<>>, key)
    <3>1. DOMAIN <<>> = {} /\ Len(<<>>) = 0
      OBVIOUS
    <3>2. Elements(<<>>) = {}
      BY <3>1 DEF Elements
    <3> QED
      BY <3>1, <3>2, FS_EmptySet DEF EachOnce, InOrder
  <2> QED
    BY <1>1, <2>1, <2>2 DEF DashboardTrue
<1>2. CASE showSubscriptions
  <2>1. shown = Sorted(shownItems, S, sortKey)
    BY <1>2 DEF filteredSubscriptions
  <2>2. /\ shown \in Seq(Pool) /\ Elements(shown) = Elements(shownItems) \cap S
        /\ InOrder(shown, sortKey) /\ Apart(shown)
    BY <1>0, <2>1, RowKeys, SortedRows
  <2>3. EachOnce(shown)
    BY <2>2, ApartIsOnce
  <2>4. \A s \in Elements(shownItems) : s \in Pool
    BY <1>0, RowKeys DEF Elements
  <2>5. Elements(shown) =
          {s \in Elements(shownItems) : /\ query = "" \/ query \in s.words
                                        /\ filterCategories = {} \/ s.tag \in filterCategories}
    BY <2>2, <2>4
  <2>6. ~hasActiveFilters /\ query = "" => Elements(shown) = Elements(shownItems)
    BY <2>5 DEF hasActiveFilters
  <2> QED
    BY <2>2, <2>3, <2>5, <2>6 DEF DashboardTrue
<1> QED
  BY <1>1, <1>2

\* The calendar.
LEMMA CalendarListsTheMonth == ViewState => CalendarTrue
<1> SUFFICES ASSUME ViewState, view = "calendar" PROVE CalendarTrue
  BY DEF CalendarTrue
<1> DEFINE Rows == Elements(shownItems)
           Month == {s \in Pool : MonthOf(s.due) = cursor}
           Cell(d) == {s \in Pool : MonthOf(s.due) = cursor /\ s.due = d}
           OnDay == {s \in Pool : s.due = selectedDate}
<1>0. ListTypeOK /\ Apart(shownItems) /\ ChosenIsShown /\ shownItems \in Seq(Pool)
  BY RowKeys DEF ViewState, RowsDiffer, Apart
<1>1. \A d : Elements(billsByDay(d)) = Rows \cap Cell(d)
  BY <1>0, FilteredRows DEF billsByDay
<1>2. CASE selectedDate = NoDay
  <2>1. calendarList = Sorted(shownItems, Month, dueKey)
    BY <1>2 DEF calendarList
  <2>2. /\ calendarList \in Seq(Pool) /\ Elements(calendarList) = Rows \cap Month
        /\ InOrder(calendarList, dueKey) /\ Apart(calendarList)
    BY <1>0, <2>1, RowKeys, SortedRows
  <2>3. EachOnce(calendarList)
    BY <2>2, ApartIsOnce
  <2>4. Rows \cap Month = UNION {Elements(billsByDay(d)) : d \in Dues}
    BY <1>1 DEF Dues
  <2> QED
    BY <1>2, <2>2, <2>3, <2>4 DEF CalendarTrue
<1>3. CASE selectedDate # NoDay
  <2>1. calendarList = Filtered(shownItems, OnDay)
    BY <1>3 DEF calendarList
  <2>2. /\ calendarList \in Seq(Pool) /\ Elements(calendarList) = Rows \cap OnDay
        /\ Apart(calendarList)
    BY <1>0, <2>1, FilteredRows
  <2>3. EachOnce(calendarList)
    BY <2>2, ApartIsOnce
  <2>4. OnDay = Cell(selectedDate)
    BY <1>0, <1>3 DEF ChosenIsShown
  <2>5. Elements(calendarList) = UNION {Elements(billsByDay(d)) : d \in {selectedDate}}
    BY <1>1, <2>2, <2>4
  <2>6. \A s \in Elements(calendarList) : MonthOf(s.due) = cursor
    BY <2>2, <2>4
  <2>7. \A i \in DOMAIN calendarList : dueKey[calendarList[i]] = selectedDate
    BY <2>2, RowKeys, <1>0 DEF Elements
  <2>8. InOrder(calendarList, dueKey)
    <3>1. selectedDate \in Int
      <4>1. NoDay \in Int /\ Now \in Int /\ \A d \in Dues : d \in Int
        BY ListAssumption DEF NoDay, Dues
      <4> QED
        BY <1>0, <4>1 DEF ListTypeOK
    <3> QED
      BY <2>7, <3>1 DEF InOrder
  <2> QED
    BY <1>3, <2>3, <2>5, <2>6, <2>8 DEF CalendarTrue
<1> QED
  BY <1>2, <1>3

\* The analytics.
LEMMA AnalyticsAddUp == ViewState => AnalyticsTrue
<1> SUFFICES ASSUME ViewState, view = "analytics" PROVE AnalyticsTrue
  BY DEF AnalyticsTrue
<1>0. ListTypeOK /\ Apart(shownItems) /\ PresetIsShown /\ shownItems \in Seq(Pool)
  BY RowKeys DEF ViewState, RowsDiffer, Apart
<1>1. ASSUME preset = "all",
             \A s \in Elements(shownItems) : ~s.trial /\ s.due <= Now + 60 * MonthLength
      PROVE  Total(analysed) = totalMonthly
  <2> DEFINE Paid == {s \in Pool : ~s.trial}
  <2>1. dateRange.from = 0 /\ dateRange.to = Now + 60 * MonthLength
    BY <1>0, <1>1 DEF PresetIsShown, range
  <2>2. Now + 60 * MonthLength \in Int
    BY ListAssumption
  <2>3. ASSUME NEW i \in DOMAIN shownItems PROVE shownItems[i] \in InRange /\ shownItems[i] \in Paid
    <3>1. shownItems[i] \in Pool /\ shownItems[i].due \in Nat
      BY <1>0, RowKeys
    <3>2. ~shownItems[i].trial /\ shownItems[i].due <= Now + 60 * MonthLength
      BY <1>1 DEF Elements
    <3>3. shownItems[i].due \in dateRange.from .. dateRange.to
      BY <2>1, <2>2, <3>1, <3>2
    <3> QED
      BY <3>1, <3>2, <3>3 DEF InRange
  <2>4. Filtered(shownItems, InRange) = Filtered(shownItems, Paid)
    BY <1>0, <2>3, SameFilter
  <2> QED
    BY <2>4 DEF analysed, totalMonthly
<1> DEFINE sorted == Sorted(shownItems, InRange, dueKey)
           n == Cardinality(Kept(shownItems, InRange))
           m == IF n < 4 THEN n ELSE 4
<1>2. /\ sorted \in Seq(Pool) /\ Elements(sorted) = Elements(shownItems) \cap InRange
      /\ InOrder(sorted, dueKey) /\ Apart(sorted) /\ DOMAIN sorted = 1 .. n
  BY <1>0, RowKeys, SortedRows
<1>3. n \in Nat /\ m \in Nat /\ m <= n /\ m <= 4 /\ (m < n => m = 4)
  BY <1>0, KeptFinite
<1>4. upcoming = [k \in DOMAIN sorted \cap 1 .. 4 |-> sorted[k]]
  BY DEF upcoming
<1> HIDE DEF sorted, n
<1>5. DOMAIN upcoming = 1 .. m /\ \A k \in 1 .. m : upcoming[k] = sorted[k] /\ k \in DOMAIN sorted
  <2>1. (1 .. n) \cap (1 .. 4) = 1 .. m
    BY <1>3
  <2> QED
    BY <1>2, <1>3, <1>4, <2>1
<1> HIDE DEF m
<1>6. upcoming \in Seq(Pool) /\ Len(upcoming) = m
  <2>1. \A k \in 1 .. m : upcoming[k] \in Pool
    BY <1>2, <1>5, RowsAreTyped
  <2>2. upcoming = [k \in 1 .. m |-> upcoming[k]]
    BY <1>4, <1>5
  <2>3. upcoming \in [1 .. m -> Pool]
    BY <2>1, <2>2
  <2> QED
    BY <1>3, <1>5, <2>3
<1>7. Apart(upcoming) /\ InOrder(upcoming, dueKey)
  <2>1. Apart(upcoming)
    BY <1>2, <1>5 DEF Apart
  <2>2. InOrder(upcoming, dueKey)
    BY <1>2, <1>5 DEF InOrder
  <2> QED
    BY <2>1, <2>2
<1>8. EachOnce(upcoming)
  BY <1>6, <1>7, ApartIsOnce
<1>9. ASSUME NEW s \in Elements(analysed) \ Elements(upcoming)
      PROVE  Len(upcoming) = 4 /\ \A u \in Elements(upcoming) : u.due <= s.due
  <2>1. Elements(analysed) = Elements(sorted)
    BY <1>0, <1>2, FilteredRows DEF analysed
  <2>2. PICK k \in DOMAIN sorted : sorted[k] = s
    BY <2>1 DEF Elements
  <2>3. k \notin 1 .. m
    BY <1>5, <2>2 DEF Elements
  <2>4. k \in 1 .. n /\ m < k /\ m = 4
    BY <1>2, <1>3, <2>3
  <2>5. ASSUME NEW u \in Elements(upcoming) PROVE u.due <= s.due
    <3>1. PICK l \in 1 .. m : sorted[l] = u
      BY <1>5 DEF Elements
    <3>2. l \in DOMAIN sorted /\ l < k
      BY <1>3, <1>5, <2>4
    <3>3. dueKey[sorted[l]] <= dueKey[sorted[k]]
      BY <1>2, <2>2, <3>2 DEF InOrder
    <3>4. sorted[l] \in Pool /\ sorted[k] \in Pool
      BY <1>2, <2>2, <3>2, RowsAreTyped
    <3> QED
      BY <1>0, <2>2, <3>1, <3>3, <3>4, RowKeys
  <2> QED
    BY <1>6, <2>4, <2>5
<1> QED
  BY <1>1, <1>7, <1>8, <1>9 DEF AnalyticsTrue

\* The rooms page.
LEMMA RoomsAreAllShown == ViewState => RoomsTrue
<1> SUFFICES ASSUME ViewState, view = "rooms" PROVE RoomsTrue
  BY DEF RoomsTrue
<1>1. roomSort = storedSort
  BY DEF ViewState, OrderIsStored
<1>2. ASSUME NEW all \in RoomLists
      PROVE  /\ roomQuery = "" => Elements(filteredRooms(all)) = RoomPool
             /\ EachOnce(filteredRooms(all)) /\ InOrder(filteredRooms(all), roomKey)
  <2> DEFINE n == Cardinality(RoomPool)
             S == {r \in RoomPool : roomQuery = "" \/ roomQuery \in r.words}
             shown == filteredRooms(all)
  <2>1. IsFiniteSet(RoomPool) /\ n \in Nat
    BY ListAssumption, FS_CardinalityType
  <2> HIDE DEF n
  <2>2. all \in [1 .. n -> RoomPool] /\ all \in Seq(RoomPool) /\ Apart(all)
    BY <2>1 DEF RoomLists, Apart, n
  <2>3. Elements(all) = RoomPool
    <3>1. all \in Injection(1 .. n, RoomPool)
      BY <2>2 DEF Injection, IsInjective, Apart
    <3>2. Cardinality(1 .. n) = n
      BY <2>1, FS_Interval
    <3>3. all \in Surjection(1 .. n, RoomPool)
      BY <2>1, <3>1, <3>2, FS_Injection DEF n
    <3> QED
      BY <2>2, <3>3 DEF Surjection, Elements
  <2>4. ASSUME NEW r \in RoomPool PROVE roomKey[r] \in Int
    <3>1. r.name \in Nat /\ r.members \in Nat /\ r.cost \in Nat
      BY ListAssumption
    <3>2. roomKey[r] \in {r.name, -r.members, -r.cost}
      BY DEF roomKey
    <3>3. r.name \in Int /\ -r.members \in Int /\ -r.cost \in Int
      BY <3>1
    <3> QED
      BY <3>2, <3>3
  <2>5. \A i \in Kept(all, S) : roomKey[all[i]] \in Int
    BY <2>2, <2>4 DEF Kept
  <2>6. shown = Sorted(all, S, roomKey)
    BY DEF filteredRooms
  <2> HIDE DEF shown
  <2>7. /\ shown \in Seq(RoomPool) /\ Elements(shown) = Elements(all) \cap S
        /\ InOrder(shown, roomKey) /\ Apart(shown)
    BY <2>2, <2>5, <2>6, SortedRows
  <2>8. EachOnce(shown)
    BY <2>7, ApartIsOnce
  <2>9. roomQuery = "" => Elements(shown) = RoomPool
    BY <2>3, <2>7
  <2> QED
    BY <2>7, <2>8, <2>9 DEF shown
<1> QED
  BY <1>1, <1>2 DEF RoomsTrue

\* Whatever is added, removed, searched, filtered, sorted and shown in any order, for any
\* number of rows: every view lists what the store holds of it, each row once and in order,
\* and the analytics add up.
THEOREM ViewsShowTheRows == ListSpec => []ViewsMatchItems
<1>1. ViewState => ViewsMatchItems
  BY DashboardShowsAll, CalendarListsTheMonth, AnalyticsAddUp, RoomsAreAllShown DEF ViewsMatchItems
<1> QED
  BY <1>1, ViewsKeepTheirState, PTL
=============================================================================
