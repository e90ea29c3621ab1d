------------------------------- MODULE Pages -------------------------------
(***************************************************************************)
(* The shell of the client: what the root component renders, the two       *)
(* routes, the dashboard's tabs, the sheets of modalStore, the free-tier   *)
(* gate in front of them and Telegram's back button, whose handlers are a  *)
(* stack that an effect of the dashboard pushes on and pops from.          *)
(***************************************************************************)
EXTENDS Naturals, Sequences, FiniteSets

CONSTANTS FreeSubs, FreeRooms,  \* limits in the paywall config
          MaxItems              \* bound: subscriptions, and rooms

ASSUME PagesAssumption ==
    /\ FreeSubs \in Nat /\ FreeRooms \in Nat \ {0} /\ MaxItems \in Nat

VARIABLES mode,             \* what RootComponent and its boundary show
          page, tab,
          loading, pending, \* the skeleton, the boot requests it waits for
          addSub,           \* addSubOpen and what it edits
          createOpen, roomOpen, filterOpen,
          premium,          \* premiumOpen of the page's own PremiumSheet
          slide, onboarded, \* OnboardingSheet (0 when closed), localStorage
          subs, rooms,      \* lengths of the two lists
          gated, subscribed,
          link,             \* the room the app was started for
          stack, ran        \* back-button handlers; what the effect last saw

sheets == <<addSub, createOpen, roomOpen, filterOpen>>
boot == <<loading, pending>>
intro == <<slide, onboarded>>
counts == <<subs, rooms>>
backVars == <<stack, ran>>
pagesVars == <<mode, page, tab, boot, sheets, premium, intro, counts, gated,
               subscribed, link, backVars>>

Tabs == {"dashboard", "calendar", "analytics", "settings"}
BootRequests == {"rooms", "config"}
Slides == 3
Unmounted == [mounted |-> FALSE, visible |-> FALSE, add |-> FALSE,
              create |-> FALSE, room |-> FALSE, sub |-> FALSE]

PagesInit ==
    /\ mode = "app" /\ page = "home" /\ tab = "dashboard"
    /\ loading = TRUE /\ pending = BootRequests
    /\ addSub = "closed" /\ premium = FALSE
    /\ createOpen = FALSE /\ roomOpen = FALSE /\ filterOpen = FALSE
    /\ onboarded \in BOOLEAN /\ slide = IF onboarded THEN 0 ELSE 1
    /\ subs = 0 /\ rooms = 0
    /\ gated = FALSE /\ subscribed = FALSE
    /\ link \in {"none", "pending"}
    /\ stack = <<>> /\ ran = Unmounted

-----------------------------------------------------------------------------
(* Telegram's back button.                                                 *)
Mounted == mode = "app" /\ page = "home"
Deps ==
    IF Mounted
    THEN [mounted |-> TRUE,
          visible |-> tab # "dashboard" \/ addSub # "closed" \/ roomOpen
                      \/ createOpen,
          add |-> addSub # "closed", create |-> createOpen, room |-> roomOpen,
          sub |-> tab # "dashboard"]
    ELSE Unmounted

showBackButton(s, handler) == Append(s, handler)
hideBackButtonKeeps(s) == s   \* mutant: the handler is not popped
hideBackButton(s) == IF s = <<>> THEN s ELSE SubSeq(s, 1, Len(s) - 1)

(* useTelegramBackButton's effect: the cleanup of the last run, then       *)
(* this run.  handleBack is a new closure whenever one of Deps changed.    *)
RunBackEffect ==
    /\ ran # Deps
    /\ LET cleaned == IF ran.visible THEN hideBackButton(stack) ELSE stack IN
       stack' = CASE Deps.visible -> showBackButton(cleaned, Deps)
                  [] Deps.mounted /\ ~Deps.visible -> hideBackButton(cleaned)
                  [] OTHER -> cleaned
    /\ ran' = Deps
    /\ UNCHANGED <<mode, page, tab, boot, sheets, premium, intro, counts,
                   gated, subscribed, link>>

(* The closure on top acts on what it captured, not on what is open now.   *)
handleBackAll(h) ==   \* mutant: no else between the layers
    /\ addSub' = IF h.add THEN "closed" ELSE addSub
    /\ createOpen' = (createOpen /\ ~h.create)
    /\ roomOpen' = (roomOpen /\ ~h.room)
    /\ tab' = IF h.sub THEN "dashboard" ELSE tab

handleBack(h) ==
    /\ addSub' = IF h.add THEN "closed" ELSE addSub
    /\ createOpen' = (createOpen /\ (h.add \/ ~h.create))
    /\ roomOpen' = (roomOpen /\ (h.add \/ h.create \/ ~h.room))
    /\ tab' = IF h.sub /\ ~h.add /\ ~h.create /\ ~h.room
              THEN "dashboard" ELSE tab

BackPressed ==
    /\ stack # <<>>
    /\ handleBack(stack[Len(stack)])
    /\ UNCHANGED <<mode, page, boot, filterOpen, premium, intro, counts, gated,
                   subscribed, link, backVars>>

-----------------------------------------------------------------------------
(* Boot: the skeleton lifts when both requests settled, however they did.  *)
BootSettles(r, on) ==
    /\ Mounted /\ r \in pending
    /\ pending' = pending \ {r}
    /\ loading' = (pending' # {})
    /\ gated' = (gated \/ (r = "config" /\ on))
    /\ UNCHANGED <<mode, page, tab, sheets, premium, intro, counts, subscribed,
                   link, backVars>>

ListsArrive(s, r) ==
    /\ mode = "app" /\ subs = 0 /\ rooms = 0 /\ s + r > 0
    /\ subs' = s /\ rooms' = r
    /\ UNCHANGED <<mode, page, tab, boot, sheets, premium, intro, gated,
                   subscribed, link, backVars>>

ProfileTellsPremium ==
    /\ mode = "app" /\ ~subscribed
    /\ subscribed' = TRUE
    /\ UNCHANGED <<mode, page, tab, boot, sheets, premium, intro, counts,
                   gated, link, backVars>>

-----------------------------------------------------------------------------
(* What is under a sheet cannot be tapped.                                 *)
Clear == /\ mode = "app" /\ addSub = "closed" /\ ~createOpen /\ ~roomOpen
         /\ ~filterOpen /\ ~premium /\ slide = 0
OnHome == Clear /\ page = "home"
OnList == OnHome /\ tab = "dashboard" /\ ~loading

AtLimit(count, limit) == gated /\ ~subscribed /\ count >= limit
Rest == UNCHANGED <<mode, page, tab, boot, intro, counts, gated, subscribed,
                    link, backVars>>

handleTabChange(t) ==
    /\ OnHome /\ t # tab
    /\ tab' = t
    /\ UNCHANGED <<mode, page, boot, sheets, premium, intro, counts, gated,
                   subscribed, link, backVars>>

(* The plus of the tab bar, or the empty dashboard's button.               *)
openAdd ==
    /\ OnHome
    /\ IF AtLimit(subs, FreeSubs)
       THEN premium' = TRUE /\ UNCHANGED addSub
       ELSE addSub' = "new" /\ UNCHANGED premium
    /\ UNCHANGED <<createOpen, roomOpen, filterOpen>> /\ Rest

(* A card of the list or of the calendar.                                  *)
openEdit ==
    /\ OnHome /\ ~loading /\ tab \in {"dashboard", "calendar"} /\ subs > 0
    /\ addSub' = "edit"
    /\ UNCHANGED <<createOpen, roomOpen, filterOpen, premium>> /\ Rest

closeAddSub(saved) ==
    /\ mode = "app" /\ addSub # "closed"
    /\ subs' = IF saved /\ addSub = "new" /\ subs < MaxItems
               THEN subs + 1 ELSE subs
    /\ addSub' = "closed"
    /\ UNCHANGED <<mode, page, tab, boot, createOpen, roomOpen, filterOpen,
                   premium, intro, rooms, gated, subscribed, link, backVars>>

handleDelete ==
    /\ OnList /\ subs > 0
    /\ subs' = subs - 1
    /\ UNCHANGED <<mode, page, tab, boot, sheets, premium, intro, rooms, gated,
                   subscribed, link, backVars>>

ToggleFilter ==
    /\ mode = "app" /\ (filterOpen \/ (OnList /\ subs > 0))
    /\ filterOpen' = ~filterOpen
    /\ UNCHANGED <<addSub, createOpen, roomOpen, premium>> /\ Rest

handleOpenRoom ==
    /\ (OnList \/ (Clear /\ page = "rooms")) /\ rooms > 0
    /\ roomOpen' = TRUE
    /\ UNCHANGED <<addSub, createOpen, filterOpen, premium>> /\ Rest

(* The invitation in the start parameter, or a reminder's link, opens its  *)
(* room whatever else is open by then, or fails to.  The parameter is read *)
(* once per mount of the dashboard.                                        *)
LinkHandled(opened) ==
    /\ Mounted /\ link = "pending"
    /\ link' = "handled"
    /\ roomOpen' = (roomOpen \/ opened)
    /\ UNCHANGED <<mode, page, tab, boot, addSub, createOpen, filterOpen,
                   premium, intro, counts, gated, subscribed, backVars>>

closeRoom ==
    /\ mode = "app" /\ roomOpen
    /\ roomOpen' = FALSE
    /\ UNCHANGED <<addSub, createOpen, filterOpen, premium>> /\ Rest

GatedCreate ==
    /\ IF AtLimit(rooms, FreeRooms)
       THEN premium' = TRUE /\ UNCHANGED createOpen
       ELSE createOpen' = TRUE /\ UNCHANGED premium
    /\ UNCHANGED <<addSub, roomOpen, filterOpen>> /\ Rest

handleCreateRoom == OnList /\ GatedCreate
RoomsPageCreate == Clear /\ page = "rooms" /\ GatedCreate

(* The empty rooms page offers it without asking.                          *)
EmptyPageCreate ==
    /\ Clear /\ page = "rooms" /\ rooms = 0
    /\ createOpen' = TRUE
    /\ UNCHANGED <<addSub, roomOpen, filterOpen, premium>> /\ Rest

closeCreateRoom(saved) ==
    /\ mode = "app" /\ createOpen
    /\ rooms' = IF saved /\ rooms < MaxItems THEN rooms + 1 ELSE rooms
    /\ createOpen' = FALSE
    /\ UNCHANGED <<mode, page, tab, boot, addSub, roomOpen, filterOpen,
                   premium, intro, subs, gated, subscribed, link, backVars>>

ClosePremium ==
    /\ mode = "app" /\ premium
    /\ premium' = FALSE
    /\ UNCHANGED sheets /\ Rest

-----------------------------------------------------------------------------
(* A dashboard that mounts starts over; the sheets are the root's.         *)
MountHome ==
    /\ tab' = "dashboard" /\ loading' = TRUE /\ pending' = BootRequests
    /\ slide' = IF onboarded THEN 0 ELSE 1
    /\ link' = IF link = "none" THEN "none" ELSE "pending"
    /\ premium' = FALSE

handleViewAllRooms ==
    /\ OnList
    /\ page' = "rooms"
    /\ UNCHANGED <<mode, tab, boot, sheets, premium, intro, counts, gated,
                   subscribed, link, backVars>>

LeaveRooms ==
    /\ Clear /\ page = "rooms"
    /\ page' = "home"
    /\ MountHome
    /\ UNCHANGED <<mode, sheets, onboarded, counts, gated, subscribed,
                   backVars>>

(* OnboardingSheet: Next up to the last slide, Skip or a swipe ends it;    *)
(* with localStorage refused it comes back with the next mount.            *)
NextSlide ==
    /\ mode = "app" /\ page = "home" /\ slide \in 1 .. Slides - 1
    /\ slide' = slide + 1
    /\ UNCHANGED <<mode, page, tab, boot, sheets, premium, onboarded, counts,
                   gated, subscribed, link, backVars>>

finish(stored) ==
    /\ mode = "app" /\ page = "home" /\ slide > 0
    /\ slide' = 0 /\ onboarded' = (onboarded \/ stored)
    /\ UNCHANGED <<mode, page, tab, boot, sheets, premium, counts, gated,
                   subscribed, link, backVars>>

-----------------------------------------------------------------------------
(* An answer with 403 account_banned or 503 maintenance_mode, or a render  *)
(* that throws, takes the whole app off the screen; being banned wins.     *)
Replaced(by) ==
    /\ \/ by \in {"maintenance", "crashed"} /\ mode = "app"
       \/ by = "banned" /\ mode # "banned"
    /\ mode' = by
    /\ UNCHANGED <<page, tab, boot, sheets, premium, intro, counts, gated,
                   subscribed, link, backVars>>

TryAgain ==
    /\ mode = "crashed"
    /\ mode' = "app"
    /\ IF page = "home"
       THEN MountHome
       ELSE premium' = FALSE /\ UNCHANGED <<tab, boot, slide, link>>
    /\ UNCHANGED <<page, sheets, onboarded, counts, gated, subscribed,
                   backVars>>

PagesNext ==
    \/ RunBackEffect \/ BackPressed
    \/ \E r \in BootRequests, on \in BOOLEAN : BootSettles(r, on)
    \/ \E s, r \in 0 .. MaxItems : ListsArrive(s, r)
    \/ ProfileTellsPremium
    \/ \E t \in Tabs : handleTabChange(t)
    \/ openAdd \/ openEdit \/ handleDelete \/ ToggleFilter
    \/ \E saved \in BOOLEAN : closeAddSub(saved) \/ closeCreateRoom(saved)
    \/ handleOpenRoom \/ closeRoom
    \/ \E opened \in BOOLEAN : LinkHandled(opened)
    \/ handleCreateRoom \/ RoomsPageCreate \/ EmptyPageCreate \/ ClosePremium
    \/ handleViewAllRooms \/ LeaveRooms
    \/ NextSlide \/ \E stored \in BOOLEAN : finish(stored)
    \/ \E by \in {"banned", "maintenance", "crashed"} : Replaced(by)
    \/ TryAgain

PagesSpec == PagesInit /\ [][PagesNext]_pagesVars

-----------------------------------------------------------------------------
Handlers == [mounted : BOOLEAN, visible : BOOLEAN, add : BOOLEAN,
             create : BOOLEAN, room : BOOLEAN, sub : BOOLEAN]
PagesTypeOK ==
    /\ mode \in {"app", "banned", "maintenance", "crashed"}
    /\ page \in {"home", "rooms"} /\ tab \in Tabs
    /\ loading \in BOOLEAN /\ pending \subseteq BootRequests
    /\ addSub \in {"closed", "new", "edit"} /\ premium \in BOOLEAN
    /\ createOpen \in BOOLEAN /\ roomOpen \in BOOLEAN /\ filterOpen \in BOOLEAN
    /\ slide \in 0 .. Slides /\ onboarded \in BOOLEAN
    /\ subs \in 0 .. MaxItems /\ rooms \in 0 .. MaxItems
    /\ gated \in BOOLEAN /\ subscribed \in BOOLEAN
    /\ link \in {"none", "pending", "handled"}
    /\ stack \in Seq(Handlers) /\ ran \in Handlers

(* The back button shows exactly while there is something to go back from, *)
(* with the one handler made for what is open: no handler of a dashboard   *)
(* that was replaced, left or rendered again stays behind.                 *)
BackButtonMatches ==
    ran = Deps => stack = IF Deps.visible THEN <<Deps>> ELSE <<>>

(* With its effect run, a press goes back one layer and one only.          *)
Layers == {l \in {"add", "create", "room", "sub"} :
             CASE l = "add" -> addSub # "closed" [] l = "create" -> createOpen
               [] l = "room" -> roomOpen [] OTHER -> tab # "dashboard"}
BackPeelsOne ==
    [][BackPressed /\ ran = Deps
         => /\ Layers' \subseteq Layers
            /\ Cardinality(Layers \ Layers') = 1]_pagesVars
=============================================================================
