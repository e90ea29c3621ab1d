------------------------------- MODULE MCPages -------------------------------
(* The pages of the client: the shell with its sheets and back button, the *)
(* settings, the premium sheet, a swipeable card, and the views of the     *)
(* subscriptions.  As modelled they share no state, so one of them is      *)
(* played per behaviour and the run is the sum of the five.                *)
EXTENDS Pages, SettingsClient, PremiumCheckout, SwipeCard, DashboardList

VARIABLE played

pageVariables == <<pagesVars, settingsVars, checkoutVars, swipeVars, listVars>>

MCInit ==
    /\ PagesInit /\ SettingsInit /\ CheckoutInit /\ SwipeInit /\ ListInit
    /\ played \in {"shell", "settings", "checkout", "card", "list"}
    /\ played # "shell" => onboarded /\ link = "none"
    /\ played # "settings" => server["timezone"] = "UTC"
    /\ played # "list" => storedSort = "name"

Play(part) ==
    /\ played = part /\ UNCHANGED played
    /\ part # "shell" => UNCHANGED pagesVars
    /\ part # "settings" => UNCHANGED settingsVars
    /\ part # "checkout" => UNCHANGED checkoutVars
    /\ part # "card" => UNCHANGED swipeVars
    /\ part # "list" => UNCHANGED listVars

MCNext ==
    \/ Play("shell") /\ PagesNext
    \/ Play("settings") /\ SettingsNext
    \/ Play("checkout") /\ CheckoutNext
    \/ Play("card") /\ SwipeNext
    \/ Play("list") /\ ListNext

MCSpec == MCInit /\ [][MCNext]_<<pageVariables, played>>

(* The values played with.                                                 *)
SwipeTravels == {-100, 0, 8, 40, 100}
Sub(n, a, c, d, p, t, w) ==
    [name |-> n, amount |-> a, currency |-> c, due |-> d, period |-> p,
     trial |-> t, tag |-> IF n = 1 THEN "music" ELSE "work", words |-> w]
ListPool == {Sub(1, 12, "usd", 95, "monthly", FALSE, {"ab"}),
             Sub(2, 100, "eur", 105, "yearly", FALSE, {}),
             Sub(3, 12, "usd", 125, "weekly", TRUE, {"ab"})}
ListRates == [c \in {"usd", "eur"} |-> IF c = "usd" THEN 1 ELSE 3]
ListStatic == [c \in {"usd", "eur"} |-> IF c = "usd" THEN 1 ELSE 2]
ListRooms == {[name |-> 1, members |-> 2, cost |-> 5, words |-> {"ab"}],
              [name |-> 2, members |-> 3, cost |-> 5, words |-> {}]}
=============================================================================
