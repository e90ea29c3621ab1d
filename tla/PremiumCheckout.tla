--------------------------- MODULE PremiumCheckout ---------------------------
(***************************************************************************)
(* PremiumSheet.  Stars: POST, Telegram's own invoice sheet, a callback or *)
(* a timeout, then the profile.  Crypto: POST, a link out of the app, and  *)
(* the sheet waits for focus or one timer to read the profile.  A flow is  *)
(* an async function: it goes on when the sheet is closed, and its last    *)
(* steps write the flags of whatever opening of the sheet there is then.   *)
(***************************************************************************)
EXTENDS Naturals, FiniteSets

CONSTANTS MaxFlows,     \* bound: payments begun
          MaxOpenings   \* bound: openings of the sheet

ASSUME CheckoutAssumption == MaxFlows \in Nat /\ MaxOpenings \in Nat

VARIABLES checkoutOpen, openings,
          plan,                         \* selectedPlan
          loadingStars, loadingCrypto,
          awaiting, timer,              \* awaitingCryptoReturn, the 5 s timer
          flows,                        \* payments under way
          begun,
          donor,                        \* isSubscribed in the store
          charged, entitled,            \* paid but not handled; handled
          leftOver                      \* history: closed over a payment awaited

flagVars == <<loadingStars, loadingCrypto, awaiting, timer>>
openVars == <<checkoutOpen, openings>>
flowVars == <<flows, begun>>
paidVars == <<charged, entitled>>
checkoutVars == <<openVars, plan, flagVars, flowVars, donor, paidVars, leftOver>>

Plans == {"month", "lifetime"}
Flows == [n : 1 .. MaxFlows, kind : {"stars"}, plan : Plans,
          phase : {"posting", "invoice", "charged", "profile", "pending"}]
         \cup [n : 1 .. MaxFlows, kind : {"crypto"}, plan : Plans,
               phase : {"posting", "linked", "paid"}]

CheckoutInit ==
    /\ checkoutOpen = FALSE /\ openings = 0 /\ plan = "lifetime"
    /\ loadingStars = FALSE /\ loadingCrypto = FALSE
    /\ awaiting = FALSE /\ timer = FALSE
    /\ flows = {} /\ begun = 0
    /\ donor = FALSE /\ charged = FALSE /\ entitled = FALSE /\ leftOver = FALSE

(* Of the payments under way, those a handler of the sheet still awaits.   *)
Awaited(fs) == {f \in fs : f.phase # "pending"}

Advance(f, phase) == (flows \ {f}) \cup {[f EXCEPT !.phase = phase]}

-----------------------------------------------------------------------------
OpenCheckout ==
    /\ ~checkoutOpen /\ openings < MaxOpenings
    /\ checkoutOpen' = TRUE /\ openings' = openings + 1
    /\ timer' = awaiting
    /\ UNCHANGED <<plan, loadingStars, loadingCrypto, awaiting, flowVars, donor,
                   paidVars, leftOver>>

Select(p) ==
    /\ checkoutOpen /\ ~donor
    /\ plan' = p
    /\ UNCHANGED <<openVars, flagVars, flowVars, donor, paidVars, leftOver>>

(* Closing runs the effect that resets the flags.                          *)
Reset ==
    /\ checkoutOpen' = FALSE
    /\ loadingStars' = FALSE /\ loadingCrypto' = FALSE
    /\ awaiting' = FALSE /\ timer' = FALSE
    /\ UNCHANGED openings

CloseCheckout ==
    /\ checkoutOpen
    /\ Reset
    /\ leftOver' = (leftOver \/ Awaited(flows) # {})
    /\ UNCHANGED <<plan, flowVars, donor, paidVars>>

CanPayOwnFlag == ~donor /\ ~loadingStars /\ ~awaiting   \* mutant: one flag only
CanPay == ~donor /\ ~loadingStars /\ ~loadingCrypto /\ ~awaiting

Begin(kind) ==
    /\ checkoutOpen /\ CanPay /\ begun < MaxFlows
    /\ begun' = begun + 1
    /\ flows' = flows \cup {[n |-> begun + 1, kind |-> kind, plan |-> plan,
                             phase |-> "posting"]}

handleStars ==
    /\ Begin("stars")
    /\ loadingStars' = TRUE
    /\ UNCHANGED <<openVars, plan, loadingCrypto, awaiting, timer, donor,
                   paidVars, leftOver>>

handleCrypto ==
    /\ Begin("crypto")
    /\ loadingCrypto' = TRUE
    /\ UNCHANGED <<openVars, plan, loadingStars, awaiting, timer, donor,
                   paidVars, leftOver>>

-----------------------------------------------------------------------------
(* The POST is refused, times out or throws.                               *)
PostFails(f) ==
    /\ f \in flows /\ f.phase = "posting"
    /\ flows' = flows \ {f}
    /\ loadingStars' = (loadingStars /\ f.kind # "stars")
    /\ loadingCrypto' = (loadingCrypto /\ f.kind # "crypto")
    /\ UNCHANGED <<openVars, plan, awaiting, timer, begun, donor, paidVars,
                   leftOver>>

openInvoice(f) ==
    /\ f \in flows /\ f.phase = "posting" /\ f.kind = "stars"
    /\ flows' = Advance(f, "invoice")
    /\ UNCHANGED <<openVars, plan, flagVars, begun, donor, paidVars, leftOver>>

(* The user pays in Telegram's sheet; the backend hears of it on its own.  *)
Charge(f) ==
    /\ f \in flows /\ f.phase = "invoice"
    /\ flows' = Advance(f, "charged") /\ charged' = TRUE
    /\ UNCHANGED <<openVars, plan, flagVars, begun, donor, entitled, leftOver>>

InvoicePaid(f) ==
    /\ f \in flows /\ f.phase = "charged"
    /\ flows' = Advance(f, "profile")
    /\ UNCHANGED <<openVars, plan, flagVars, begun, donor, paidVars, leftOver>>

(* Cancelled or failed, or opened outside Telegram.                        *)
InvoiceEndsBusy(f) ==   \* mutant: no finally
    /\ f \in flows /\ f.phase = "invoice"
    /\ flows' = flows \ {f}
    /\ UNCHANGED <<openVars, plan, flagVars, begun, donor, paidVars, leftOver>>

InvoiceEnds(f) ==
    /\ f \in flows /\ f.phase = "invoice"
    /\ flows' = flows \ {f}
    /\ loadingStars' = FALSE
    /\ UNCHANGED <<openVars, plan, loadingCrypto, awaiting, timer, begun, donor,
                   paidVars, leftOver>>

(* Telegram answers "pending", or nothing at all within five minutes: the  *)
(* handler is done and the buttons are enabled, but the invoice or the     *)
(* charge it leaves behind is not over.                                    *)
InvoicePending(f) ==
    /\ f \in flows /\ f.phase \in {"invoice", "charged"}
    /\ flows' = Advance(f, "pending")
    /\ loadingStars' = FALSE
    /\ UNCHANGED <<openVars, plan, loadingCrypto, awaiting, timer, begun, donor,
                   paidVars, leftOver>>

PendingSettles(f, paid) ==
    /\ f \in flows /\ f.phase = "pending"
    /\ flows' = flows \ {f}
    /\ charged' = (charged \/ paid)
    /\ UNCHANGED <<openVars, plan, flagVars, begun, donor, entitled, leftOver>>

(* fetchProfile returned, with news or not; the sheet is told to close.    *)
StarsDone(f, answered) ==
    /\ f \in flows /\ f.phase = "profile"
    /\ flows' = flows \ {f}
    /\ donor' = (donor \/ (answered /\ entitled))
    /\ IF checkoutOpen
       THEN Reset
       ELSE /\ loadingStars' = FALSE
            /\ IF awaiting /\ donor'
               THEN awaiting' = FALSE /\ loadingCrypto' = FALSE
               ELSE UNCHANGED <<awaiting, loadingCrypto>>
            /\ UNCHANGED <<openVars, timer>>
    /\ leftOver' = (leftOver \/ (checkoutOpen /\ Awaited(flows \ {f}) # {}))
    /\ UNCHANGED <<plan, begun, paidVars>>

-----------------------------------------------------------------------------
(* The invoice of CryptoBot is opened and the sheet waits, if still open.  *)
CryptoLinked(f) ==
    /\ f \in flows /\ f.phase = "posting" /\ f.kind = "crypto"
    /\ flows' = Advance(f, "linked")
    /\ awaiting' = ~donor
    /\ loadingCrypto' = (loadingCrypto /\ ~donor)
    /\ timer' = IF awaiting THEN timer ELSE checkoutOpen /\ ~donor
    /\ UNCHANGED <<openVars, plan, loadingStars, begun, donor, paidVars,
                   leftOver>>

CryptoPaid(f) ==
    /\ f \in flows /\ f.phase = "linked"
    /\ flows' = Advance(f, "paid") /\ charged' = TRUE
    /\ UNCHANGED <<openVars, plan, flagVars, begun, donor, entitled, leftOver>>

CryptoExpires(f) ==
    /\ f \in flows /\ f.phase = "linked"
    /\ flows' = flows \ {f}
    /\ UNCHANGED <<openVars, plan, flagVars, begun, donor, paidVars, leftOver>>

Webhook ==
    /\ charged
    /\ charged' = FALSE /\ entitled' = TRUE
    /\ UNCHANGED <<openVars, plan, flagVars, flowVars, donor, leftOver>>

(* Focus, visibility or the timer reads the profile; an entitlement in it  *)
(* ends the wait and settles what was paid through CryptoBot.              *)
Refresh(byTimer, answered) ==
    /\ checkoutOpen /\ awaiting /\ (byTimer => timer)
    /\ donor' = (answered /\ entitled)
    /\ awaiting' = ~donor'
    /\ loadingCrypto' = (loadingCrypto /\ ~donor')
    /\ timer' = (timer /\ ~byTimer /\ ~donor')
    /\ flows' = IF donor' THEN {f \in flows : f.phase \notin {"linked", "paid"}}
                ELSE flows
    /\ UNCHANGED <<openVars, plan, loadingStars, begun, paidVars, leftOver>>

CheckoutNext ==
    \/ OpenCheckout \/ CloseCheckout \/ \E p \in Plans : Select(p)
    \/ handleStars \/ handleCrypto
    \/ \E f \in flows :
          \/ PostFails(f) \/ openInvoice(f) \/ Charge(f) \/ InvoicePaid(f)
          \/ InvoiceEnds(f) \/ InvoicePending(f)
          \/ CryptoLinked(f) \/ CryptoPaid(f) \/ CryptoExpires(f)
          \/ \E paid \in BOOLEAN : PendingSettles(f, paid)
          \/ \E answered \in BOOLEAN : StarsDone(f, answered)
    \/ Webhook
    \/ \E byTimer, answered \in BOOLEAN : Refresh(byTimer, answered)

CheckoutSpec == CheckoutInit /\ [][CheckoutNext]_checkoutVars

-----------------------------------------------------------------------------
CheckoutTypeOK ==
    /\ checkoutOpen \in BOOLEAN /\ openings \in 0 .. MaxOpenings
    /\ plan \in Plans
    /\ loadingStars \in BOOLEAN /\ loadingCrypto \in BOOLEAN
    /\ awaiting \in BOOLEAN /\ timer \in BOOLEAN
    /\ flows \subseteq Flows /\ begun \in 0 .. MaxFlows
    /\ donor \in BOOLEAN /\ charged \in BOOLEAN /\ entitled \in BOOLEAN
    /\ leftOver \in BOOLEAN

(* A user who leaves the sheet open has one payment awaited at a time:     *)
(* also while the app waits for CryptoBot's webhook nothing starts a       *)
(* second.  A Stars payment that Telegram called pending, or did not       *)
(* answer for in five minutes, is awaited no longer: it may still be       *)
(* charged, and beside it the user can pay again (README).                 *)
OneCheckout == ~leftOver => Cardinality(Awaited(flows)) <= 1

(* No button stays busy for nothing: what it waits for is running, or the  *)
(* sheet is waiting for the webhook, whatever became of the invoice and    *)
(* however often the sheet was closed.                                     *)
BusyMeansRunning ==
    /\ loadingStars => \E f \in Awaited(flows) : f.kind = "stars"
    /\ loadingCrypto => awaiting \/ \E f \in flows : f.kind = "crypto"
=============================================================================
